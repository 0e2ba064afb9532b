----------------------------- MODULE MCRecovery -----------------------------
\* Instances of Recovery for TLC.
EXTENDS Recovery, TLC

CONSTANTS b1, b2, i1

\* What a bus handler may record: a mark, fills of two books, funding, and an order
\* that changes nothing.  The books are interchangeable.  Limits and switches, which
\* their events just overwrite, are left to the theorems.
RecordedEvents ==
  {MarkUpdate(i1, 2), Fill(b1, i1, 1, 1), Fill(b2, i1, 1, 1), FundingUpdate(i1, 1), Audit}

\* A hazard only adds steps, so every behaviour without edits or losses is one of
\* the second world too; marks seeded at start-up change what can be said.
AllWorlds == {{"marketClient"}, {"booksAdded", "booksDropped", "powerLosses"}}

BookSymmetry == Permutations({b1, b2})

\* For the run about onboarding: a roster that only grows.
GrowingRoster == {{"booksAdded"}}
=============================================================================
