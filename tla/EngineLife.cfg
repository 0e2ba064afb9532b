SPECIFICATION FairAppSpec
CONSTANTS
  c1 = c1
  c2 = c2
  i1 = i1
  i2 = i2
  Caller = {c1, c2}
  Instr = {i1, i2}
  Asked <- AskedOf
  MaxTrouble = 1
INVARIANTS
  AppInv
  AnswerIsHonest
  NothingSentUnlogged
  CleanExitIsComplete
PROPERTIES
  AppendedGetsDurable
  MismatchShown
CHECK_DEADLOCK FALSE
