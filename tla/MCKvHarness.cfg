SPECIFICATION Spec
CONSTANTS
  n = 3
  MaxStarts = 2
  Clerks = {1}
  Calls = {c1}
  Nil = Nil
INVARIANTS RepliesKept LinksSound LeaderCutOff
CHECK_DEADLOCK FALSE
CONSTRAINT FewRestarts
