SPECIFICATION Spec
CONSTANTS
  h = h
  t1 = t1
  Handler <- h
  Tasks <- OneTask
  MaxEmits = 1
  MaxTime = 1
  MaxFaults = 0
  MayPanic = TRUE
INVARIANTS
  TerminalIsLast
