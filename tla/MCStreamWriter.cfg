SPECIFICATION FairSpec
CONSTANTS
  h = h
  t1 = t1
  Handler <- h
  Tasks <- OneTask
  MaxEmits = 2
  MaxTime = 2
  MaxFaults = 2
  MayPanic = TRUE
INVARIANTS
  TerminalIsLastUnlessPanic
  OneAnswer
  NoEventAfterPartial
  AcceptedIsDelivered
  AnswerIsStampedLast
PROPERTIES
  PromiseKept
  EndedRunExits
