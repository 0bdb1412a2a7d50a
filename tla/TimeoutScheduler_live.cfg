SPECIFICATION LiveSpec
CONSTANTS
  s1 = s1
  s2 = s2
  w1 = w1
  w2 = w2
  Session = {s1}
  Worker = {w1, w2}
  MaxPauses = 1
  MaxAborts = 1
  SendFails = TRUE
PROPERTIES NobodyForgotten
CHECK_DEADLOCK FALSE
