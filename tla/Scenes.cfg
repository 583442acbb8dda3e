SPECIFICATION Spec
CONSTANTS
  h = h
  s = s
  hPlug = hPlug
  hLamp = hLamp
  sPlug = sPlug
  sLamp = sLamp
  n1 = n1
  n2 = n2
  Callers = {h, s}
  Updates = {hPlug, hLamp, sPlug, sLamp}
  CallerOf <- Whose
  Slow = {hPlug, sPlug}
  Remote = {h}
  Notifiers = {n1, n2}
  Tasks = {hPlug, hLamp, sPlug, sLamp, n1, n2}
INVARIANT AnswerIsTrue
PROPERTY EveryCallEnds
