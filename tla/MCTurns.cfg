\* Five targets, one or two free slots: the oldest row can wait for ever.
CONSTANTS
  c1 = c1  c2 = c2  c3 = c3  c4 = c4  c5 = c5
  Configured = {c1, c2, c3, c4, c5}
  Slots = 2
SPECIFICATION Spec
PROPERTIES
  EveryTargetClaimed
