CONSTANTS
  Order <- TeamFirst
  Local = "l"
  Home = "l"
  Callers = {1}
  Opens = {"first", "second"}
  Links = 0
  MaxFaults = 1
  MaxGestures = 0
SPECIFICATION MCSpec
PROPERTY HealedBesideSilence
CHECK_DEADLOCK FALSE
