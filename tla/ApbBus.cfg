CONSTANTS
  ND = 1
  Reg = {0, 1}
  Bursts = FALSE
  None = None
SPECIFICATION Spec
INVARIANTS ReadsLastWrite QuietAtRest
PROPERTY RequestAnswered
