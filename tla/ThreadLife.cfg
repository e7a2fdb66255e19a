CONSTANTS
  Callers = {c1, c2, c3}
  StrikeAt = {"block", "told"}
  MaxRaises = 2
SPECIFICATION Spec
INVARIANTS NoForgottenJoiner
PROPERTIES JoinTruthful JoinReturns
