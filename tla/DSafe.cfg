CONSTANTS
  t1 = t1 t2 = t2 t3 = t3 h1 = h1 p1 = p1 w1 = w1
  NONE = NONE
  Telnet = {t1, t2} Web = {h1}
  Players = {p1, w1} WwwUser = w1
  MaxSockets = 2 MaxLogins = 1 MaxWelcomes = 2
  MovedTo = {w1} MaxFrob = 2 MaxLines = 1 MaxDepth = 3
SPECIFICATION Spec
SYMMETRY SameKind
INVARIANTS CountsMatch PlayerDescrs NoDangling LoginLimit
