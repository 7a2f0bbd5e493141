SPECIFICATION Spec
CONSTANTS
 c1 = c1 e1 = e1 e2 = e2 s1 = s1 r1 = r1
 Conns = {c1}
 Owner <- MCOwner
 Scenarios <- MCTogether
 Plains = {r1}
 Execs = {e1, e2}
 Shells = {s1}
 Cap <- MCCap
 MaxOutput = 1
 WsCap = 1
 None = None
INVARIANTS NobodyWaitsForTheDead  
CHECK_DEADLOCK FALSE
