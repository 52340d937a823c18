CONSTANTS
  s1 = s1
  s2 = s2
  s3 = s3
  None = None
  Sessions = {s1, s2, s3}
  MaxGen = 2
SYMMETRY MCSymmetry
SPECIFICATION Spec
INVARIANTS RevokedIsFinal
PROPERTIES TicketsOfOneLife ImplementsSessionLives
