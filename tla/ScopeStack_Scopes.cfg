SPECIFICATION Spec
CONSTANTS
  s1 = s1
  s2 = s2
  s3 = s3
  s4 = s4
  s5 = s5
  d = d
  e = e
  m = m
  Scopes = {s1, s2, s3, s4}
  Declarations = {d, e}
  Members = {m}
  Nil = Nil
  MaxDepth = 4
SYMMETRY Symmetry
INVARIANTS NoDangling StackSound
CHECK_DEADLOCK FALSE
