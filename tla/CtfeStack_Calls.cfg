SPECIFICATION Spec
CONSTANTS
  a = a
  b = b
  n = n
  x = x
  y = y
  w = w
  p = p
  q = q
  fn = fn
  none = none
  d1 = d1
  d2 = d2
  Vars = {a, n, x, w, p}
  Functions = {fn, none}
  Global = none
  FunctionOf <- MCFunctionOf
  Params <- MCParams
  RefParams = {a}
  Scoped = {w}
  Data = {d1, d2}
  Nil = Nil
  MaxCalls = 4
  MaxStack = 9
SYMMETRY Symmetry
INVARIANTS Restored OwnValues
CHECK_DEADLOCK FALSE
