SPECIFICATION Spec
CONSTANTS
  a = a
  b = b
  n = n
  x = x
  y = y
  w = w
  p = p
  q = q
  fn = fn
  none = none
  d1 = d1
  d2 = d2
  Vars = {a, b, x, y, p}
  Functions = {fn, none}
  Global = none
  FunctionOf <- MCFunctionOf
  Params <- MCParams
  RefParams = {a, b}
  Scoped = {}
  Data = {d1, d2}
  Nil = Nil
  MaxCalls = 4
  MaxStack = 12
SYMMETRY Symmetry
INVARIANT AlwaysRestored
CHECK_DEADLOCK FALSE
