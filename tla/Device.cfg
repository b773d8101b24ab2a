SPECIFICATION Spec
CONSTANTS
  User = {u1, u2}
  Char = {a, b}
  Size = 3
  NUL = NUL
  Junk = Junk
  MaxLoads = 2
INVARIANT DeviceSound
PROPERTY UsersServed
CHECK_DEADLOCK FALSE
