SPECIFICATION Spec
CONSTANTS
  a1 = a1  a2 = a2  b1 = b1  c1 = c1
  alice = alice  bob = bob  carol = carol
  x = x  y = y
  Channels = {x, y}
  Conns = {a1, a2, b1, c1}
  Users = {alice, bob, carol}
  UserOf <- MCUserOf
  MaxMessages = 2
  MaxMoves = 1
CONSTRAINT FewMembers
SYMMETRY Symmetry
INVARIANTS TypeOK SameOrder FanOutReachesMembers DanglesOnlyIfLacking
CHECK_DEADLOCK FALSE
