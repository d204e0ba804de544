SPECIFICATION ListSpec
CONSTANTS
  Keys = {1, 2, 3}
  Addrs = {a1, a2, a3, a4}
  Null = Null
INVARIANT
  WellLinked
PROPERTY
  ImplementsOrder
SYMMETRY AddrSymmetry
