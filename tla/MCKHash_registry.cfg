\* Four names that collide in different ways, in tables of four, eight and sixteen buckets.
SPECIFICATION FairSpec
CONSTANTS
  a = a
  b = b
  c = c
  d = d
  Keys = {a, b, c, d}
  f = f
  g = g
  Vals = {f, g}
  None = None
  HashFunctions <- Collisions
  MaxBuckets = 16
INVARIANTS
  TypeOK
  KeptOnce
  CountsTrue
  LookupsAgree
PROPERTIES
  ImplementsRegistry
  SetsEnd
CHECK_DEADLOCK FALSE
