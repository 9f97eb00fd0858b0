SPECIFICATION Spec
CONSTANTS
  Dimensions = 2
  p1 = p1
  p2 = p2
  p3 = p3
  p4 = p4
  p5 = p5
  p6 = p6
  Item = {p1, p2, p3, p4, p5, p6}
  Vec <- MCVec
  Query <- MCQuery
  Ks = {1, 3}
  DistFns = {"EUCLIDEAN", "CHEBYSHEV", "MANHATTAN"}
INVARIANTS TypeOK HoldsStored NearestFound
