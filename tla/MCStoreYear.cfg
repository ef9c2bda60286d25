\* Year axis only: incremental adds, re-adds, interrupted and repeated builds.
CONSTANTS
  Source = {s1, s2, s3}
  MaxAdds = 4
  Hierarchy <- MCHierarchy
  ProductClass <- MCProductClass
  Docs <- YearDocs
SPECIFICATION Spec
INVARIANTS TypeOK ServedFresh FinaliseIdempotent
