\* Year and drivetrain axes: what finalising on every add keeps.
CONSTANTS
  Source = {s1, s2, s3}
  MaxAdds = 4
  Hierarchy <- MCHierarchy
  ProductClass <- MCProductClass
  Docs <- DriveDocs
SPECIFICATION Spec
INVARIANTS OrderIndependent NoDoubleSlice ValueSeparation StaysUnderBase FreshWhileUnshared
PROPERTY ReaddKeepsView
