\* PartRowsFresh once a second drivetrain makes a component shared.
CONSTANTS
  Source = {s1, s2}
  MaxAdds = 3
  Hierarchy <- MCHierarchy
  ProductClass <- MCProductClass
  Docs <- DriveDocs
SPECIFICATION Spec
INVARIANT PartRowsFresh
