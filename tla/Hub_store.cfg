SPECIFICATION Spec
CONSTANTS
  None = None
  AdminKey = AdminKey
  Main = Main
  Id = {i1, i2, i3}
  Handler = {h1, h2}
SYMMETRY IdSymmetry
INVARIANTS TypeOK AckedSurvives WriteThrough ActiveUnique
PROPERTY KeepsLedger
