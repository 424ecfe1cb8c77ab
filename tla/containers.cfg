SPECIFICATION Spec
CONSTANTS
  Value = {a, b}
  NegativeZero = NegativeZero
  Zero = Zero
  Key = {k, l}
  Field = {f}
  Hole = Hole
  Absent = Absent
  MaxLength = 2
  MaxBatch = 2
  MaxGap = 0
INVARIANTS TypeOK ReadsBack
PROPERTIES ImplementsCollections
