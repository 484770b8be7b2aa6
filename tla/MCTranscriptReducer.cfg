SPECIFICATION Spec
CONSTANTS
  ToolIds = {t1, t2}
  Names = {bash}
  Requests = {q1}
  Fields = {title}
  None = None
  MaxRows = 4
  MaxText = 1
  MaxHistory = 2
SYMMETRY Symmetry
INVARIANTS
  TypeOK
  PositionsSound
  OneCardPerTool
PROPERTIES
  SealedTextStays
