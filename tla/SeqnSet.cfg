SPECIFICATION Spec
CONSTANTS
  Last = 8
INVARIANTS
  TypeOK
  BlocksApart
  MissingExact
PROPERTIES
  SetImplemented
