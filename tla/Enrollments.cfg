SPECIFICATION Spec
CONSTANTS
  Users = {u1}
  Managers = {m1, m2}
  NoOne = NoOne
  Slots = {s1, s2}
  MaxNow = 2
SYMMETRY Symmetry
INVARIANTS
  TypeOK
  CertificateMeansCompleted
  ApprovalIsReal
PROPERTIES
  NothingMoves
  ImplementsSignUps
CHECK_DEADLOCK FALSE
