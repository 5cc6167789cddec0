SPECIFICATION Spec
CONSTANTS
  u1 = u1
  e1 = e1
  Evidence = {e1}
  Members = {u1}
  Author <- OneAuthor
  Verifications = {v1, v2}
  Slots = {s1, s2}
  MaxEdits = 1
  MaxIssues = 3
SYMMETRY Symmetry
INVARIANTS
  TypeOK
  ApprovedMeansVerified
  OneContribution
  RevocationTakesAll
PROPERTIES
  TrailAlternates
CHECK_DEADLOCK FALSE
