SPECIFICATION FairSpec
CONSTANTS
  Settings <- MCSettings
  Recruiting <- MCRecruiting
  Keys <- MCKeys
  DefaultKey = "default"
  Labels <- MCLabels
  MaxActs = 3
  MaxFailures = 1
INVARIANTS
  TypeOK
  SavedIsStored
  LeavingSaves
  PublishedIsFlushed
CHECK_DEADLOCK FALSE
PROPERTY
  EditsAreSaved
