SPECIFICATION Spec
CHECK_DEADLOCK FALSE
CONSTANTS
  Questions = {1, 2}
  Materials = {1, 2}
  Admins = {a1, a2}
  MaxVersions = 2
  Jobs = {1}
  Positions = {1, 2}
  FileItem <- MCFileItem
  Edits <- MCEdits
  MaxDrafts = 1
  Place <- MCPlace
  Scopes <- MCScopes
  Counts = {1, 2}
  RecentSessions = 1
  MaxSessions = 2
  MaxHidden = 1
  Rosters <- MCRosters
  Writes <- MCWrites
  Uploads <- MCUploads
SYMMETRY AdminSymmetry
INVARIANTS
  TypeOK
  CatalogueIsSound
  ImportIsSound
  CountsAreRight
  GivenAsAsked
PROPERTIES
  OneQuestionPerItem
