SPECIFICATION StorageSpec
CONSTANTS
  VFS_MAX_NODES = 3
  VFS_MAX_DEPTH = 1
  MAX_FILES = 1
  MAX_PERM_ENTRIES = 2
  NAME_LEN = 2
  Names = {"a", "b"}
  FileNames = {"f"}
  Users = {0, 1}
  Data = {1}
  DefaultDirs <- MCDefaultDirs
  PathBound = 1
  RemovesRoot = FALSE
INVARIANTS
  EveryNodeHasItsPath
  PermissionsFollowOwner
 
