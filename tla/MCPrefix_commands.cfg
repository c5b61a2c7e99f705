SPECIFICATION Spec
CONSTANTS
  p1 = p1
  p2 = p2
  v1 = v1
  v2 = v2
  a = a
  b = b
  d = d
  f1 = f1
  None = None
  Folder = Folder
  User = User
  Pkg <- MCPkg
  Ver <- MCVer
  Path <- MCPath
  Above <- MCAbove
  Profile <- MCProfile
  Files <- MCFiles
  Names <- MCNames
  Installs <- SmallInstalls
  Upgrades <- SmallUpgrades
  Removes <- MCPkg
  Manifests <- NoManifests
  SyncFlags <- AllFlags
  Faults <- NotExtract
  Shared <- JustP2
  UserPaths = {d}
INVARIANTS LinksOwned NothingBehindLinks
PROPERTIES DownloadsComeFirst ChangesOnlyOwnPaths
