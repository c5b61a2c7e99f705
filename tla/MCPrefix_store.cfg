SPECIFICATION Spec
CONSTANTS
  p1 = p1
  p2 = p2
  v1 = v1
  v2 = v2
  a = a
  b = b
  d = d
  f1 = f1
  None = None
  Folder = Folder
  User = User
  Pkg <- MCPkg
  Ver <- MCVer
  Path <- MCPath
  Above <- MCAbove
  Profile <- MCProfile
  Files <- MCFiles
  Names <- MCNames
  Installs <- ForcedInstall
  Upgrades <- NoUpgrades
  Removes <- JustP2
  Manifests <- OneManifest
  SyncFlags <- PruneFlags
  Faults <- NotWipe
  Shared = {}
  UserPaths = {}
PROPERTIES ImplementsPackageStore
