CONSTANTS
  a1 = a1
  b1 = b1
  b2 = b2
  unsafe = unsafe
  c1 = c1
  c2 = c2
  Paths <- MCPaths
  SafePaths <- MCSafePaths
  Group <- MCGroup
  Contents <- MCContents
  Nothing = Nothing
  Mixed = Mixed
  NoManifest = NoManifest
  NoFile = NoFile
  Registries <- MCRegistries
  DatasetId = 2
  DatasetUses <- Uses
  Seeds = {1}
  Proportions <- MCProportions
  BucketRange = 20
  Bucket <- MCBucket
  MaxChanges = 3
  MaxPlans = 2
SPECIFICATION Spec
INVARIANTS
  TypeOK
  SplitsStable
PROPERTIES
  VerifyExact
SYMMETRY Symmetry
