CONSTANTS
  k1 = k1  k2 = k2  img1 = img1  img2 = img2  none = none
  Kits = {k1}
  Integrations = {i1, i2}
  Images = {img1}
  ArtifactIds = {a1}
  NoImage = none
  NoKit = nokit
  NoBuild = nobuild
  PrebuiltImage <- MCPrebuiltImage
  MaxFailures = 1
  MaxEdits = 1
  MaxRebinds = 1
  MaxCacheLag = 2
SPECIFICATION CSpec
CHECK_DEADLOCK FALSE
PROPERTY ImplementsLifecycle
