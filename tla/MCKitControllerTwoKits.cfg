CONSTANTS
  k1 = k1  k2 = k2  img1 = img1  img2 = img2  none = none
  Kits = {k1, k2}
  Integrations = {i1}
  Images = {img1, img2}
  ArtifactIds = {a1}
  NoImage = none
  NoKit = nokit
  NoBuild = nobuild
  PrebuiltImage <- MCPrebuiltImage
  MaxFailures = 1
  MaxEdits = 1
  MaxRebinds = 1
SPECIFICATION Spec
CHECK_DEADLOCK FALSE
INVARIANT KitResultConsistent
PROPERTY ImplementsLifecycle
