CONSTANTS
  k1 = k1  k2 = k2  img1 = img1  img2 = img2  none = none
  Kits = {k1}
  Integrations = {i1}
  Images = {img1}
  ArtifactIds = {a1}
  NoImage = none
  NoKit = nokit
  NoBuild = nobuild
  PrebuiltImage <- MCPrebuiltImage
  MaxFailures = 0
  MaxEdits = 0
  MaxRebinds = 0
SPECIFICATION Spec
CHECK_DEADLOCK FALSE
PROPERTY SubmittedBuildCompletes
