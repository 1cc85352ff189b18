SPECIFICATION Spec
CONSTANTS
    Proc = {p1, p2, p3}
    NoProc = none
    Inode = {i1}
    NoInode = noino
    MaxCrashes = 0
    SlowUpdates = FALSE
    Releases <- TwoReleases
    Manifests <- TwoManifests
    NoVersion = noversion
    First <- V1
    OneStepRemoval = TRUE
    MaxRoots = 2
    Uninstalls = TRUE
SYMMETRY Symmetry
VIEW View
INVARIANTS   RefusedStaysOut NothingLeft
PROPERTIES OwnRollback LockRules
