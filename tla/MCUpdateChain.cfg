SPECIFICATION Spec
CONSTANTS
    Proc = {p1, p2, p3}
    NoProc = none
    Inode = {i1}
    NoInode = noino
    MaxCrashes = 0
    SlowUpdates = FALSE
    Releases <- ThreeReleases
    Manifests <- ThreeManifests
    NoVersion = noversion
    First <- V1
    OneStepRemoval = TRUE
    MaxRoots = 1
    Uninstalls = FALSE
SYMMETRY Symmetry
VIEW View
INVARIANT PointerRunnable
