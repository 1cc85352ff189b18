SPECIFICATION Spec
CONSTANTS
    Proc = {p1, p2, p3}
    NoProc = none
    Inode = {i1}
    NoInode = noino
    MaxCrashes = 1
    SlowUpdates = FALSE
    Releases <- TwoReleases
    Manifests <- TwoManifests
    NoVersion = noversion
    First <- V1
    OneStepRemoval = TRUE
    MaxRoots = 1
    Uninstalls = FALSE
SYMMETRY Symmetry
VIEW View
INVARIANTS PointerRunnable 
