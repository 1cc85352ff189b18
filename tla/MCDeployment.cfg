SPECIFICATION FairSpec
CONSTANTS
    r1 = r1
    r2 = r2
    r3 = r3
    r4 = r4
    old = old
    new = new
    Release = {r1, r2, r3, r4}
    Preinstalled = r1
    NoRelease = NoRelease
    VersionOf <- Versions
    SignedBy <- Signed
    PublicKey <- Packed
    EncryptionKey = {k1, k2}
    NoKey = NoKey
    MaxPublications = 2
    MaxOutside = 1
    Server = {a, b}
    Unit = a
    NoServer = NoServer
    Racing = FALSE
    MaxHands = 1
CHECK_DEADLOCK FALSE
INVARIANTS
    KeyFitsDatabase
    SocketOwner
    KeepsRelease
    OneRelease
PROPERTIES
    TrustedInstall
    
