SPECIFICATION Spec
CONSTANTS
    Addr = {s1, s2, s3}
    Null = Null
    owner = owner
    guest = guest
    dash = dash
    NoUser = NoUser
    Word = {dash}
    Dash = dash
    NL = NL
    NoHash = NoHash
    Password <- MCPassword
    HashType = {"md5", "sha512"}
    StartType = "md5"
    NoType = NoType
    User <- MCUser
    Partyline <- MCPartyline
    Chunk <- MCChunk
    MaxLeftover = 1
    MaxIdx = 2
SYMMETRY MCSymmetry
CONSTRAINT MCBound
INVARIANTS
    ListHoldsLiveSessions
    WalkStaysInList
    IdsAreNearlyUnique
    LoginIsBackedByUser
    NoLineLeftBehind
CHECK_DEADLOCK FALSE
