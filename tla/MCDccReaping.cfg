SPECIFICATION Spec
CONSTANTS
    Addr = {s1, s2, s3}
    Null = Null
    owner = owner
    guest = guest
    dash = dash
    NoUser = NoUser
    Word = {dash}
    Dash = dash
    NL = NL
    NoHash = NoHash
    Password <- OneUserPassword
    HashType = {"md5"}
    StartType = "md5"
    NoType = NoType
    User <- OneUser
    Partyline <- OneUser
    Chunk <- OneUserChunk
    MaxLeftover = 0
    MaxIdx = 0
PROPERTY
    ClosedPeersAreReaped
CHECK_DEADLOCK FALSE
