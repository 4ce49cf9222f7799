CONSTANTS
    n1 = n1
    n2 = n2
    Network <- MCNetwork
    Char <- MCChar
    Ping <- MCPing
    Userhost <- MCUserhost
    Nick <- MCNick
    World <- MCWorld
    BufferSize = 5
    Slots = 3
SPECIFICATION IrcSpec
INVARIANTS
    LinesInOrder
    TidyLinesAreParsed
PROPERTIES
    FragmentsAreKept
CHECK_DEADLOCK FALSE
