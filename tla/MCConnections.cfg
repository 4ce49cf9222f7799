SPECIFICATION LSpec
CONSTANTS
    Net = {n1, n2}
    Retry = {n1}
    Vhost = {n1}
    Addr = {a1, a2, a3, a4}
    Null = Null
    MaxRehash = 2
CHECK_DEADLOCK FALSE
INVARIANTS PolledSocketsBelong PolledHaveDescriptors RegisteredOnce OneListener
PROPERTIES NewNetworksConnect
