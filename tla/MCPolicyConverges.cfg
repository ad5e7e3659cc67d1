CONSTANTS
    w1 = w1
    w2 = w2
    w3 = w3
    private = private
    open = open
    shared = shared
    Peer <- MCPeer
    Caller <- MCCaller
    Home <- MCHome
    Policy <- MCPolicy
    Default = private
    MaxWrites = 3
SPECIFICATION PolicySpec
INVARIANT PolicyConverges
CHECK_DEADLOCK FALSE
