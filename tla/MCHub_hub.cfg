SPECIFICATION FairSpec
CONSTANTS
    alice = alice
    bob = bob
    m1 = m1
    c1 = c1
    None = None
    Addr = {alice, bob}
    Msg = {m1}
    Client = {c1}
    AddrOf <- AllAlice
    Buffer = 2
    MaxBus = 1
    MaxBackoff = 3
    Channels = {"message", "msg_trash", "indicator"}
    MayFail = TRUE
INVARIANTS
    TypeOK
    GoneIsLast
    
PROPERTIES
    ToldOrClosed
    
