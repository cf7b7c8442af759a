SPECIFICATION FairSpec
CONSTANTS
    alice = alice
    bob = bob
    far = far
    m1 = m1
    m2 = m2
    NoMsg = NoMsg
    NoAddr = NoAddr
    Local = {alice, bob}
    Remote = {far}
    Msg = {m1}
    Recipients <- OneEach
    MaxBatches = 2
    Terminal = {TRUE, FALSE}
    Ops = {"age"}
    Outcomes = {"delivered"}
    MayFail = FALSE
    MaxHops = 1
CHECK_DEADLOCK FALSE
PROPERTIES
    HeldUntilDeleted
    EveryRecipientResolved
