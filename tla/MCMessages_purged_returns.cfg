SPECIFICATION Spec
CONSTANTS
    alice = alice
    bob = bob
    far = far
    m1 = m1
    m2 = m2
    NoMsg = NoMsg
    NoAddr = NoAddr
    Local = {alice, bob}
    Remote = {}
    Msg = {m1, m2}
    Recipients <- ToBob
    MaxBatches = 0
    Terminal = {FALSE}
    Ops = {}
    Outcomes = {"delivered"}
    MayFail = FALSE
    MaxHops = 1
SYMMETRY MsgSymmetry
CHECK_DEADLOCK FALSE
PROPERTIES
    PurgedStaysPurged
