SPECIFICATION Spec
CONSTANTS
    alice = alice
    bob = bob
    far = far
    m1 = m1
    m2 = m2
    NoMsg = NoMsg
    NoAddr = NoAddr
    Local = {alice, bob}
    Remote = {}
    Msg = {m1}
    Recipients <- Everybody
    MaxBatches = 2
    Terminal = {FALSE}
    Ops = {"age"}
    Outcomes = {"retryable", "refused", "delivered"}
    MayFail = TRUE
    MaxHops = 1
SYMMETRY MsgSymmetry
CHECK_DEADLOCK FALSE
INVARIANTS
    ChargedOnce
    WorkFindsItsRow
PROPERTIES
    LocalOutcomeFinal
