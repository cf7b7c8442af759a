SPECIFICATION Spec
CONSTANTS
    alice = alice
    bob = bob
    far = far
    m1 = m1
    m2 = m2
    NoMsg = NoMsg
    NoAddr = NoAddr
    Local = {alice, bob}
    Remote = {far}
    Msg = {m1, m2}
    Recipients <- OneEach
    MaxBatches = 0
    Terminal = {FALSE}
    Ops = {"trash", "update", "delete", "react"}
    Outcomes = {"delivered"}
    MayFail = FALSE
    MaxHops = 1
SYMMETRY FullSymmetry
CHECK_DEADLOCK FALSE
INVARIANTS
    TypeOK
    ParentOnHost
    ThreadsAcyclic
    
    OwnPurgeFinal
    CountIsThreads
    KeptIsReadable
    DeletedIsUnreadable
    ThreadHidesOnlyOthers
    CompleteIsWhole
PROPERTIES
    TrashIsPrivate
    KeepsCustody
