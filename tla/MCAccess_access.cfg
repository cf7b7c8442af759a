SPECIFICATION FairSpec
CONSTANTS
    alice = alice
    bob = bob
    bot = bot
    n1 = n1
    n2 = n2
    r1 = r1
    t1 = t1
    t2 = t2
    None = None
    Addr = {alice, bob, bot}
    Grantable <- Chain
    SignsIn = {alice}
    Delegable <- Delegations
    Net = {n1, n2}
    Ranges = {{n1}, {n2}}
    Tok = {t1, t2}
    Req = {r1}
    MaxKeys = 2
    MaxSockets = 1
INVARIANT
    TypeOK
PROPERTIES
    ActsByGrant
    OnlyOwnersAdminister
    
