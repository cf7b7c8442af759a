SPECIFICATION Spec
CONSTANTS
    bot = bot
    cron = cron
    r1 = r1
    r2 = r2
    NoAgent = NoAgent
    Agent = {bot}
    Req = {r1, r2}
    Max = 1
    Fresh = {}
    MayFail = FALSE
SYMMETRY ReqSymmetry
INVARIANTS
    NeverOrphaned
