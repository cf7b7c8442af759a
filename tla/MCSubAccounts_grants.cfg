SPECIFICATION Spec
CONSTANTS
    bot = bot
    cron = cron
    r1 = r1
    r2 = r2
    NoAgent = NoAgent
    Agent = {bot, cron}
    Req = {r1, r2}
    Max = 1
    Fresh = {cron}
    MayFail = TRUE
SYMMETRY ReqSymmetry
INVARIANTS
    TypeOK
    
    AcceptsWhileGranted
PROPERTIES
    DeletedIsStopped
