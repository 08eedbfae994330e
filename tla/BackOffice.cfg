CONSTANTS
    Foci = {"account", "roles", "gate", "ranks", "pictures", "admin", "console",
            "command", "public"}
    Slots = {1, 2}
    Officers = {"moderator", "admin"}
    Topics <- TopicsDef
    Ttl = 1
    Cooldown = 1
    MaxIds = 2
    MaxRequests = 1
    MaxTime = 1
    MaxCalls = 3
    Callers = {1, 2}
    Ladder <- LadderDef
    MaxAwards = 2
    MaxCommands = 2
    MaxFails = 1
    Lookups = {1, 2}
    Concerns <- ConcernsDef
    Timeout = 1
    BreakerCooldown = 2
    Threshold = 2
    VerdictTtl = 2
    DegradedTtl = 1
    MaxTurns = 3
    RankIds = {"r1", "r2"}
    MedalIds = {"m1"}
    Names = {"Recruit", "Corporal"}
    Protected = {"Recruit"}
    Offset = 2
    MaxHeld = 1
    Staff = {1, 2}
    MaxErrands = 3
    Members = {"ann", "bob"}
    Fans = {"ann"}
    Moderators = {"bob"}
    Trusted = {"bob"}
    Items = {1, 2}
    Keys = {"k1"}
    MaxItems = 1
    Desks = {1, 2}
    MaxOrders = 3
    Cells = {"owner:settings", "moderator:gallery", "applicant:roles"}
    Core = {"owner:settings"}
    Closed = {"applicant:roles"}
    Defaults = {"owner:settings", "moderator:gallery"}
    Matters = {"matrix", "bot"}
    Batches <- BatchesDef
    Clerks = {1, 2}
    Readers = {1}
    CacheTtl = 1
    MaxClock = 1
    MaxDeeds = 3
    Bureaux = {1, 2}
    Agendas <- AgendasDef
    Tries = 2
    Comrades = {"hal", "ada", "moe"}
    Chief = "hal"
    Appointers = {"owner", "admin", "moderator"}
    Keepers = {"owner"}
    Asked = {"changeRole", "suspend", "changeRank"}
    Openings <- OpeningsDef
    Warrants = {1, 2}
    MaxWarrants = 2
    Folk = {"m1", "m2"}
    Handles = {"h1", "h2"}
    Musters = {"e1", "e2"}
    Shots = {"s1", "s2"}
    Visits = {1, 2}
    Beginning <- BeginningDef
    Themes <- ThemesDef
    AvatarTtl = 1
    FetchTime = 1
    Portraits = 3
SPECIFICATION Spec
INVARIANTS
    TypeOK
    ErasureIsFinal
    ShutOutInTime
    GuildFollowsRoster
    OutageIsHarmless
    EarnedIsKept
    ShownIsWhole
    SavedIsInForce
    CommandStands
    PublicSiteHolds
CHECK_DEADLOCK FALSE
