\* every store and job of the console, one slice at a time
SPECIFICATION MCSpec
CONSTANTS
    Slices = {"failures", "rules", "nodes", "mesh", "drift", "onboarding", "anycast", "rulestore",
              "peering", "capacity", "sla", "heartbeat", "oncall", "replication", "rpki", "ticker", "hijack",
              "wiki", "billing", "incidents", "assistant", "agent", "drill", "audit"}
    MaxEvents <- MCMaxEvents
    Failures = {"ddos-apply", "mesh-apply", "onboard", "config-rollback"}
    CritFailures = {"mesh-apply"}
    NotifyWindow = 1
    ApplyFailed = "ddos-apply"
    Rules = {r1, r2}
    Pops = {p1, p2}
    SyncTasks = {s1, s2}
    Nodes = {n1, n2}
    Numbered = {n1, n2}
    WgLinked = {}
    Uplinks = {u1}
    Checkers = {c1, c2}
    NoConf = NoConf
    Vanilla = Vanilla
    RuleIds = {rule1, rule2}
    GroupIds = {all, g1}
    Builtins = {rule1}
    AllNodes = all
    Reloads = {t1, t2}
    MaxEdit = 2
    Apps = {x1}
    Asns = {a1}
    Edges = {e1, e2}
    PrefixSets = {"s1", "s2"}
    PeerTasks = {q1, q2}
    MaxGens = 2
    MaxPerIP = 1
    MaxToday = 3
    KeepDays = 1
    MaxLoad = 2
    MinDays = 2
    Alerts = {A, B}
    NoAlert = NoAlert
    Nets = {x6}
    Pollers = {refresh1}
    Setters = {set1, set2}
    MinRefresh = 1
    MaxRefresh = 2
    Suspects = {h1, h2}
    EventCap = 1
    Unreached = Unreached
    MaxBackoff = 2
    Admins = {"P"}
    People = {"P", "Q"}
    Group = "G"
    Plans <- MCPlans
    QueueCap = 1
    MaxAge = 1
    Paths = {page1}
    Contents = {text1, text2}
    WikiTxs = {w1, w2}
    Subs = {sub1}
    MaxMonth = 5
    Incidents = {i1, i2}
    MaxConvs = 2
    MaxMemory = 2
    Texts = {"x1", "x2", "x3"}
    Models = {"m1", "m2"}
    AgentKeys = {"admin", "user"}
    AgentAdmins = {"admin"}
    Steps = {go1, go2}
    Taps = {tap1, tap2}
    MaxCalls = 3
    NoCall = NoCall
    NoSession = NoSession
    Boxes <- MCBoxes
    MaxBans = 2
    MaxAudited = 5
    auditLimit = 2
    Matching = {1, 2, 3, 5}
INVARIANTS
    AdminsApproveWrites
    DrillsUndoThemselves
    WalksAreComplete
    NoSilentFailure
    TablesFollowRules
    EveryRuleIsEvaluated
    RecordedIsDeployed
    MarkedIsTold
    NothingIsLost
PROPERTIES
    MeshIsReversible
CHECK_DEADLOCK FALSE
