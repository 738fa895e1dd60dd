SPECIFICATION FairSpec
CONSTANTS
 u1 = u1
 u2 = u2
 pa = pa
 pb = pb
 pc = pc
 ps = ps
 px = px
 home = home
 sub = sub
 s1 = s1
 h1 = h1
 h2 = h2
 f1 = f1
 ag = ag
 x = x
 y = y
 j1 = j1
 m1 = m1
 m2 = m2
 p1 = p1
 p2 = p2
 c1 = c1
 c2 = c2
 c3 = c3
 c4 = c4
 fa = fa
 fb = fb
 k1 = k1
 k2 = k2
 d1 = d1
 Users = {u1, u2}
 Paths = {pa, pb, pc}
 Before = 1
 After = 0
 IdWindow = 3
 PollSize = 2
 ReadsRecorded = TRUE
 MaxLog = 3
 MaxChanges = 2
 MaxLostPosts = 1
 MaxAgentRestarts = 1
 WPaths = {pa, ps}
 WFolders = {home, sub}
 Home = home
 InFolder <- Folder
 Excluded = {px}
 EventBatch = 2
 MaxFsChanges = 2
 MaxLostBatches = 1
 Shares = {s1}
 Hosts = {h1, h2}
 ShareFolders = {f1}
 Collectors = {ag}
 Admins = {x}
 Intervals = {1}
 MaxScans = 1
 MaxEditsMade = 2
 MaxLoops = 5
 MaxLostSyncs = 0
 Jobs = {j1}
 Machines = {m1}
 MaxAttempts = 2
 MaxLostReports = 2
 MaxDeaths = 1
 Changes = {c1, c2, c3, c4}
 ChangeOf <- MCChangeOf
 Readers = {u1}
 ReadFiles = {fa, fb}
 Threshold = 2
 ReadThreshold = 1
 Window = 0
 MaxSamplePaths = 1
 MayQuarantine = TRUE
 Posters = {p1, p2}
 Scanners = {ag}
 Sweeps = {k1}
 SilentAfter = 1
 Deciders = {d1}
 LastTick = 0
 MaxAlerts = 8
 MaxDecisions = 2
 MaxStops = 1
 MaxAbsences = 1
 Parts = {"collect", "home", "sources", "jobs", "silence"}
PROPERTIES
 ReportsArrive
 DutiesDone
CHECK_DEADLOCK FALSE
