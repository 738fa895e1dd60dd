SPECIFICATION Spec
CONSTANTS
 w1 = w1
 w2 = w2
 tA = tA
 tB = tB
 s1 = s1
 t1 = t1
 t2 = t2
 pa = pa
 pb = pb
 Workers = {w1, w2}
 FirstWorker = w1
 Types = {tA, tB}
 AtFirst = {tA}
 Savers = {s1}
 Keep = 1
 Forms <- MCForms
 MaxRuns = 2
 MaxTime = 2
 MaxSaves = 1
 MaxCrashes = 1
 MaxJobs = 4
 Ticks = {t1, t2}
 BatchSize = 1
 Sensitive = {"SSN", "EMAIL"}
 Policies <- MCPolicies
 MaxPolicyChanges = 1
 MaxWorkerCrashes = 1
 MaxJobErrors = 1
 Paths = {pa, pb}
 Texts <- MCTexts
 PostSize = 2
 MaxVersion = 4
 MaxLostPosts = 1
 e1 = e1
 e2 = e2
 a1 = a1
 so1 = so1
 so2 = so2
 hs = hs
 rs = rs
 pg = pg
 h1 = h1
 Events = {e1, e2}
 RetAlerts = {a1}
 Sources = {so1, so2}
 Sweepers = {hs, rs}
 Hourly = hs
 RetBatch = 1
 MaxBatches = 1
 Limits <- MCLimits
 RetPages = {pg}
 Handlers = {h1}
 LastDay = 2
 MaxSaved = 1
 MaxChanged = 3
 br1 = br1
 br2 = br2
 fs1 = fs1
 sh1 = sh1
 tf = tf
 Browsers = {br1, br2}
 FormRows = {fs1, sh1}
 FileServers = {fs1}
 Plains = {1, 2}
 Typeds = {3, 4}
 Entries <- MCEntries
 NothingTyped = NothingTyped
 MaxSends = 2
 MaxSendsLost = 1
 TestForms = {tf}
 MaxTestsRun = 3
 MaxTestFaults = 1
 Parts = {"backup", "classify", "discover", "events", "snapshots", "alerts", "forms", "tests"}
INVARIANTS
 WorkersTypesOK
 BackupsHold
 ClassificationHolds
 RetentionHolds
 FormsHold
 TickIsOfLast
PROPERTIES
 SettledStays
CHECK_DEADLOCK FALSE
