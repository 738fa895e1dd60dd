SPECIFICATION LiveSpec
CONSTANTS
 a1 = a1
 w1 = w1
 w1b = w1b
 n1 = n1
 r1 = r1
 d1 = d1
 d2 = d2
 g1 = g1
 s1 = s1
 host1 = host1
 host2 = host2
 p1 = p1
 c1 = c1
 c2 = c2
 pg1 = pg1
 pg2 = pg2
 i1 = i1
 kw = kw
 kn = kn
 e1 = e1
 hs = hs
 rs = rs
 Alerts = {a1}
 Actions = {w1, w1b}
 About <- MCAbout
 TypeOf <- MCTypeOf
 Suggesting = {a1}
 Quarantinable = {}
 BackendRules = {a1}
 Offerable = {a1}
 AutoSend = {a1}
 Requests = {r1}
 Runs = {n1}
 Polls = {}
 TakeOffer = 2
 TakeDue = 1
 MayAge = {w1}
 MaxFaults = 1
 Ids = {d1, d2}
 Target <- TwoMachines
 Creators = {r1}
 DeployPages = {g1}
 Syncs = {s1}
 Take = 1
 MaxRestarts = 0
 MaxLosses = 0
 MaxCrashes = 0
 Processes = {p1}
 Calls = {c1, c2}
 Of <- OneProcess
 MaxIssued = 8
 MaxEvents = 2
 Keys = {kw, kn}
 Values = {0, 1}
 Weak <- MCWeak
 Pages = {pg1, pg2}
 Uploads = {i1}
 PageOf <- MCPageOf
 Imports <- MCImports
 Readers = {r1}
 MaxEdits = 1
 MaxRequests = 2
 MaxLost = 1
 Events = {e1}
 RetAlerts = {}
 Sources = {}
 Sweepers = {hs, rs}
 Hourly = hs
 RetBatch = 1
 MaxBatches = 1
 Limits <- MCLimits
 RetPages = {pg1}
 Handlers = {}
 LastDay = 2
 MaxSaved = 1
 MaxChanged = 3
 Parts = {"respond", "deploy", "session", "settings", "retention"}
PROPERTIES
 NotificationsGoOut
 DeploymentsSettle
 StateCatchesUp
CHECK_DEADLOCK FALSE
