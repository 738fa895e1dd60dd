SPECIFICATION Spec
CONSTANTS
 d1 = d1
 d2 = d2
 r1 = r1
 g1 = g1
 s1 = s1
 s2 = s2
 host1 = host1
 Ids = {d1, d2}
 Target <- OneMachine
 Creators = {r1}
 DeployPages = {g1}
 Syncs = {s1, s2}
 Take = 2
 MaxRestarts = 1
 MaxLosses = 1
 MaxCrashes = 1
 p1 = p1
 p2 = p2
 c1 = c1
 c2 = c2
 c3 = c3
 Processes = {p1, p2}
 Calls = {c1, c2, c3}
 Of <- TwoProcesses
 MaxIssued = 3
 MaxEvents = 2
 R = R
 A = A
 B = B
 x = x
 ay = ay
 bx = bx
 m1 = m1
 m2 = m2
 ag1 = ag1
 ag2 = ag2
 Paths = {x, ay, bx}
 Folders = {R, A, B}
 FolderOf <- MCFolderOf
 BaseOf <- MCBaseOf
 Inside <- MCInside
 Root = R
 BatchSize = 1
 AtFirst <- MCAtFirst
 MaxClock = 2
 MaxChanges = 2
 MaxFaults = 1
 DriveKinds = {"gdrive", "m365"}
 DriveFiles = {1, 2}
 DriveFolders = {3, 4}
 TopFolder = TopFolder
 Nowhere = Nowhere
 ItemNames = {"n", "m"}
 FirstTrees <- MCTrees
 PageSize = 1
 TokenLife = 3
 Margin = 1
 MaxMoves = 2
 MaxWalks = 1
 MaxPageFaults = 1
 Width = 4
 MinPrefix = 1
 MaxScanAddresses = 4
 Machines = {m1, m2}
 HostOf <- MCHostOf
 NoHost = NoHost
 Installed = {ag1, ag2}
 InstalledOn <- OnFirst
 Leases = {5, 6}
 Bases = {5, 15}
 QuietAfter = 1
 LastHour = 2
 MaxLeaseChanges = 2
 Parts = {"deploy", "session", "scan", "cloud", "network"}
SYMMETRY Symmetry
INVARIANTS
 FieldTypesOK
 PasswordLeavesOnce
 SucceededIsReal
 RegistersForCause
 SecretsHold
 DiffIsTrue
 ListingIsTrue
 CoverageIsTrue
CHECK_DEADLOCK FALSE
