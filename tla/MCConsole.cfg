SPECIFICATION Spec
SYMMETRY Symmetry
CONSTANTS
 p1 = p1
 p2 = p2
 i1 = i1
 i2 = i2
 r1 = r1
 kw = kw
 kn = kn
 ann = ann
 bob = bob
 q1 = q1
 q2 = q2
 Keys = {kw, kn}
 Values = {0, 1}
 Weak <- MCWeak
 Pages = {p1, p2}
 Uploads = {i1, i2}
 PageOf <- MCPageOf
 Imports <- MCImports
 Readers = {r1}
 MaxEdits = 2
 MaxRequests = 3
 MaxLost = 1
 People = {ann, bob}
 LocalAdmins = {ann, bob}
 LocalViewers = {}
 Requests = {q1, q2}
 LockLimits = {1, 2}
 MaxWrites = 2
 MaxFailures = 3
 MaxDirectoryChanges = 1
 ev = ev
 rd = rd
 al = al
 NoKey = NoKey
 Feeds = {ev, rd, al}
 FeedKeys = {"changes", "some", "reads", "open", "all"}
 FilterSets = {"both", "changes", "some", "open", "all"}
 KeyOf <- MCKeyOf
 OpenOnly = {"open"}
 RowIds = {1, 2, 3, 4, 5, 6, 7, 8, 9, 10}
 RowOf <- MCRowOf
 ReadsFeed = rd
 AlertsFeed = al
 Burst = 3
 FeedPage = 2
 MaxPolls = 1
 MaxArrivals = 2
 MaxFilterChanges = 2
 g1 = g1
 g2 = g2
 lk = lk
 cd1 = cd1
 Controllers <- MCControllers
 Standings <- MCStandings
 Passwords = {0, 1}
 Blank = 0
 Groups = {g1, g2}
 NoGroup = NoGroup
 Lookups = {1}
 Attempts = {lk}
 Cards = {cd1}
 MaxAdChanges = 1
 MaxOutages = 2
 MaxSaves = 1
 Parts = {"settings", "guess", "users", "directory", "list", "select", "merge", "lookup"}
INVARIANTS
 ConsoleTypesOK
 SettingsHold
 AccountsHold
 PageIsTrue
 SignInHolds
PROPERTIES
 EditsHold
CHECK_DEADLOCK FALSE
