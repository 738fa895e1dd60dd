----------------------------- MODULE NativeWatch -----------------------------
(***************************************************************************)
(* The workstation agent written in Go: one watcher of a folder tree, the  *)
(* queue it fills and the loop that posts it.  Every raw notification goes *)
(* through one goroutine (Handle); what it decides to report later is a    *)
(* timer whose callback runs beside it.  A callback looks at the file,     *)
(* then asks for its owner and a sample of it, and only then queues the    *)
(* event: Fire and Tell.                                                   *)
(*                                                                         *)
(* There is the folder Home and folders directly in it.  A path is a file  *)
(* for good, a folder's name a folder.  Two callbacks under way for one    *)
(* path and with the same answer count as one.                             *)
(***************************************************************************)
EXTENDS Integers, Sequences, FiniteSets

CONSTANTS
    WPaths, WFolders, Home, InFolder, \* files, folders, the folder of each file
    Excluded,     \* the files and folders the exclusion list or the quarantine names
    EventBatch,   \* eventBatchSize
    MaxFsChanges, MaxLostBatches \* bounds of a behaviour

ASSUME NativeWatchAssumption ==
    /\ Home \in WFolders \ Excluded /\ WPaths \cap WFolders = {}
    /\ \A p \in WPaths : InFolder[p] \in WFolders
    /\ EventBatch \in Nat \ {0}

VARIABLES
    files, folders,   \* on disk
    watches,          \* folders with a watch of the operating system's
    raw,              \* notifications not yet handled: [op, name]
    known, dirs, pending, renamesPending, renamedFrom, \* the Watcher's maps
    firing,           \* callbacks that looked at the file: [path, type, from]
    queue, flights,   \* events to post; the batch each flusher has taken
    agentState,       \* "running", "stopping" or "stopped"
    owed,             \* history: files changed on disk and not yet told of as there
    lastTold,         \* history: what the last event of each path said of it
    phantom,          \* history: a deletion was told of what was never told of
    fsChanges, lostBatches

watchVars == <<files, folders, watches, raw, known, dirs, pending, renamesPending, renamedFrom,
               firing, queue, flights, agentState, owed, lastTold, phantom, fsChanges, lostBatches>>
diskVars == <<files, folders, fsChanges>>
mapVars == <<known, dirs, pending, renamesPending, renamedFrom>>
postVars == <<flights, agentState, lostBatches>>

NoName == "none"
Names == WPaths \cup WFolders
Flushers == {"ticker", "last"}
DirOf(name) == IF name \in WPaths THEN InFolder[name] ELSE Home
Excludes(name) == name \in Excluded \/ DirOf(name) \in Excluded

\* The walk at the start: what is there already is known and not reported.
WatchInit ==
    /\ files \in {{p \in WPaths : InFolder[p] = Home}, {}}
    /\ folders = {Home} /\ watches = {Home} /\ dirs = {Home}
    /\ known = {p \in files : ~Excludes(p)}
    /\ raw = <<>> /\ pending = {} /\ renamesPending = {}
    /\ renamedFrom = [n \in Names |-> NoName]
    /\ firing = {} /\ queue = <<>> /\ flights = [f \in Flushers |-> <<>>]
    /\ agentState = "running" /\ owed = {}
    /\ lastTold = [n \in Names |-> IF n \in known THEN "there" ELSE "nothing"]
    /\ phantom = FALSE /\ fsChanges = 0 /\ lostBatches = 0

----------------------------------------------------------------------------
(* The file system.  A change is notified when its folder is watched.      *)

Notice(op, name) == IF DirOf(name) \in watches THEN <<[op |-> op, name |-> name]>> ELSE <<>>
Disk(newFiles, newFolders, written, notices) ==
    /\ agentState = "running" /\ fsChanges < MaxFsChanges
    /\ fsChanges' = fsChanges + 1
    /\ files' = newFiles /\ folders' = newFolders
    /\ raw' = raw \o notices
    /\ watches' = watches \cap newFolders
    /\ owed' = {p \in owed \cup written : p \in newFiles /\ ~Excludes(p)}
    /\ UNCHANGED <<mapVars, firing, queue, postVars, lastTold, phantom>>

CreateFile(p) ==
    /\ p \notin files /\ InFolder[p] \in folders
    /\ Disk(files \cup {p}, folders, {p}, Notice("create", p))
WriteFile(p) == p \in files /\ Disk(files, folders, {p}, Notice("write", p))
RemoveFile(p) == p \in files /\ Disk(files \ {p}, folders, {}, Notice("remove", p))
RenameFile(p, q) ==
    /\ p \in files /\ q \notin files /\ InFolder[q] \in folders
    /\ Disk((files \ {p}) \cup {q}, folders, {q}, Notice("rename", p) \o Notice("create", q))
MoveAway(p) == p \in files /\ Disk(files \ {p}, folders, {}, Notice("rename", p))
MakeFolder(d) ==
    /\ d \notin folders
    /\ Disk(files, folders \cup {d}, {}, Notice("create", d))
RemoveFolder(d) ==
    /\ d \in folders \ {Home} /\ \A p \in files : InFolder[p] # d
    /\ Disk(files, folders \ {d}, {}, Notice("remove", d))
TouchFolder(d) == d \in folders \ {Home} /\ Disk(files, folders, {}, Notice("write", d))

DiskChanges ==
    \/ \E p \in WPaths : CreateFile(p) \/ WriteFile(p) \/ RemoveFile(p) \/ MoveAway(p)
    \/ \E p, q \in WPaths : RenameFile(p, q)
    \/ \E d \in WFolders : MakeFolder(d) \/ RemoveFolder(d) \/ TouchFolder(d)

----------------------------------------------------------------------------
(* What the watcher reports goes to the queue. *)

EventOf(type, name, from) == [type |-> type, path |-> name, from |-> from]
Says(type) == IF type = "DELETED" THEN "gone" ELSE "there"
Queued(event) ==
    /\ queue' = Append(queue, event)
    /\ owed' = IF event.type = "DELETED" THEN owed ELSE owed \ {event.path}
    /\ lastTold' = [lastTold EXCEPT ![event.path] = Says(event.type)]
    /\ phantom' = (phantom \/ (event.type = "DELETED" /\ lastTold[event.path] # "there"))
NothingQueued == UNCHANGED <<queue, owed, lastTold, phantom>>
Emits(name) == Queued(EventOf("DELETED", name, NoName))

----------------------------------------------------------------------------
(* One notification, as handleRaw takes it. *)

WalkedNothing(d) == {}
\* The files found in a new folder, in it before its watch was.
Walked(d) == {p \in files : InFolder[p] = d /\ ~Excludes(p)}
HandleFolder(d) ==
    /\ watches' = watches \cup {d} /\ dirs' = dirs \cup {d}
    /\ pending' = pending \cup Walked(d)
    /\ UNCHANGED <<known, renamesPending, renamedFrom>> /\ NothingQueued

\* A name that appears takes a waiting rename of its folder, any of them.
Claims(name) == {old \in renamesPending : DirOf(old) = DirOf(name)}
HandleCreate(name) ==
    /\ pending' = pending \cup {name}
    /\ \/ Claims(name) = {} /\ UNCHANGED <<renamesPending, renamedFrom>>
       \/ \E old \in Claims(name) :
            /\ renamesPending' = renamesPending \ {old}
            /\ renamedFrom' = [renamedFrom EXCEPT ![name] = old]
    /\ UNCHANGED <<known, dirs, watches>> /\ NothingQueued

HandleWrite(name) ==
    /\ pending' = pending \cup {name}
    /\ UNCHANGED <<known, dirs, renamesPending, renamedFrom, watches>> /\ NothingQueued

KnownFile(name) == name \in known /\ name \notin dirs
Forgets(name) == known' = known \ {name} /\ dirs' = dirs \ {name}
HandleRename(name) ==
    /\ Forgets(name)
    /\ renamesPending' = IF KnownFile(name) THEN renamesPending \cup {name} ELSE renamesPending
    /\ UNCHANGED <<pending, renamedFrom, watches>> /\ NothingQueued

HandleRemove(name) ==
    /\ Forgets(name)
    /\ IF KnownFile(name) THEN Emits(name) ELSE NothingQueued
    /\ UNCHANGED <<pending, renamesPending, renamedFrom, watches>>

Handle ==
    /\ raw # <<>> /\ agentState = "running"
    /\ raw' = Tail(raw)
    /\ LET name == Head(raw).name
           op == Head(raw).op
       IN \/ Excludes(name) /\ NothingQueued /\ UNCHANGED <<mapVars, watches>>
          \/ /\ ~Excludes(name)
             /\ \/ op = "create" /\ name \in folders /\ HandleFolder(name)
                \/ op = "create" /\ name \notin folders /\ HandleCreate(name)
                \/ op = "write" /\ HandleWrite(name)
                \/ op = "rename" /\ HandleRename(name)
                \/ op = "remove" /\ HandleRemove(name)
    /\ UNCHANGED <<diskVars, firing, postVars>>

----------------------------------------------------------------------------
(* Timers. *)

TypeAtFire(name) == IF renamedFrom[name] # NoName THEN "RENAMED"
                    ELSE IF name \in known THEN "MODIFIED" ELSE "CREATED"
StillThere(name) == name \in files
\* The debounce of a path: whatever is found, the path is known from here on.
Fire(name) ==
    /\ name \in pending /\ agentState = "running"
    /\ pending' = pending \ {name} /\ known' = known \cup {name}
    /\ \/ ~StillThere(name) /\ UNCHANGED <<firing, renamedFrom>>
       \/ /\ StillThere(name)
          /\ firing' = firing \cup {EventOf(TypeAtFire(name), name, renamedFrom[name])}
          /\ renamedFrom' = [renamedFrom EXCEPT ![name] = NoName]
    /\ UNCHANGED <<diskVars, watches, raw, dirs, renamesPending, postVars>> /\ NothingQueued

Tell(event) ==
    /\ event \in firing /\ agentState = "running"
    /\ firing' = firing \ {event}
    /\ Queued(event)
    /\ UNCHANGED <<diskVars, watches, raw, mapVars, postVars>>

\* Nothing claimed the old name: it left the tree.
RenameLapses(name) ==
    /\ name \in renamesPending /\ agentState = "running"
    /\ renamesPending' = renamesPending \ {name}
    /\ Emits(name)
    /\ UNCHANGED <<diskVars, watches, raw, known, dirs, pending, renamedFrom, firing, postVars>>

----------------------------------------------------------------------------
(* The flush loop, and the last flush of a stopping agent beside it. *)

Least(i, j) == IF i < j THEN i ELSE j
DueWhenFull == Len(queue) >= EventBatch
Due == queue # <<>>
Flush(f) ==
    /\ flights[f] = <<>>
    /\ LET n == Least(EventBatch, Len(queue))
       IN /\ flights' = [flights EXCEPT ![f] = SubSeq(queue, 1, n)]
          /\ queue' = SubSeq(queue, n + 1, Len(queue))
TickerFlushes ==
    /\ agentState = "running" /\ Due /\ Flush("ticker")
    /\ UNCHANGED <<agentState, lostBatches>>

WatchRests == UNCHANGED <<diskVars, watches, raw, mapVars, firing, owed, lastTold, phantom>>
Landed(f) == flights' = [flights EXCEPT ![f] = <<>>] /\ UNCHANGED <<queue, agentState>>
Posted(f) ==
    /\ flights[f] # <<>> /\ agentState # "stopped"
    /\ Landed(f) /\ UNCHANGED lostBatches
\* A failed post is only logged.
NotPosted(f) ==
    /\ flights[f] # <<>> /\ agentState # "stopped" /\ lostBatches < MaxLostBatches
    /\ lostBatches' = lostBatches + 1
    /\ Landed(f)

AskedToStop ==
    /\ agentState = "running" /\ agentState' = "stopping"
    /\ IF queue = <<>> THEN UNCHANGED <<queue, flights>> ELSE Flush("last")
    /\ UNCHANGED lostBatches
\* runAgent returns after its own flush, whatever the ticker is doing.
Stops ==
    /\ agentState = "stopping" /\ flights["last"] = <<>>
    /\ agentState' = "stopped"
    /\ UNCHANGED <<queue, flights, lostBatches>>

PostSteps ==
    /\ \/ TickerFlushes \/ AskedToStop \/ Stops
       \/ \E f \in Flushers : Posted(f) \/ NotPosted(f)
    /\ WatchRests

WatchSteps ==
    \/ Handle
    \/ \E n \in Names : Fire(n) \/ RenameLapses(n)
    \/ \E e \in firing : Tell(e)

WatchNext == DiskChanges \/ WatchSteps \/ PostSteps
WatchSpec == WatchInit /\ [][WatchNext]_watchVars

\* The loop's goroutine, the timers and the ticker run on their own; people and
\* the backend do what they like.
WatchFairness ==
    /\ WF_watchVars(Handle)
    /\ \A n \in Names : WF_watchVars(Fire(n)) /\ WF_watchVars(RenameLapses(n))
    /\ WF_watchVars(\E e \in firing : Tell(e))
    /\ WF_watchVars(TickerFlushes /\ WatchRests)
    /\ WF_watchVars((\E f \in Flushers : Posted(f) \/ NotPosted(f)) /\ WatchRests)

----------------------------------------------------------------------------
(* Properties. *)

\* The sets hold what they are for, and a batch is never larger than eventBatchSize.
WatchTypeOK ==
    /\ files \subseteq WPaths /\ folders \subseteq WFolders /\ watches \subseteq folders
    /\ known \subseteq Names /\ dirs \subseteq WFolders /\ pending \subseteq Names
    /\ renamesPending \subseteq WPaths /\ renamedFrom \in [Names -> WPaths \cup {NoName}]
    /\ agentState \in {"running", "stopping", "stopped"}
    /\ \A f \in Flushers : Len(flights[f]) <= EventBatch
    /\ \A e \in firing : e.path \in WPaths /\ e.type \in {"CREATED", "MODIFIED", "RENAMED"}
    /\ lastTold \in [Names -> {"there", "gone", "nothing"}]

Settled == raw = <<>> /\ pending = {} /\ firing = {} /\ renamesPending = {}

\* Once the watcher has nothing left to do, every file on disk that is not
\* excluded is known to it and its last change has been told of -- whatever was
\* renamed, removed and made again meanwhile, and in a folder that appeared with
\* the file already in it.
FilesAreTold == Settled => owed = {} /\ \A p \in files : Excludes(p) \/ p \in known

\* No event names a folder's content that is excluded, the quarantine's above all.
ExclusionHolds ==
    \A n \in Names : lastTold[n] # "nothing" => ~Excludes(n)

\* A file on disk is told of eventually, and what is queued is posted or its
\* batch lost: the callbacks and the ticker need no further change to get on.
FilesGetTold ==
    \A p \in WPaths : p \in owed ~> (p \notin owed \/ agentState # "running")
QueueDrains == (queue # <<>>) ~> (queue = <<>> \/ agentState # "running")

\* watch.go says of a path created and removed inside the debounce window that
\* it "was never announced as existing, so announcing its deletion invents half
\* an event".
DeletesWereAnnounced == ~phantom

\* run.go makes "one last flush, so events detected in the seconds before a
\* shutdown aren't lost".
LastFlushEmpties ==
    agentState = "stopped" /\ lostBatches = 0 => queue = <<>> /\ \A f \in Flushers : flights[f] = <<>>

\* Every file that is to be told of is told of, and no other.
FilesTold == FilesAreTold /\ ExclusionHolds

\* The watcher gets on without further changes.
WatchDrains == FilesGetTold /\ QueueDrains
=============================================================================
