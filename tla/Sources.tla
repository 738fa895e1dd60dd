------------------------------- MODULE Sources -------------------------------
(***************************************************************************)
(* The shares of a file server: administrators add, change and delete      *)
(* them, agents are handed those assigned to them and keep one scan loop   *)
(* for each.  An administrator's request reads, then writes.  An agent     *)
(* syncs on a timer that does not wait for the sync before, so two answers *)
(* may be under way and arrive in either order; it compares an answer with *)
(* what runs and starts, stops and re-times loops.  The loops take turns   *)
(* at walking.                                                             *)
(*                                                                         *)
(* A share is reached by its server's host and its own folder: together    *)
(* they stand for connectionKey.  What a walk reads is SnapshotScan's.     *)
(***************************************************************************)
EXTENDS Integers, Sequences, FiniteSets, SequencesExt

CONSTANTS
    Shares, Hosts, ShareFolders, Collectors, Admins,
    Intervals,
    MaxScans,     \* maxConcurrentScans
    MaxEditsMade, MaxLoops, MaxLostSyncs \* bounds of a behaviour

ASSUME SourcesAssumption == MaxScans \in Nat \ {0} /\ Intervals # {} /\ IsFiniteSet(Shares)

VARIABLES
    server,    \* the FileServer row: [there, enabled, host]
    source,    \* the Source rows: [there, enabled, agent, folder, label, interval]
    edit,      \* the administrators' requests: [op, share, host, folder, agent, ...] as read
    answers,   \* answers of /agent-sync on their way to each agent
    loops,     \* every scan loop ever started
    running,   \* each agent's map of share to loop, 0 for none
    active, waiting, \* each agent's limiter
    knownFiles, \* the key of the walk each agent's listing of a share is from
    crossedEdits, \* history: two requests overlapped
    editsMade, lostSyncs

sourceVars == <<server, source, edit, answers, loops, running, active, waiting, knownFiles,
                crossedEdits, editsMade, lostSyncs>>
rowVars == <<server, source, edit, crossedEdits, editsMade>>
agentVars == <<loops, running, active, waiting, knownFiles>>

NoEdit == [op |-> "none"]
NoFiles == <<>>
Spec0 == [there |-> FALSE]

SourcesInit ==
    /\ server \in [there : {TRUE}, enabled : {TRUE}, host : Hosts]
    /\ source = [s \in Shares |-> Spec0]
    /\ edit = [x \in Admins |-> NoEdit]
    /\ answers = [a \in Collectors |-> <<>>]
    /\ loops = <<>> /\ running = [a \in Collectors |-> [s \in Shares |-> 0]]
    /\ active = [a \in Collectors |-> 0] /\ waiting = [a \in Collectors |-> <<>>]
    /\ knownFiles = [a \in Collectors |-> [s \in Shares |-> NoFiles]]
    /\ crossedEdits = FALSE /\ editsMade = 0 /\ lostSyncs = 0

----------------------------------------------------------------------------
(* Administrators. *)

SharesThere == {s \in Shares : source[s].there}

ReadsRow(x, request) ==
    /\ edit[x] = NoEdit /\ editsMade < MaxEditsMade
    /\ server.there
    /\ edit' = [edit EXCEPT ![x] = request]
    /\ editsMade' = editsMade + 1
    /\ crossedEdits' = (crossedEdits \/ \E y \in Admins : edit[y] # NoEdit)
    /\ UNCHANGED <<server, source, answers, agentVars, lostSyncs>>

ReadForCreate(x, s, f, a, i) ==
    ReadsRow(x, [op |-> "create", share |-> s, folder |-> f, agent |-> a, interval |-> i, host |-> server.host])
ReadForHost(x, h) == ReadsRow(x, [op |-> "host", to |-> h, host |-> server.host])
ReadForShare(x, s, f, a, i) ==
    /\ s \in SharesThere
    /\ ReadsRow(x, [op |-> "share", share |-> s, folder |-> f, agent |-> a, interval |-> i, host |-> server.host])
ReadForToggle(x, s, on) == s \in SharesThere /\ ReadsRow(x, [op |-> "toggle", share |-> s, on |-> on])
ReadForServer(x, on) == ReadsRow(x, [op |-> "server", on |-> on])
ReadForDelete(x, s) == s \in SharesThere /\ ReadsRow(x, [op |-> "delete", share |-> s])
ReadForDeleteAll(x) == ReadsRow(x, [op |-> "deleteAll", shares |-> SharesThere])

\* One folder of a server is monitored once.
Taken(s, f) == \E t \in SharesThere \ {s} : source[t].folder = f
Row(e, on) == [there |-> TRUE, enabled |-> on, agent |-> e.agent, folder |-> e.folder,
               label |-> e.host, interval |-> e.interval]

WritesCreate(e) ==
    /\ source' = IF server.there /\ ~source[e.share].there /\ ~Taken(e.share, e.folder)
                 THEN [source EXCEPT ![e.share] = Row(e, TRUE)] ELSE source
    /\ UNCHANGED server

\* The labels show the host; a host that changes is written to all of them.
Relabels(e) == e.to # e.host
Relabelled(h) == [s \in Shares |-> IF source[s].there THEN [source[s] EXCEPT !.label = h] ELSE source[s]]
WritesHost(e) ==
    IF server.there
    THEN /\ server' = [server EXCEPT !.host = e.to]
         /\ source' = IF Relabels(e) THEN Relabelled(e.to) ELSE source
    ELSE UNCHANGED <<server, source>>

WritesShare(e) ==
    /\ source' = IF source[e.share].there /\ ~Taken(e.share, e.folder)
                 THEN [source EXCEPT ![e.share] = Row(e, @.enabled)] ELSE source
    /\ UNCHANGED server
WritesToggle(e) ==
    /\ source' = IF source[e.share].there THEN [source EXCEPT ![e.share].enabled = e.on] ELSE source
    /\ UNCHANGED server
WritesServer(e) ==
    /\ server' = IF server.there THEN [server EXCEPT !.enabled = e.on] ELSE server
    /\ UNCHANGED source
WritesDelete(e) == source' = [source EXCEPT ![e.share] = Spec0] /\ UNCHANGED server
\* A share added since then keeps its server: the whole transaction fails.
WritesDeleteAll(e) ==
    IF SharesThere \subseteq e.shares
    THEN /\ source' = [s \in Shares |-> Spec0]
         /\ server' = [server EXCEPT !.there = FALSE]
    ELSE UNCHANGED <<server, source>>

AdminWrites(x) ==
    LET e == edit[x] IN
    /\ \/ e.op = "create" /\ WritesCreate(e)
       \/ e.op = "host" /\ WritesHost(e)
       \/ e.op = "share" /\ WritesShare(e)
       \/ e.op = "toggle" /\ WritesToggle(e)
       \/ e.op = "server" /\ WritesServer(e)
       \/ e.op = "delete" /\ WritesDelete(e)
       \/ e.op = "deleteAll" /\ WritesDeleteAll(e)
    /\ edit' = [edit EXCEPT ![x] = NoEdit]
    /\ UNCHANGED <<answers, agentVars, crossedEdits, editsMade, lostSyncs>>

AdminReads(x) ==
    \/ \E h \in Hosts : ReadForHost(x, h)
    \/ \E on \in BOOLEAN : ReadForServer(x, on)
    \/ ReadForDeleteAll(x)
    \/ \E s \in Shares : ReadForDelete(x, s) \/ \E on \in BOOLEAN : ReadForToggle(x, s, on)
    \/ \E s \in Shares, f \in ShareFolders, a \in Collectors, i \in Intervals :
         ReadForCreate(x, s, f, a, i) \/ ReadForShare(x, s, f, a, i)

----------------------------------------------------------------------------
(* /agent-sync, and what an agent makes of it. *)

Assigned(a, s) == source[s].there /\ source[s].agent = a /\ source[s].enabled /\ server.enabled
AssignedTo(a) == {s \in Shares : Assigned(a, s)}
KeyOf(s) == <<server.host, source[s].folder>>
AnswerFor(a) == [s \in AssignedTo(a) |-> [key |-> KeyOf(s), interval |-> source[s].interval]]

AsksSync(a) ==
    /\ Len(answers[a]) < 2
    /\ answers' = [answers EXCEPT ![a] = Append(@, AnswerFor(a))]
    /\ UNCHANGED <<rowVars, agentVars, lostSyncs>>

SyncLost(a, i) ==
    /\ lostSyncs < MaxLostSyncs /\ lostSyncs' = lostSyncs + 1
    /\ answers' = [answers EXCEPT ![a] = RemoveAt(@, i)]
    /\ UNCHANGED <<rowVars, agentVars>>

Runs(a) == {s \in Shares : running[a][s] # 0}
Reconnects(a, ans, s) == loops[running[a][s]].key # ans[s].key
\* planReconcile
ToStop(a, ans) == {s \in Runs(a) : s \notin DOMAIN ans \/ Reconnects(a, ans, s)}
ToStart(a, ans) == {s \in DOMAIN ans : s \notin Runs(a) \/ Reconnects(a, ans, s)}
ToRetime(a, ans) == (DOMAIN ans \cap Runs(a)) \ ToStart(a, ans)

NewLoop(a, s, spec) ==
    [agent |-> a, share |-> s, key |-> spec.key, interval |-> spec.interval, stopped |-> FALSE, at |-> "asks"]
Reconciled(a, ans) ==
    [l \in DOMAIN loops |->
        LET s == loops[l].share IN
        IF loops[l].agent # a \/ running[a][s] # l THEN loops[l]
        ELSE IF s \in ToStop(a, ans) THEN [loops[l] EXCEPT !.stopped = TRUE,
                                            !.at = IF @ = "sleeps" THEN "ended" ELSE @]
        ELSE IF s \in ToRetime(a, ans) THEN [loops[l] EXCEPT !.interval = ans[s].interval]
        ELSE loops[l]]
Place(order, s) == CHOOSE i \in DOMAIN order : order[i] = s
Apply(a, i) ==
    LET ans == answers[a][i]
        order == SetToSeq(ToStart(a, ans))
    IN /\ Len(loops) + Len(order) <= MaxLoops
       /\ loops' = Reconciled(a, ans) \o [j \in DOMAIN order |-> NewLoop(a, order[j], ans[order[j]])]
       /\ running' = [running EXCEPT ![a] = [s \in Shares |->
              IF s \in ToStart(a, ans) THEN Len(loops) + Place(order, s)
              ELSE IF s \in ToStop(a, ans) THEN 0 ELSE @[s]]]
       /\ knownFiles' = [knownFiles EXCEPT ![a] = [s \in Shares |-> IF s \in ToStop(a, ans) THEN NoFiles ELSE @[s]]]
       /\ answers' = [answers EXCEPT ![a] = RemoveAt(@, i)]
       /\ UNCHANGED <<rowVars, active, waiting, lostSyncs>>

----------------------------------------------------------------------------
(* The scan loops and the limiter.  A slot given back goes to the first in  *)
(* line before anything else runs: the promise's continuation.             *)

LoopAt(l, where) == loops' = [loops EXCEPT ![l].at = where]
LoopOnly == UNCHANGED <<rowVars, answers, running, lostSyncs>>

HasRoomForOneMore(a) == active[a] <= MaxScans
HasRoom(a) == active[a] < MaxScans
AsksForTurn(l) ==
    /\ loops[l].at = "asks"
    /\ LET a == loops[l].agent IN
       \/ /\ HasRoom(a)
          /\ active' = [active EXCEPT ![a] = @ + 1] /\ UNCHANGED waiting
          /\ LoopAt(l, "walks")
       \/ /\ ~HasRoom(a)
          /\ waiting' = [waiting EXCEPT ![a] = Append(@, l)] /\ UNCHANGED active
          /\ LoopAt(l, "waits")
    /\ LoopOnly /\ UNCHANGED knownFiles

\* What the limiter counts after a walk: the next in line counts itself.
CountAfterUncounted(a) == active[a] - 1
CountAfter(a) == IF waiting[a] = <<>> THEN active[a] - 1 ELSE active[a]
\* A loop that was stopped ends, any other sleeps until its timer.
EndsOrSleeps(l) == IF loops[l].stopped THEN "ended" ELSE "sleeps"
GivesTurn(l) ==
    LET a == loops[l].agent IN
    /\ active' = [active EXCEPT ![a] = CountAfter(a)]
    /\ waiting' = [waiting EXCEPT ![a] = IF @ = <<>> THEN @ ELSE Tail(@)]
    /\ loops' = [k \in DOMAIN loops |->
          IF k = l THEN [loops[k] EXCEPT !.at = EndsOrSleeps(l)]
          ELSE IF waiting[a] # <<>> /\ k = Head(waiting[a]) THEN [loops[k] EXCEPT !.at = "walks"]
          ELSE loops[k]]

\* The walk or one of its posts failed, or stop() came before there was anything to report.
WalkFails(l) ==
    /\ loops[l].at \in {"walks", "posts"} /\ GivesTurn(l)
    /\ LoopOnly /\ UNCHANGED knownFiles
WalkReports(l) ==
    /\ loops[l].at = "walks" /\ ~loops[l].stopped /\ LoopAt(l, "posts")
    /\ LoopOnly /\ UNCHANGED <<active, waiting, knownFiles>>
\* A scan that is through, also one stopped meanwhile, publishes its listing.
ScanCompletes(l) ==
    /\ loops[l].at = "posts" /\ GivesTurn(l)
    /\ knownFiles' = [knownFiles EXCEPT ![loops[l].agent][loops[l].share] = loops[l].key]
    /\ LoopOnly
TimerFires(l) ==
    /\ loops[l].at = "sleeps" /\ LoopAt(l, "asks")
    /\ LoopOnly /\ UNCHANGED <<active, waiting, knownFiles>>

LoopStep(l) == AsksForTurn(l) \/ WalkFails(l) \/ WalkReports(l) \/ ScanCompletes(l) \/ TimerFires(l)

SourcesNext ==
    \/ \E x \in Admins : AdminReads(x) \/ (edit[x] # NoEdit /\ AdminWrites(x))
    \/ \E a \in Collectors :
         AsksSync(a) \/ \E i \in DOMAIN answers[a] : SyncLost(a, i) \/ Apply(a, i)
    \/ \E l \in DOMAIN loops : LoopStep(l)

\* An agent syncs on a timer; walks end; requests that have read go on to write.
SourcesFairness ==
    /\ \A x \in Admins : WF_sourceVars(edit[x] # NoEdit /\ AdminWrites(x))
    /\ \A a \in Collectors :
         WF_sourceVars(AsksSync(a)) /\ WF_sourceVars(\E i \in {1} \cap DOMAIN answers[a] : Apply(a, i))
SourcesSpec == SourcesInit /\ [][SourcesNext]_sourceVars

----------------------------------------------------------------------------
(* Properties. *)

WalksOf(a) == {l \in DOMAIN loops : loops[l].agent = a /\ loops[l].at \in {"walks", "posts"}}
\* Rows are of their kind, and each limiter counts the walks there are.
SourcesTypeOK ==
    /\ server.host \in Hosts
    /\ \A s \in SharesThere : source[s].agent \in Collectors /\ source[s].folder \in ShareFolders
    /\ \A l \in DOMAIN loops : loops[l].at \in {"asks", "waits", "walks", "posts", "sleeps", "ended"}
    /\ \A a \in Collectors :
         /\ \A s \in Shares : running[a][s] \in 0..Len(loops)
         /\ active[a] = Cardinality(WalksOf(a))
         /\ \A l \in DOMAIN loops : loops[l].agent = a => (loops[l].at = "waits" <=> l \in ToSet(waiting[a]))

\* At most maxConcurrentScans walks of one agent at a time, and none waits
\* while there is room, however loops are stopped and started again meanwhile.
WalksCapped ==
    \A a \in Collectors :
        /\ Cardinality(WalksOf(a)) <= MaxScans
        /\ waiting[a] # <<>> => Cardinality(WalksOf(a)) = MaxScans

\* A share has at most one loop of an agent that goes on scanning, the one the
\* agent can still stop: none is left behind by answers that overtake each other.
OneLiveLoop ==
    \A l \in DOMAIN loops : ~loops[l].stopped => running[loops[l].agent][loops[l].share] = l

\* A share's label shows the host of its server, as long as no two
\* administrators' requests overlapped, and no server is deleted from under a share.
LabelsInStep ==
    /\ SharesThere # {} => server.there
    /\ ~crossedEdits => \A s \in SharesThere : source[s].label = server.host

Agrees(a, s) ==
    IF Assigned(a, s)
    THEN running[a][s] # 0 /\ loops[running[a][s]].key = KeyOf(s)
         /\ loops[running[a][s]].interval = source[s].interval
    ELSE running[a][s] = 0
\* What an agent runs comes to agree with what is assigned to it and stays so.
RunsAsAssigned == <>[](\A a \in Collectors, s \in Shares : Agrees(a, s))

\* An agent works on its shares as it is told to: within its limit of walks,
\* with one loop a share, under the labels of its server.
SourcesHold == WalksCapped /\ OneLiveLoop /\ LabelsInStep
=============================================================================
