---------------------------- MODULE Classification ----------------------------
(***************************************************************************)
(* The classification worker: a queue of jobs, each the text of one file,  *)
(* claimed in batches by timer ticks that may overlap, in one process or   *)
(* in several.  A job's text is searched, the settings decide which finds  *)
(* are kept and whether they alert; what is kept is recorded.  A file that *)
(* changed raises an alert of its own.  A file that was there all along,   *)
(* found by content discovery, counts in one open alert of its source.     *)
(*                                                                         *)
(* A changed file's job is created here (CreateJob); one of content        *)
(* discovery is created and removed with its result (ContentDiscovery).    *)
(***************************************************************************)
EXTENDS Naturals, Sequences, FiniteSets

CONSTANTS
    MaxJobs,    \* jobs are numbered by createdAt
    Ticks,      \* ticks that may be under way together
    BatchSize,  \* BATCH_SIZE
    Sensitive,  \* kinds of sensitive data
    Texts,      \* what may be in a file: its finds, in order
    Policies,   \* what Settings -> Classification may be set to
    MaxPolicyChanges, MaxWorkerCrashes, MaxJobErrors \* bounds of a behaviour

ASSUME ClassificationAssumption ==
    /\ MaxJobs \in Nat /\ BatchSize \in Nat \ {0}
    /\ Texts \subseteq Seq(Sensitive)

VARIABLES
    job,        \* ClassificationJob, by number
    matches,    \* ClassificationMatch: <<job, kind>>
    raised,     \* alerts of changed files: [job, severity, suggested]
    noted,      \* discovery alerts of the source, in order: [open, files]
    policy,     \* the settings in the database
    cached,     \* the worker's copy, if it has one, dropped after ten seconds
    tick,       \* each tick: the jobs it has claimed and what it does
    inserts,    \* history: how often a job's matches were recorded
    crossed,    \* history: two ticks were noting discovery findings together
    clsFaults

dbJobVars == <<job, matches, raised, noted>>
clsVars == <<job, matches, raised, noted, policy, cached, tick, inserts, crossed, clsFaults>>

JobIds == 1..MaxJobs
Severities == <<"LOW", "MEDIUM", "HIGH", "CRITICAL">>
Rank(severity) == CHOOSE i \in DOMAIN Severities : Severities[i] = severity
AbsentJob == [status |-> "ABSENT", discovery |-> FALSE, text |-> <<>>]
IdleTick == [pc |-> "idle", todo |-> {}, kept |-> {}, severity |-> "none", files |-> 0]

ClsInit ==
    /\ job = [j \in JobIds |-> AbsentJob]
    /\ matches = {} /\ raised = {} /\ noted = <<>>
    /\ policy \in Policies /\ cached = {}
    /\ tick = [t \in Ticks |-> IdleTick]
    /\ inserts = [j \in JobIds |-> 0]
    /\ crossed = FALSE
    /\ clsFaults = [crashes |-> 0, changes |-> 0, errors |-> 0]

----------------------------------------------------------------------------
(* The policy, pure. *)

\* The kinds of the finds that are of enabled kinds; fewer than the minimum are none.
Kept(text, p) ==
    LET finds == {i \in DOMAIN text : p.enabled[text[i]]}
    IN  IF Cardinality(finds) < p.min THEN {} ELSE {text[i] : i \in finds}

\* The highest severity of the kept finds that alert.
AlertSeverity(kept, p) ==
    LET alerting == {k \in kept : p.alert[k]}
        highest == {k \in alerting : \A l \in alerting : Rank(p.severity[l]) <= Rank(p.severity[k])}
    IN  IF alerting = {} THEN "none" ELSE p.severity[CHOOSE k \in highest : TRUE]

----------------------------------------------------------------------------
(* The queue from outside. *)

Unused == {j \in JobIds : job[j].status = "ABSENT"}

\* Jobs are numbered in the order they are created.
NextJob == CHOOSE j \in Unused : \A k \in Unused : j <= k

WithJob(discovery, text) ==
    [job EXCEPT ![NextJob] = [status |-> "PENDING", discovery |-> discovery, text |-> text]]

\* The text of a changed file arrives with its event.
CreateJob(text) ==
    /\ Unused # {}
    /\ job' = WithJob(FALSE, text)
    /\ UNCHANGED <<matches, raised, noted, policy, cached, tick, inserts, crossed, clsFaults>>

Exists(j) == job[j].status \notin {"ABSENT", "REMOVED"}

SaveClassification(p) ==
    /\ p # policy /\ clsFaults.changes < MaxPolicyChanges
    /\ policy' = p
    /\ clsFaults' = [clsFaults EXCEPT !.changes = @ + 1]
    /\ UNCHANGED <<job, matches, raised, noted, cached, tick, inserts, crossed>>

----------------------------------------------------------------------------
(* One tick. *)

Pending == {j \in JobIds : job[j].status = "PENDING"}

\* Mutant of Claim's set: jobs under way are claimed again.
ClaimableUnderWay == {j \in JobIds : job[j].status \in {"PENDING", "PROCESSING"}}

ClaimableJobs == Pending

\* The oldest pending jobs; a transaction with SKIP LOCKED gives each to one tick.
Claim(t) ==
    /\ tick[t].pc = "idle" /\ ClaimableJobs # {}
    /\ LET oldest == {j \in ClaimableJobs : Cardinality({k \in ClaimableJobs : k < j}) < BatchSize}
       IN  /\ job' = [j \in JobIds |-> IF j \in oldest THEN [job[j] EXCEPT !.status = "PROCESSING"]
                                       ELSE job[j]]
           /\ tick' = [tick EXCEPT ![t] = [IdleTick EXCEPT !.pc = "begin", !.todo = oldest]]
    /\ UNCHANGED <<matches, raised, noted, policy, cached, inserts, crossed, clsFaults>>

\* A batch is worked on in the order of the queue.
Current(t) == CHOOSE j \in tick[t].todo : \A k \in tick[t].todo : j <= k

NextInBatch(t) ==
    LET rest == tick[t].todo \ {Current(t)}
    IN  tick' = [tick EXCEPT ![t] = IF rest = {} THEN IdleTick
                                    ELSE [IdleTick EXCEPT !.pc = "begin", !.todo = rest]]

SetStatus(j, status) == IF Exists(j) THEN [job EXCEPT ![j].status = status] ELSE job

PolicyUsed == IF cached = {} THEN policy ELSE CHOOSE p \in cached : TRUE

\* The row is read and its text judged by the settings, at most ten seconds old.
Begin(t) ==
    /\ tick[t].pc = "begin"
    /\ IF Exists(Current(t))
       THEN /\ cached' = {PolicyUsed}
            /\ LET kept == Kept(job[Current(t)].text, PolicyUsed)
               IN  tick' = [tick EXCEPT ![t] = [@ EXCEPT !.pc = "record", !.kept = kept,
                                                !.severity = AlertSeverity(kept, PolicyUsed)]]
       ELSE NextInBatch(t) /\ UNCHANGED cached
    /\ UNCHANGED <<dbJobVars, policy, inserts, crossed, clsFaults>>

\* A match refers to its job: where that is gone the insert fails, and so does the job.
RecordMatches(t) ==
    LET j == Current(t)  me == tick[t]
    IN  /\ me.pc = "record"
        /\ IF Exists(j) \/ me.kept = {}
           THEN /\ matches' = matches \cup ({j} \X me.kept)
                /\ inserts' = [inserts EXCEPT ![j] = @ + 1]
                /\ tick' = [tick EXCEPT ![t].pc = CASE me.kept # {} /\ job[j].discovery -> "count"
                                                   [] me.severity # "none" -> "alert"
                                                   [] OTHER -> "finish"]
           ELSE NextInBatch(t) /\ UNCHANGED <<matches, inserts>>
        /\ UNCHANGED <<job, raised, noted, policy, cached, crossed, clsFaults>>

SensitiveFiles == {j \in JobIds : Exists(j) /\ job[j].discovery /\ \E m \in matches : m[1] = j}

Noting(t) == tick[t].pc \in {"update", "insert"}

\* noteDiscoveryFinding: count, then update the open alert, or insert one.
CountFiles(t) ==
    /\ tick[t].pc = "count"
    /\ tick' = [tick EXCEPT ![t].pc = "update", ![t].files = Cardinality(SensitiveFiles)]
    /\ crossed' = (crossed \/ \E u \in Ticks \ {t} : Noting(u))
    /\ UNCHANGED <<dbJobVars, policy, cached, inserts, clsFaults>>

OpenNotes == {i \in DOMAIN noted : noted[i].open}

AfterUpdate == IF OpenNotes = {} THEN "insert" ELSE "finish"

UpdateNote(t) ==
    /\ tick[t].pc = "update"
    /\ noted' = [i \in DOMAIN noted |-> IF noted[i].open THEN [noted[i] EXCEPT !.files = tick[t].files]
                                        ELSE noted[i]]
    /\ tick' = [tick EXCEPT ![t].pc = AfterUpdate]
    /\ UNCHANGED <<job, matches, raised, policy, cached, inserts, crossed, clsFaults>>

InsertNote(t) ==
    /\ tick[t].pc = "insert"
    /\ noted' = Append(noted, [open |-> TRUE, files |-> tick[t].files])
    /\ tick' = [tick EXCEPT ![t].pc = "finish"]
    /\ UNCHANGED <<job, matches, raised, policy, cached, inserts, crossed, clsFaults>>

RaiseFileAlert(t) ==
    /\ tick[t].pc = "alert"
    /\ raised' = raised \cup {[job |-> Current(t), severity |-> tick[t].severity, suggested |-> FALSE]}
    /\ tick' = [tick EXCEPT ![t].pc = IF tick[t].severity \in {"HIGH", "CRITICAL"} THEN "suggest"
                                      ELSE "finish"]
    /\ UNCHANGED <<job, matches, noted, policy, cached, inserts, crossed, clsFaults>>

SuggestResponses(t) ==
    /\ tick[t].pc = "suggest"
    /\ raised' = {IF a.job = Current(t) THEN [a EXCEPT !.suggested = TRUE] ELSE a : a \in raised}
    /\ tick' = [tick EXCEPT ![t].pc = "finish"]
    /\ UNCHANGED <<job, matches, noted, policy, cached, inserts, crossed, clsFaults>>

CaughtStatus == "FAILED"

\* Anything thrown on the way is caught; what was written before it stays.
FailJob(t) ==
    /\ tick[t].pc \in {"record", "count", "update", "insert", "alert", "suggest"}
    /\ clsFaults.errors < MaxJobErrors
    /\ clsFaults' = [clsFaults EXCEPT !.errors = @ + 1]
    /\ job' = SetStatus(Current(t), CaughtStatus)
    /\ NextInBatch(t)
    /\ UNCHANGED <<matches, raised, noted, policy, cached, inserts, crossed>>

FinishJob(t) ==
    /\ tick[t].pc = "finish"
    /\ job' = SetStatus(Current(t), "DONE")
    /\ NextInBatch(t)
    /\ UNCHANGED <<matches, raised, noted, policy, cached, inserts, crossed, clsFaults>>

ContinueTick(t) == \/ Begin(t) \/ RecordMatches(t) \/ CountFiles(t) \/ UpdateNote(t) \/ InsertNote(t)
                   \/ RaiseFileAlert(t) \/ SuggestResponses(t) \/ FinishJob(t)

TickStep(t) == Claim(t) \/ ContinueTick(t)

CopyExpires ==
    /\ cached # {}
    /\ cached' = {}
    /\ UNCHANGED <<dbJobVars, policy, tick, inserts, crossed, clsFaults>>

\* An administrator resolves the discovery alert.
ResolveNote(i) ==
    /\ noted[i].open
    /\ noted' = [noted EXCEPT ![i].open = FALSE]
    /\ UNCHANGED <<job, matches, raised, policy, cached, tick, inserts, crossed, clsFaults>>

\* The worker stops and starts again: its ticks and its copy are gone.
WorkerStops ==
    /\ clsFaults.crashes < MaxWorkerCrashes
    /\ clsFaults' = [clsFaults EXCEPT !.crashes = @ + 1]
    /\ tick' = [t \in Ticks |-> IdleTick]
    /\ cached' = {}
    /\ UNCHANGED <<dbJobVars, policy, inserts, crossed>>

ClsNext ==
    \/ \E t \in Ticks : TickStep(t) \/ FailJob(t)
    \/ \E x \in Texts : CreateJob(x)
    \/ \E p \in Policies : SaveClassification(p)
    \/ \E i \in DOMAIN noted : ResolveNote(i)
    \/ CopyExpires \/ WorkerStops

\* The timer claims what is pending, and code past an await runs on.
ClsFairness == \A t \in Ticks : WF_clsVars(TickStep(t))

----------------------------------------------------------------------------
(* Properties. *)

ClsTypeOK ==
    /\ \A j \in JobIds : /\ job[j].status \in {"ABSENT", "PENDING", "PROCESSING", "DONE", "FAILED", "REMOVED"}
                         /\ job[j].text \in Seq(Sensitive)
    /\ matches \subseteq JobIds \X Sensitive
    /\ policy \in Policies /\ cached \subseteq Policies /\ Cardinality(cached) <= 1
    /\ \A t \in Ticks : tick[t].todo \subseteq JobIds /\ (tick[t].pc = "idle" <=> tick[t].todo = {})

\* Overlapping ticks and workers record what a job found once, and never for
\* two jobs' worth of kinds.
RecordedOnce == \A j \in JobIds : inserts[j] <= 1

\* What some settings of the time keep of a job is recorded, and where those
\* alert, the alert with its suggested responses is there.
Complete(j) ==
    \E p \in Policies :
        LET kept == Kept(job[j].text, p)  severity == AlertSeverity(kept, p)
        IN  /\ {k \in Sensitive : <<j, k>> \in matches} = kept
            /\ ~job[j].discovery /\ severity # "none" =>
                   [job |-> j, severity |-> severity, suggested |-> severity \in {"HIGH", "CRITICAL"}]
                       \in raised

\* Unless two ticks note findings at once, a source has one open discovery
\* alert at most.
OneOpenNote == ~crossed => Cardinality(OpenNotes) <= 1

\* While no worker stops, every job comes to an outcome or is removed.
JobsSettle ==
    \A j \in JobIds :
        (job[j].status = "PENDING" /\ clsFaults.crashes = 0)
            ~> (job[j].status \in {"DONE", "FAILED", "REMOVED"} \/ clsFaults.crashes # 0)
=============================================================================
