------------------------------ MODULE Retention ------------------------------
(***************************************************************************)
(* What is collected and how it goes again: file events with their         *)
(* classification, storage snapshots, and alerts with the actions they     *)
(* suggest.  A sweep is a series of statements, not a transaction; it runs *)
(* hourly and when an administrator asks, beside everything that adds      *)
(* rows and beside the people who work on the alerts.                      *)
(*                                                                         *)
(* Ages are days.  The other tables go by age in one statement each, like  *)
(* the events here without their classification.                           *)
(***************************************************************************)
EXTENDS Integers, FiniteSets, FiniteSetsExt

CONSTANTS
    Events, RetAlerts, Sources,
    Sweepers,    \* the hourly sweep and the requests that run one
    Hourly,      \* the first of them
    RetBatch, MaxBatches,
    Limits,      \* what may be set: [enabled, days]
    RetPages, Handlers, \* pages of the settings, requests about alerts
    LastDay, MaxSaved, MaxChanged \* bounds of a behaviour

ASSUME RetentionAssumption ==
    /\ Hourly \in Sweepers /\ RetBatch \in Nat \ {0} /\ MaxBatches \in Nat \ {0}
    /\ IsFiniteSet(Events) /\ IsFiniteSet(RetAlerts) /\ Events \cap RetAlerts = {}
    /\ \A l \in Limits : l.days \in Nat

VARIABLES
    today,
    event,       \* [at, job, matches] of the events there are
    snaps,       \* snapshots: [source, at]
    alertRow,       \* [at, status, actions] of the alerts there are
    limit,       \* the settings row
    form,        \* what a page's form holds
    sweep,       \* how far each sweep is
    handler,     \* requests that change the status of alerts
    lastRun,     \* events the sweeps have recorded as deleted
    gone,        \* history: events and alerts that were deleted
    newest,      \* history: the newest snapshot a source ever had
    reopened,    \* history: alerts that left RESOLVED while a sweep held their ids
    saved, changed

retVars == <<today, event, snaps, alertRow, limit, form, sweep, handler, lastRun, gone, newest, reopened,
             saved, changed>>

Statuses == {"OPEN", "ACKNOWLEDGED", "RESOLVED"}
Asleep == [pc |-> "asleep"]
Free == [pc |-> "free"]

RetentionInit ==
    /\ today = 0 /\ event = <<>> /\ snaps = {} /\ alertRow = <<>>
    /\ limit \in Limits /\ ~limit.enabled
    /\ form = [p \in RetPages |-> limit]
    /\ sweep = [s \in Sweepers |-> Asleep] /\ handler = [h \in Handlers |-> Free]
    /\ lastRun = 0 /\ gone = {} /\ newest = [s \in Sources |-> -1] /\ reopened = {}
    /\ saved = 0 /\ changed = 0

Present(f) == DOMAIN f
With(f, k, v) == [x \in DOMAIN f \cup {k} |-> IF x = k THEN v ELSE f[x]]
Dropping(f, ids) == [x \in DOMAIN f \ ids |-> f[x]]

----------------------------------------------------------------------------
(* What adds rows. *)

\* An agent that was away posts what happened days ago.
RecordEvent(e, at) ==
    /\ e \notin Present(event) \cup gone /\ at <= today
    /\ \E sampled \in BOOLEAN :
          event' = With(event, e, [at |-> at, job |-> IF sampled THEN "PENDING" ELSE "none", matches |-> FALSE])
    /\ UNCHANGED <<today, snaps, alertRow, limit, form, sweep, handler, lastRun, gone, newest, reopened,
                   saved, changed>>

\* The classification worker inserts matches and settles the job.
Classify(e) ==
    /\ e \in Present(event) /\ event[e].job = "PENDING"
    /\ event' = [event EXCEPT ![e].job = "DONE", ![e].matches = TRUE]
    /\ UNCHANGED <<today, snaps, alertRow, limit, form, sweep, handler, lastRun, gone, newest, reopened,
                   saved, changed>>

TakeSnapshot(s) ==
    /\ snaps' = snaps \cup {[source |-> s, at |-> today]}
    /\ newest' = [newest EXCEPT ![s] = today]
    /\ UNCHANGED <<today, event, alertRow, limit, form, sweep, handler, lastRun, gone, reopened, saved, changed>>

AlertArrives(a) ==
    /\ a \notin Present(alertRow) \cup gone
    /\ alertRow' = With(alertRow, a, [at |-> today, status |-> "OPEN", actions |-> FALSE])
    /\ changed < MaxChanged /\ changed' = changed + 1
    /\ UNCHANGED <<today, event, snaps, limit, form, sweep, handler, lastRun, gone, newest, reopened,
                   saved>>

SuggestAction(a) ==
    /\ a \in Present(alertRow) /\ ~alertRow[a].actions
    /\ alertRow' = [alertRow EXCEPT ![a].actions = TRUE]
    /\ UNCHANGED <<today, event, snaps, limit, form, sweep, handler, lastRun, gone, newest, reopened,
                   saved, changed>>

DayPasses ==
    /\ today < LastDay /\ today' = today + 1
    /\ UNCHANGED <<event, snaps, alertRow, limit, form, sweep, handler, lastRun, gone, newest, reopened,
                   saved, changed>>

----------------------------------------------------------------------------
(* Alerts: changeStatus reads the alerts and updates them one after the    *)
(* other by id; one that has gone ends the request.                        *)

AskStatus(h, ids, status) ==
    /\ handler[h].pc = "free" /\ changed < MaxChanged /\ changed' = changed + 1
    /\ LET found == ids \cap Present(alertRow)
           todo == {a \in found : alertRow[a].status # status}
       IN handler' = [handler EXCEPT ![h] = [pc |-> "update", todo |-> todo, status |-> status]]
    /\ UNCHANGED <<today, event, snaps, alertRow, limit, form, sweep, lastRun, gone, newest, reopened,
                   saved>>

Held == UNION {sweep[s].ids : s \in {x \in Sweepers : sweep[x].pc \in {"actions", "alerts"}}}

UpdateStatus(h) ==
    LET me == handler[h]
    IN  /\ me.pc = "update"
        /\ IF me.todo = {} THEN handler' = [handler EXCEPT ![h] = Free] /\ UNCHANGED <<alertRow, reopened>>
           ELSE \E a \in me.todo :
                  IF a \in Present(alertRow)
                  THEN /\ alertRow' = [alertRow EXCEPT ![a] = [@ EXCEPT !.status = me.status]]
                       /\ reopened' = IF me.status # "RESOLVED" THEN reopened \cup (Held \cap {a}) ELSE reopened
                       /\ handler' = [handler EXCEPT ![h].todo = @ \ {a}]
                  ELSE handler' = [handler EXCEPT ![h] = Free] /\ UNCHANGED <<alertRow, reopened>>
        /\ UNCHANGED <<today, event, snaps, limit, form, sweep, lastRun, gone, newest, saved, changed>>

----------------------------------------------------------------------------
(* The settings and their page. *)

LoadForm(p) ==
    /\ form' = [form EXCEPT ![p] = limit]
    /\ UNCHANGED <<today, event, snaps, alertRow, limit, sweep, handler, lastRun, gone, newest, reopened,
                   saved, changed>>

SaveForm(p, l) ==
    /\ saved < MaxSaved /\ saved' = saved + 1
    /\ l = form[p] \/ form[p] = limit
    /\ limit' = l /\ form' = [form EXCEPT ![p] = l]
    /\ UNCHANGED <<today, event, snaps, alertRow, sweep, handler, lastRun, gone, newest, reopened, changed>>

----------------------------------------------------------------------------
(* The sweep. *)

OldEvents(cutoff) == {e \in Present(event) : event[e].at < cutoff}

\* Mutant of OldAlerts: whatever an alert's status.
OldAnyAlerts(cutoff) == {a \in Present(alertRow) : alertRow[a].at < cutoff}

OldAlerts(cutoff) == {a \in Present(alertRow) : alertRow[a].status = "RESOLVED" /\ alertRow[a].at < cutoff}

At(s, pc) == sweep' = [sweep EXCEPT ![s].pc = pc]

\* The cutoffs are those of the settings as the sweep starts.
StartSweep(s) ==
    /\ sweep[s] = Asleep /\ limit.enabled
    /\ s # Hourly => \E p \in RetPages : form[p].enabled
    /\ sweep' = [sweep EXCEPT ![s] = [pc |-> "find", cutoff |-> today - limit.days, ids |-> {},
                                      batches |-> 0, deleted |-> 0, keep |-> {}]]
    /\ UNCHANGED <<today, event, snaps, alertRow, limit, form, handler, lastRun, gone, newest, reopened,
                   saved, changed>>

\* One batch of ids, and the next table when there is none or the pass is full.
Batches(s, old, found, next) ==
    IF old = {} \/ sweep[s].batches = MaxBatches
    THEN sweep' = [sweep EXCEPT ![s].pc = next, ![s].batches = 0, ![s].ids = {}]
    ELSE \E ids \in SUBSET old :
            /\ Cardinality(ids) = IF Cardinality(old) < RetBatch THEN Cardinality(old) ELSE RetBatch
            /\ sweep' = [sweep EXCEPT ![s].pc = found, ![s].batches = @ + 1, ![s].ids = ids]

FindEvents(s) ==
    /\ sweep[s].pc = "find" /\ Batches(s, OldEvents(sweep[s].cutoff), "matches", "newest")
    /\ UNCHANGED <<today, event, snaps, alertRow, limit, form, handler, lastRun, gone, newest, reopened,
                   saved, changed>>

DeleteMatches(s) ==
    /\ sweep[s].pc = "matches" /\ At(s, "jobs")
    /\ event' = [e \in Present(event) |-> IF e \in sweep[s].ids THEN [event[e] EXCEPT !.matches = FALSE] ELSE event[e]]
    /\ UNCHANGED <<today, snaps, alertRow, limit, form, handler, lastRun, gone, newest, reopened, saved, changed>>

\* A match that came in meanwhile refuses the statement, which ends the sweep.
DeleteRefused(s) == \E e \in sweep[s].ids \cap Present(event) : event[e].matches

DeleteJobs(s) ==
    /\ sweep[s].pc = "jobs"
    /\ IF DeleteRefused(s)
       THEN sweep' = [sweep EXCEPT ![s] = Asleep] /\ event' = event
       ELSE /\ event' = [e \in Present(event) |-> IF e \in sweep[s].ids THEN [event[e] EXCEPT !.job = "none"] ELSE event[e]]
            /\ At(s, "events")
    /\ UNCHANGED <<today, snaps, alertRow, limit, form, handler, lastRun, gone, newest, reopened, saved, changed>>

\* What the statement itself deletes is counted.
Deleted(s) == sweep[s].ids \cap Present(event)

DeleteEvents(s) ==
    /\ sweep[s].pc = "events"
    /\ event' = Dropping(event, sweep[s].ids)
    /\ gone' = gone \cup (sweep[s].ids \cap Present(event))
    /\ sweep' = [sweep EXCEPT ![s].pc = "find", ![s].deleted = @ + Cardinality(Deleted(s)), ![s].ids = {}]
    /\ UNCHANGED <<today, snaps, alertRow, limit, form, handler, lastRun, newest, reopened, saved,
                   changed>>

\* Mutant of SnapsKept: the newest of all sources.
SnapsKeptOverall == {Max({x.at : x \in snaps})}

\* What is kept is the newest of each source.
SnapsKept == {Max({x.at : x \in {y \in snaps : y.source = z.source}}) : z \in snaps}

FindNewest(s) ==
    /\ sweep[s].pc = "newest"
    /\ sweep' = [sweep EXCEPT ![s].pc = "snaps", ![s].keep = IF snaps = {} THEN {} ELSE SnapsKept]
    /\ UNCHANGED <<today, event, snaps, alertRow, limit, form, handler, lastRun, gone, newest, reopened,
                   saved, changed>>

DeleteSnapshots(s) ==
    /\ sweep[s].pc = "snaps" /\ sweep' = [sweep EXCEPT ![s].pc = "findAlerts", ![s].keep = {}]
    /\ snaps' = {x \in snaps : x.at >= sweep[s].cutoff \/ x.at \in sweep[s].keep}
    /\ UNCHANGED <<today, event, alertRow, limit, form, handler, lastRun, gone, newest, reopened, saved, changed>>

FindAlerts(s) ==
    /\ sweep[s].pc = "findAlerts" /\ Batches(s, OldAlerts(sweep[s].cutoff), "actions", "record")
    /\ UNCHANGED <<today, event, snaps, alertRow, limit, form, handler, lastRun, gone, newest, reopened,
                   saved, changed>>

DeleteActions(s) ==
    /\ sweep[s].pc = "actions" /\ At(s, "alerts")
    /\ alertRow' = [a \in Present(alertRow) |-> IF a \in sweep[s].ids THEN [alertRow[a] EXCEPT !.actions = FALSE] ELSE alertRow[a]]
    /\ UNCHANGED <<today, event, snaps, limit, form, handler, lastRun, gone, newest, reopened, saved, changed>>

\* Deleted by id, whatever has become of them; an action added meanwhile refuses it.
DeleteAlerts(s) ==
    /\ sweep[s].pc = "alerts"
    /\ IF \E a \in sweep[s].ids \cap Present(alertRow) : alertRow[a].actions
       THEN sweep' = [sweep EXCEPT ![s] = Asleep] /\ alertRow' = alertRow
       ELSE /\ alertRow' = Dropping(alertRow, sweep[s].ids)
            /\ sweep' = [sweep EXCEPT ![s].pc = "findAlerts", ![s].ids = {}]
    /\ gone' = gone \cup (Present(alertRow) \ Present(alertRow'))
    /\ UNCHANGED <<today, event, snaps, limit, form, handler, lastRun, newest, reopened, saved, changed>>

RecordRun(s) ==
    /\ sweep[s].pc = "record" /\ sweep' = [sweep EXCEPT ![s] = Asleep]
    /\ lastRun' = lastRun + sweep[s].deleted
    /\ UNCHANGED <<today, event, snaps, alertRow, limit, form, handler, gone, newest, reopened, saved,
                   changed>>

\* The newest of a source and bucket stays; a bucket is two days, after the first.
ThinSnapshots ==
    /\ sweep[Hourly] = Asleep
    /\ snaps' = {x \in snaps : x.at >= today - 1 \/ ~\E y \in snaps :
                     y.source = x.source /\ y.at \div 2 = x.at \div 2 /\ y.at > x.at}
    /\ UNCHANGED <<today, event, alertRow, limit, form, sweep, handler, lastRun, gone, newest, reopened,
                   saved, changed>>

SweepStep(s) ==
    \/ FindEvents(s) \/ DeleteMatches(s) \/ DeleteJobs(s) \/ DeleteEvents(s) \/ FindNewest(s)
    \/ DeleteSnapshots(s) \/ FindAlerts(s) \/ DeleteActions(s) \/ DeleteAlerts(s) \/ RecordRun(s)

RetentionNext ==
    \/ \E e \in Events : Classify(e) \/ \E at \in 0..LastDay : RecordEvent(e, at)
    \/ \E s \in Sources : TakeSnapshot(s)
    \/ \E a \in RetAlerts : AlertArrives(a) \/ SuggestAction(a)
    \/ \E h \in Handlers : \/ UpdateStatus(h)
                           \/ \E ids \in SUBSET RetAlerts \ {{}}, x \in Statuses : AskStatus(h, ids, x)
    \/ \E p \in RetPages : LoadForm(p) \/ \E l \in Limits : SaveForm(p, l)
    \/ \E s \in Sweepers : StartSweep(s) \/ SweepStep(s)
    \/ ThinSnapshots \/ DayPasses

RetentionSpec == RetentionInit /\ [][RetentionNext]_retVars

\* Statements end, the timer comes back, the worker works, days pass.
RetentionFairness ==
    /\ \A s \in Sweepers : WF_retVars(SweepStep(s))
    /\ WF_retVars(StartSweep(Hourly)) /\ WF_retVars(DayPasses)
    /\ \A e \in Events : WF_retVars(Classify(e))

----------------------------------------------------------------------------
(* Properties. *)

RetentionTypeOK ==
    /\ Present(event) \subseteq Events \ gone /\ Present(alertRow) \subseteq RetAlerts \ gone
    /\ \A e \in Present(event) : event[e].matches => event[e].job = "DONE"
    /\ \A a \in Present(alertRow) : alertRow[a].status \in Statuses
    /\ \A s \in Sweepers : sweep[s].pc # "asleep" => Cardinality(sweep[s].ids) <= RetBatch

\* Only resolved alerts are deleted, however sweeps overlap with the people
\* who work on alerts, unless one is taken up again between a sweep's search
\* and its deletion.
OpenAlertsStay ==
    [][\A a \in Present(alertRow) \ Present(alertRow)' : alertRow[a].status = "RESOLVED" \/ a \in reopened]_retVars

\* Every source keeps its newest snapshot, through sweeps that overlap with
\* each other, with thinning and with new snapshots.
NewestStays == \A s \in Sources : newest[s] >= 0 => [source |-> s, at |-> newest[s]] \in snaps

\* Together the sweeps record no more than what is gone.
CountedOnce == lastRun <= Cardinality(gone \cap Events)

\* Where retention stays on, every event past the limit goes, also one that a
\* refused statement left half deleted.
OldGoes == <>[](limit.enabled => \A e \in Present(event) : event[e].at >= today - limit.days)

\* What sweeps leave and say: the newest snapshot of every source, and no more
\* deletions recorded than there were.
RetentionHolds == NewestStays /\ CountedOnce
=============================================================================
