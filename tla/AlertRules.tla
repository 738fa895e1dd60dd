------------------------------ MODULE AlertRules ------------------------------
(***************************************************************************)
(* The rules that raise alerts, and the people who settle them.            *)
(*                                                                         *)
(* A post of file events ends with two checks (a copy onto removable       *)
(* media, a burst of changes), a post of audit records with one per reader *)
(* (bulk reading); a timer looks for agents that have gone quiet.  Each is *)
(* a series of statements: what is in the tables, is there an alert of     *)
(* this kind already, raise it, suggest what may be done about it.  Posts, *)
(* sweeps and administrators go on beside each other.                      *)
(*                                                                         *)
(* One source.  Time is in ticks; a window is so many of them.             *)
(***************************************************************************)
EXTENDS Integers, Sequences, FiniteSets, FiniteSetsExt

CONSTANTS
    Changes, ChangeOf,  \* file events: what each one says, [kind, path, volume]
    Readers, ReadFiles, \* accounts, and the files they read
    Threshold, ReadThreshold, Window,
    MaxSamplePaths,     \* arrivals on removable media one check looks at
    MayQuarantine,      \* supportsQuarantine of the source's label
    Posters,            \* requests to the ingest routes
    Scanners, Sweeps,   \* agents that scan shares; sweeps of the timer
    SilentAfter,        \* ticks without a report
    Deciders,           \* requests of administrators
    LastTick, MaxAlerts, MaxDecisions, MaxStops, MaxAbsences \* bounds of a behaviour

ASSUME AlertRulesAssumption ==
    /\ \A e \in Changes : ChangeOf[e].kind \in {"CREATED", "MODIFIED", "DELETED"}
    /\ Threshold \in Nat \ {0} /\ ReadThreshold \in Nat /\ Window \in Nat /\ SilentAfter \in Nat

VARIABLES
    clock,
    occurred,  \* when the stored events happened
    reads,     \* the stored reads: [user, file, at]
    raisedAlerts, \* the alerts, oldest first
    post,      \* how far each request is
    quiet,     \* ticks since each agent was last seen
    away,      \* agents that do not report
    check,     \* how far each sweep is
    decision,  \* requests that change an alert's status
    cut,       \* history: alerts whose raiser was stopped before it suggested anything
    decisions, stops, absences

ruleVars == <<clock, occurred, reads, raisedAlerts, post, quiet, away, check, decision, cut,
              decisions, stops, absences>>

Waiting == [pc |-> "waiting"]
Stored == DOMAIN occurred
Since == clock - Window

AlertRulesInit ==
    /\ clock = 0 /\ occurred = <<>> /\ reads = {} /\ raisedAlerts = <<>>
    /\ post = [p \in Posters |-> Waiting]
    /\ quiet = [a \in Scanners |-> 0] /\ away = {}
    /\ check = [s \in Sweeps |-> Waiting] /\ decision = [d \in Deciders |-> Waiting]
    /\ cut = {} /\ decisions = 0 /\ stops = 0 /\ absences = 0

\* A live agent reports many times in a tick; one that is away grows quiet.
Tick ==
    /\ clock' = IF clock < LastTick THEN clock + 1 ELSE clock
    /\ quiet' = [a \in Scanners |-> IF a \in away THEN IF quiet[a] > SilentAfter THEN quiet[a] ELSE quiet[a] + 1
                                    ELSE 0]
    /\ UNCHANGED <<occurred, reads, raisedAlerts, post, away, check, decision, cut, decisions, stops, absences>>

----------------------------------------------------------------------------
(* Alerts.  knew is the number of alerts there were when the rule looked   *)
(* for one of its kind, touched whether somebody has changed its status.   *)

Alert(rule, of, level, knew) ==
    [rule |-> rule, of |-> of, level |-> level, at |-> clock, status |-> "OPEN", acknowledged |-> FALSE,
     resolved |-> FALSE, actions |-> {}, knew |-> knew, touched |-> FALSE]

OpenAfter(rule, of, since) ==
    \E i \in DOMAIN raisedAlerts :
        LET a == raisedAlerts[i]
        IN a.rule = rule /\ a.of = of /\ a.status = "OPEN" /\ a.at > since

\* An open alert of the kind, raised within the window of the check.
AlreadyOpen(rule, of, since) ==
    \E i \in DOMAIN raisedAlerts :
        LET a == raisedAlerts[i]
        IN a.rule = rule /\ a.of = of /\ a.status = "OPEN" /\ a.at >= since

Becomes(p, r) == post' = [post EXCEPT ![p] = r]
RestOfPost == UNCHANGED <<clock, quiet, away, check, decision, cut, decisions, stops, absences>>
OnlyPost == UNCHANGED <<occurred, reads, raisedAlerts>> /\ RestOfPost

\* owes is history: what the check has found and has to have an alert of.
Burst(rule, of) == [rule |-> rule, of |-> of, since |-> Since]
Done(owes) == [pc |-> "done", owes |-> owes]

RaisesAlert(p, rule, of, level, next) ==
    /\ Len(raisedAlerts) < MaxAlerts
    /\ raisedAlerts' = Append(raisedAlerts, Alert(rule, of, level, post[p].knew))
    /\ Becomes(p, next)
    /\ UNCHANGED <<occurred, reads>> /\ RestOfPost

Suggests(p, type, next) ==
    /\ raisedAlerts' = [raisedAlerts EXCEPT ![post[p].alert].actions = @ \cup {type}]
    /\ Becomes(p, next)
    /\ UNCHANGED <<occurred, reads>> /\ RestOfPost

----------------------------------------------------------------------------
(* A post of file events: they are stored, then removable media are looked *)
(* at, then the rate of changes.                                           *)

PostChanges(p, es) ==
    /\ es # {}
    /\ \A q \in Posters : post[q].pc = "store" => post[q].todo \cap es = {}
    /\ Becomes(p, [pc |-> "store", todo |-> es]) /\ OnlyPost

\* It may have happened a tick ago.
StoreChange(p, e, at) ==
    /\ at \in {clock - 1, clock} /\ at >= 0
    /\ occurred' = [x \in Stored \cup {e} |-> IF x = e THEN at ELSE occurred[x]]
    /\ Becomes(p, [post[p] EXCEPT !.todo = @ \ {e}])
    /\ UNCHANGED <<reads, raisedAlerts>> /\ RestOfPost

Arrivals == {e \in Stored : ChangeOf[e].volume # "none" /\ ChangeOf[e].kind # "DELETED" /\ occurred[e] >= Since}
Oldest(sample, all) ==
    /\ Cardinality(sample) = IF Cardinality(all) > MaxSamplePaths THEN MaxSamplePaths ELSE Cardinality(all)
    /\ \A e \in sample, f \in all \ sample : occurred[e] <= occurred[f]

\* The devices of the arrivals read; each is looked for and raised in turn.
Devices(sample) == {ChangeOf[e].volume : e \in sample}

ReadArrivals(p) ==
    /\ post[p].pc = "store" /\ post[p].todo = {}
    /\ \E sample \in SUBSET Arrivals :
          /\ Oldest(sample, Arrivals)
          /\ Becomes(p, [pc |-> "devices", todo |-> Devices(sample), since |-> Since,
                         owes |-> {Burst("COPY_TO_REMOVABLE", ChangeOf[e].volume) : e \in sample}])
    /\ OnlyPost

LookForCopy(p, v) ==
    /\ LET next == [post[p] EXCEPT !.todo = @ \ {v}]
       IN IF AlreadyOpen("COPY_TO_REMOVABLE", v, post[p].since) THEN Becomes(p, next)
          ELSE Becomes(p, [pc |-> "copy", device |-> v, knew |-> Len(raisedAlerts), next |-> next])
    /\ OnlyPost

\* HIGH where a file is known to come from a watched share.
RaiseCopy(p) ==
    /\ post[p].pc = "copy"
    /\ \E level \in {"HIGH", "MEDIUM"} :
          RaisesAlert(p, "COPY_TO_REMOVABLE", post[p].device, level,
                      [pc |-> "copied", alert |-> Len(raisedAlerts) + 1, next |-> post[p].next])

NotifyCopy(p) == post[p].pc = "copied" /\ Suggests(p, "WEBHOOK_NOTIFICATION", post[p].next)

\* checkRansomwareRate: all kinds of events count.
Counted == {e \in Stored : occurred[e] >= Since}
CountChanges(p) ==
    /\ post[p].pc = "devices" /\ post[p].todo = {}
    /\ LET n == Cardinality({e \in Stored : occurred[e] >= Since})
           owes == post[p].owes \cup (IF n >= Threshold THEN {Burst("RANSOMWARE_RATE", "source")} ELSE {})
       IN IF Cardinality(Counted) < Threshold THEN Becomes(p, Done(owes))
          ELSE Becomes(p, [pc |-> "rate", since |-> Since, owes |-> owes])
    /\ OnlyPost

LookForRate(p) ==
    /\ post[p].pc = "rate"
    /\ IF AlreadyOpen("RANSOMWARE_RATE", "source", post[p].since) THEN Becomes(p, Done(post[p].owes))
       ELSE Becomes(p, [pc |-> "files", since |-> post[p].since, owes |-> post[p].owes, knew |-> Len(raisedAlerts)])
    /\ OnlyPost

\* A deleted file is not there to be quarantined.
Affected(since) == {ChangeOf[e].path : e \in {f \in Stored : occurred[f] >= since /\ ChangeOf[f].kind # "DELETED"}}
CollectFiles(p) ==
    /\ post[p].pc = "files"
    /\ Becomes(p, [pc |-> "raise", files |-> Affected(post[p].since), owes |-> post[p].owes, knew |-> post[p].knew])
    /\ OnlyPost

RaiseRate(p) ==
    /\ post[p].pc = "raise"
    /\ RaisesAlert(p, "RANSOMWARE_RATE", "source", "CRITICAL",
                   [pc |-> "raised", files |-> post[p].files, alert |-> Len(raisedAlerts) + 1, owes |-> post[p].owes])

OffersQuarantine(files) == files # {} /\ MayQuarantine
NotifyRate(p) ==
    /\ post[p].pc = "raised"
    /\ Suggests(p, "WEBHOOK_NOTIFICATION", IF OffersQuarantine(post[p].files)
                                           THEN [post[p] EXCEPT !.pc = "noted"] ELSE Done(post[p].owes))
SuggestQuarantine(p) == post[p].pc = "noted" /\ Suggests(p, "FILE_QUARANTINE", Done(post[p].owes))

----------------------------------------------------------------------------
(* A post of audit records, with a read of each account in it.             *)

PostReads(p, u, f) ==
    /\ post[p].pc \in {"waiting", "done"}
    /\ reads' = reads \cup {[user |-> u, file |-> f, at |-> clock]}
    /\ Becomes(p, [pc |-> "reads", user |-> u])
    /\ UNCHANGED <<occurred, raisedAlerts>> /\ RestOfPost

\* Different files, however often each was read.
FilesRead(u) == {r.file : r \in {x \in reads : x.user = u /\ x.at >= Since}}
CountReads(p) ==
    /\ post[p].pc = "reads"
    /\ LET u == post[p].user
           bulk == Cardinality({f \in ReadFiles : \E at \in Since .. clock :
                                    [user |-> u, file |-> f, at |-> at] \in reads}) > ReadThreshold
           owes == IF bulk THEN {Burst("BULK_FILE_READ", "source")} ELSE {}
       IN IF Cardinality(FilesRead(u)) <= ReadThreshold THEN Becomes(p, Done(owes))
          ELSE Becomes(p, [pc |-> "bulk", since |-> Since, owes |-> owes])
    /\ OnlyPost

\* An alert about any account will do.
LookForBulk(p) ==
    /\ post[p].pc = "bulk"
    /\ IF AlreadyOpen("BULK_FILE_READ", "source", post[p].since) THEN Becomes(p, Done(post[p].owes))
       ELSE Becomes(p, [pc |-> "copying", owes |-> post[p].owes, knew |-> Len(raisedAlerts)])
    /\ OnlyPost

RaiseBulk(p) ==
    /\ post[p].pc = "copying"
    /\ RaisesAlert(p, "BULK_FILE_READ", "source", "MEDIUM",
                   [pc |-> "told", alert |-> Len(raisedAlerts) + 1, owes |-> post[p].owes])
NotifyBulk(p) == post[p].pc = "told" /\ Suggests(p, "WEBHOOK_NOTIFICATION", Done(post[p].owes))

----------------------------------------------------------------------------
(* The timer's sweep for agents that have gone quiet.                      *)

RestOfSweep == UNCHANGED <<clock, occurred, reads, post, quiet, away, decision, cut, decisions, stops, absences>>
Sweeping(s, r) == check' = [check EXCEPT ![s] = r]

GoesAway(a) ==
    /\ a \notin away /\ absences < MaxAbsences /\ absences' = absences + 1 /\ away' = away \cup {a}
    /\ UNCHANGED <<clock, occurred, reads, raisedAlerts, post, quiet, check, decision, cut, decisions, stops>>
ReportsAgain(a) ==
    /\ a \in away /\ away' = away \ {a} /\ quiet' = [quiet EXCEPT ![a] = 0]
    /\ UNCHANGED <<clock, occurred, reads, raisedAlerts, post, check, decision, cut, decisions, stops, absences>>

\* The agents are read once, with when each was seen.
SweepStarts(s) ==
    /\ check[s].pc = "waiting"
    /\ Sweeping(s, [pc |-> "sweep", todo |-> Scanners, seen |-> quiet])
    /\ UNCHANGED raisedAlerts /\ RestOfSweep

SilenceAlerts(a, statuses) ==
    {i \in DOMAIN raisedAlerts : /\ raisedAlerts[i].rule = "AGENT_SILENT" /\ raisedAlerts[i].of = a
                                 /\ raisedAlerts[i].status \in statuses}
OpenAbout(a) == SilenceAlerts(a, {"OPEN", "ACKNOWLEDGED"})

\* What there is to do about an agent, given its open alerts.
SweepLooks(s, a) ==
    /\ check[s].pc = "sweep" /\ a \in check[s].todo
    /\ LET rest == [check[s] EXCEPT !.todo = @ \ {a}]
           open == OpenAbout(a)
           silent == check[s].seen[a] > SilentAfter
       IN \/ /\ silent /\ open = {}
             /\ Sweeping(s, [pc |-> "raise", agent |-> a, knew |-> Len(raisedAlerts), next |-> rest])
          \/ ~silent /\ \E i \in open : Sweeping(s, [pc |-> "resolve", alert |-> i, next |-> rest])
          \/ silent = (open # {}) /\ Sweeping(s, rest)
    /\ UNCHANGED raisedAlerts /\ RestOfSweep

SweepRaises(s) ==
    /\ check[s].pc = "raise" /\ Len(raisedAlerts) < MaxAlerts
    /\ raisedAlerts' = Append(raisedAlerts, Alert("AGENT_SILENT", check[s].agent, "HIGH", check[s].knew))
    /\ Sweeping(s, [pc |-> "note", alert |-> Len(raisedAlerts) + 1, next |-> check[s].next])
    /\ RestOfSweep

SweepNotifies(s) ==
    /\ check[s].pc = "note"
    /\ raisedAlerts' = [raisedAlerts EXCEPT ![check[s].alert].actions = @ \cup {"WEBHOOK_NOTIFICATION"}]
    /\ Sweeping(s, check[s].next) /\ RestOfSweep

\* By id, whatever its status has become.
SweepResolves(s) ==
    /\ check[s].pc = "resolve"
    /\ raisedAlerts' = [raisedAlerts EXCEPT ![check[s].alert].status = "RESOLVED"]
    /\ Sweeping(s, check[s].next) /\ RestOfSweep

SweepEnds(s) ==
    /\ check[s].pc = "sweep" /\ check[s].todo = {}
    /\ Sweeping(s, Waiting) /\ UNCHANGED raisedAlerts /\ RestOfSweep

----------------------------------------------------------------------------
(* Administrators: the alerts are read, then updated one after the other.  *)

Decides(d, ids, status) ==
    /\ decisions' = decisions + 1
    /\ decision' = [decision EXCEPT ![d] =
          [pc |-> "update", status |-> status,
           todo |-> {i \in ids : raisedAlerts[i].status # status},
           acknowledged |-> {i \in ids : raisedAlerts[i].acknowledged}]]
    /\ UNCHANGED <<clock, occurred, reads, raisedAlerts, post, quiet, away, check, cut, stops, absences>>

\* transition: resolving what nobody has acknowledged acknowledges it.
Transition(a, status, wasAcknowledged) ==
    [a EXCEPT !.status = status, !.touched = TRUE,
              !.acknowledged = @ \/ status = "ACKNOWLEDGED" \/ (status = "RESOLVED" /\ ~wasAcknowledged),
              !.resolved = status = "RESOLVED" \/ (@ /\ status # "OPEN")]
UpdatesAlert(d, i) ==
    /\ decision[d].pc = "update" /\ i \in decision[d].todo
    /\ raisedAlerts' = [raisedAlerts EXCEPT ![i] =
                            Transition(@, decision[d].status, i \in decision[d].acknowledged)]
    /\ decision' = [decision EXCEPT ![d].todo = @ \ {i}]
    /\ UNCHANGED <<clock, occurred, reads, post, quiet, away, check, cut, decisions, stops, absences>>

EndsDecision(d) ==
    /\ decision[d].pc = "update" /\ decision[d].todo = {}
    /\ decision' = [decision EXCEPT ![d] = Waiting]
    /\ UNCHANGED <<clock, occurred, reads, raisedAlerts, post, quiet, away, check, cut, decisions, stops, absences>>

\* The backend stops: what requests and the sweep held is gone.
RaisedOnly == {post[p].alert : p \in {q \in Posters : post[q].pc \in {"copied", "raised", "noted", "told"}}}
              \cup {check[s].alert : s \in {t \in Sweeps : check[t].pc = "note"}}
BackendStops ==
    /\ stops < MaxStops /\ stops' = stops + 1
    /\ cut' = cut \cup RaisedOnly
    /\ post' = [p \in Posters |-> Waiting] /\ check' = [s \in Sweeps |-> Waiting]
    /\ decision' = [d \in Deciders |-> Waiting]
    /\ UNCHANGED <<clock, occurred, reads, raisedAlerts, quiet, away, decisions, absences>>

----------------------------------------------------------------------------
FileStep(p) ==
    \/ post[p].pc = "store" /\ \E e \in post[p].todo, at \in {clock - 1, clock} : StoreChange(p, e, at)
    \/ ReadArrivals(p) \/ (post[p].pc = "devices" /\ \E v \in post[p].todo : LookForCopy(p, v))
    \/ RaiseCopy(p) \/ NotifyCopy(p)
    \/ CountChanges(p) \/ LookForRate(p) \/ CollectFiles(p) \/ RaiseRate(p) \/ NotifyRate(p) \/ SuggestQuarantine(p)
ReadStep(p) == CountReads(p) \/ LookForBulk(p) \/ RaiseBulk(p) \/ NotifyBulk(p)
SweepStep(s) ==
    \/ (\E a \in Scanners : SweepLooks(s, a))
    \/ SweepRaises(s) \/ SweepNotifies(s) \/ SweepResolves(s) \/ SweepEnds(s)
DecisionStep ==
    \E d \in Deciders :
        \/ /\ decision[d].pc = "waiting" /\ decisions < MaxDecisions
           /\ \E ids \in SUBSET DOMAIN raisedAlerts \ {{}}, status \in {"OPEN", "ACKNOWLEDGED", "RESOLVED"} :
                 Decides(d, ids, status)
        \/ (\E i \in DOMAIN raisedAlerts : UpdatesAlert(d, i)) \/ EndsDecision(d)

FilePosts ==
    \E p \in Posters :
        \/ post[p].pc \in {"waiting", "done"} /\ \E es \in SUBSET (Changes \ Stored) : PostChanges(p, es)
        \/ FileStep(p)
ReadPosts == \E p \in Posters : (\E u \in Readers, f \in ReadFiles : PostReads(p, u, f)) \/ ReadStep(p)
SilenceSteps == (\E a \in Scanners : GoesAway(a) \/ ReportsAgain(a)) \/ (\E s \in Sweeps : SweepStarts(s) \/ SweepStep(s))

RulesNext == Tick \/ FilePosts \/ ReadPosts \/ SilenceSteps \/ DecisionStep \/ BackendStops

RulesFairness == WF_ruleVars(Tick) /\ \A s \in Sweeps : WF_ruleVars(SweepStarts(s) \/ SweepStep(s))

RulesSpec == AlertRulesInit /\ [][RulesNext]_ruleVars

----------------------------------------------------------------------------
(* Every alert is of a rule, and says of its resolution what its status    *)
(* allows: an open one has none, and one a person resolved was also        *)
(* acknowledged, though reads and updates of two administrators cross.     *)
RulesTypeOK ==
    \A i \in DOMAIN raisedAlerts :
        LET a == raisedAlerts[i]
        IN /\ a.rule \in {"COPY_TO_REMOVABLE", "RANSOMWARE_RATE", "BULK_FILE_READ", "AGENT_SILENT"}
           /\ a.status \in {"OPEN", "ACKNOWLEDGED", "RESOLVED"}
           /\ a.status = "OPEN" => ~a.resolved
           /\ a.resolved => a.acknowledged

(* One alert per burst, per device and per outage: two open ones that      *)
(* nobody has touched are of checks that crossed, the second having looked *)
(* before the first was there.                                             *)
OneAlertPerBurst ==
    \A i, j \in DOMAIN raisedAlerts :
        LET a == raisedAlerts[i]
            b == raisedAlerts[j]
        IN /\ i < j /\ a.rule = b.rule /\ a.of = b.of /\ a.status = "OPEN" /\ b.status = "OPEN"
           /\ ~a.touched /\ ~b.touched
           /\ b.at - a.at <= Window \/ a.rule = "AGENT_SILENT"
           => b.knew < i

(* A burst is told: where a finished request had found one, there is an    *)
(* alert of it, raised in the window the request looked at; an older one   *)
(* that is still open does not stand for it.                               *)
BurstsAreTold ==
    \A p \in Posters : post[p].pc = "done" =>
        \A o \in post[p].owes :
            \E i \in DOMAIN raisedAlerts :
                raisedAlerts[i].rule = o.rule /\ raisedAlerts[i].of = o.of /\ raisedAlerts[i].at >= o.since

(* Every alert comes to have its notification suggested, and a quarantine  *)
(* is suggested only where a changed file may still be there; a stop of    *)
(* the backend right after an alert was raised is the one exception.       *)
AlertsAreActionable ==
    /\ \A i \in DOMAIN raisedAlerts \ (cut \cup RaisedOnly) : "WEBHOOK_NOTIFICATION" \in raisedAlerts[i].actions
    /\ \A i \in DOMAIN raisedAlerts : "FILE_QUARANTINE" \in raisedAlerts[i].actions =>
          /\ raisedAlerts[i].rule = "RANSOMWARE_RATE"
          /\ MayQuarantine /\ \E e \in Stored : ChangeOf[e].kind # "DELETED"

(* An agent that stays away comes to have an open or acknowledged alert,   *)
(* whatever administrators do to earlier ones; and one that stays in touch *)
(* ends up with none.                                                      *)
Unresolved(a) == \E i \in DOMAIN raisedAlerts : LET r == raisedAlerts[i]
                                               IN r.rule = "AGENT_SILENT" /\ r.of = a /\ r.status # "RESOLVED"
SilenceIsTold == \A a \in Scanners : <>[](a \in away) => <>[]Unresolved(a)
SilenceEnds == \A a \in Scanners : <>[](a \notin away) => <>[]~Unresolved(a)

\* Alerts are worth reading: one for a burst, none for a burst that was not
\* told, each with something to act on.
AlertsHold == OneAlertPerBurst /\ BurstsAreTold /\ AlertsAreActionable

\* A silent agent has its alert, and just while it is silent.
SilenceHeard == SilenceIsTold /\ SilenceEnds
=============================================================================
