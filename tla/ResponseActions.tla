-------------------------- MODULE ResponseActions --------------------------
(***************************************************************************)
(* The life of a ResponseAction row, from the alert that suggests it to    *)
(* its recorded outcome.  Four kinds of actor touch the row, each through  *)
(* its own handler and each with awaits between a read and the write that  *)
(* depends on it:                                                          *)
(*                                                                         *)
(*   raisers   the detection rules and the workers: insert the alert, then *)
(*             the rows it suggests, one insert at a time;                 *)
(*   policy    applyNotificationPolicy, run on a timer without a guard     *)
(*             against overlapping: offers notifications, sends some;      *)
(*   admins    POST /response-actions/:id/approve and .../reject;          *)
(*   agent     GET /agent-commands and POST /agent-commands/:id/complete.  *)
(*                                                                         *)
(* A row id stands for a row with that alert and type: both are written    *)
(* once, at the insert, so they are functions of the id.  Message texts,   *)
(* timestamps and the audit log are left out.                              *)
(***************************************************************************)
EXTENDS Naturals, FiniteSets

CONSTANTS
    Alerts,         \* alerts that may be raised
    Actions,        \* ids of ResponseAction rows that may be inserted
    About,          \* [Actions -> Alerts], the row's alertId
    TypeOf,         \* [Actions -> ActionTypes], the row's type
    Suggesting,     \* alerts whose raiser inserts a WEBHOOK_NOTIFICATION itself
    Quarantinable,  \* alerts whose raiser also suggests FILE_QUARANTINE
    BackendRules,   \* alerts raised inside the backend process
    Offerable,      \* alerts at or above notify.suggestFromSeverity
    AutoSend,       \* alerts whose type is listed in notify.autoSend
    Requests,       \* admin requests that may be in flight together
    Runs,           \* policy runs that may overlap
    Polls,          \* agent polls that may overlap
    TakeOffer,      \* findMany's take: alerts offered per run
    TakeDue,        \* findMany's take: notifications sent per run
    MayAge,         \* bound: the alerts and rows that may become 24 h old
    MaxFaults       \* bound: crashes and lost reports in a behaviour

ActionTypes == {"WEBHOOK_NOTIFICATION", "FILE_QUARANTINE"}

ASSUME ConstantsAssumption ==
    /\ About \in [Actions -> Alerts]
    /\ TypeOf \in [Actions -> ActionTypes]
    /\ Suggesting \subseteq Alerts
    /\ Quarantinable \subseteq Suggesting
    /\ AutoSend \subseteq Alerts
    /\ Requests \cap Runs = {}
    /\ TakeOffer \in Nat \ {0}
    /\ TakeDue \in Nat \ {0}
    /\ MaxFaults \in Nat

VARIABLES
    alert,      \* Alert.status of each alert, "ABSENT" before it is raised
    raising,    \* what the raiser of an alert inserts next
    status,     \* ResponseAction.status of each row, "ABSENT" before the insert
    decidedBy,  \* ResponseAction.approvedByUserId: "admin", or "nobody" for null
    recent,     \* alerts and rows younger than RECENT_MS
    quiet,      \* inside the quiet hours
    run,        \* each policy run's progress
    inFlight,   \* admin requests past their status check
    sending,    \* executions of executeNotification
    held,       \* commands each agent poll has fetched and not yet reported
    sends,      \* how often a row's notification went to the channels
    authorised, \* history: on whose authority a row was moved to APPROVED
    faults      \* crashes and lost reports so far

rowVars  == <<status, decidedBy, authorised>>
taskVars == <<run, inFlight, sending>>
vars == <<alert, raising, status, decidedBy, recent, quiet, run, inFlight,
          sending, held, sends, authorised, faults>>

Webhooks    == {x \in Actions : TypeOf[x] = "WEBHOOK_NOTIFICATION"}
Quarantines == {x \in Actions : TypeOf[x] = "FILE_QUARANTINE"}
Tasks       == Requests \cup Runs

AlertStatus == {"ABSENT", "OPEN", "ACKNOWLEDGED", "RESOLVED"}
RowStatus   == {"ABSENT", "PENDING", "APPROVED", "REJECTED", "EXECUTED", "FAILED"}

Execution == [task : Tasks, action : Webhooks, step : {"send", "ok", "failed"}]
Decision  == [task : Requests, action : Actions, op : {"approve", "reject"}]
RunState  == [pc : {"idle", "offer", "claim"}, unoffered : SUBSET Alerts,
              due : SUBSET Webhooks, quiet : BOOLEAN]

IdleRun == [pc |-> "idle", unoffered |-> {}, due |-> {}, quiet |-> FALSE]
Busy(t) == \E e \in sending : e.task = t

\* The rows findMany may return when it takes at most k of S.
Batch(S, k) == {B \in SUBSET S : Cardinality(B) <= k /\ (B = S \/ Cardinality(B) = k)}

Fresh(a, type) == {x \in Actions : About[x] = a /\ TypeOf[x] = type /\ status[x] = "ABSENT"}

Insert(x) == status' = [status EXCEPT ![x] = "PENDING"]

-----------------------------------------------------------------------------
Init ==
    /\ alert = [a \in Alerts |-> "ABSENT"]
    /\ raising = [a \in Alerts |-> "idle"]
    /\ status = [x \in Actions |-> "ABSENT"]
    /\ decidedBy = [x \in Actions |-> "nobody"]
    /\ recent = Alerts \cup Actions
    /\ quiet \in BOOLEAN
    /\ run = [n \in Runs |-> IdleRun]
    /\ inFlight = {}
    /\ sending = {}
    /\ held = [p \in Polls |-> {}]
    /\ sends = [x \in Actions |-> 0]
    /\ authorised = [x \in Actions |-> {}]
    /\ faults = 0

(***************************************************************************)
(* Raisers.  The alert is visible before the rows it suggests.             *)
(***************************************************************************)
RaiseAlert(a) ==
    /\ alert[a] = "ABSENT"
    /\ alert' = [alert EXCEPT ![a] = "OPEN"]
    /\ raising' = [raising EXCEPT ![a] = IF a \in Suggesting THEN "notify" ELSE "done"]
    /\ UNCHANGED <<rowVars, taskVars, recent, quiet, held, sends, faults>>

SuggestNotification(a) ==
    /\ raising[a] = "notify"
    /\ \E x \in Fresh(a, "WEBHOOK_NOTIFICATION") : Insert(x)
    /\ raising' = [raising EXCEPT ![a] = IF a \in Quarantinable THEN "quarantine" ELSE "done"]
    /\ UNCHANGED <<alert, decidedBy, authorised, taskVars, recent, quiet, held, sends, faults>>

SuggestQuarantine(a) ==
    /\ raising[a] = "quarantine"
    /\ \E x \in Fresh(a, "FILE_QUARANTINE") : Insert(x)
    /\ raising' = [raising EXCEPT ![a] = "done"]
    /\ UNCHANGED <<alert, decidedBy, authorised, taskVars, recent, quiet, held, sends, faults>>

\* A worker that is not the backend dies between its inserts.
WorkerDies(a) ==
    /\ a \notin BackendRules
    /\ raising[a] \in {"notify", "quarantine"}
    /\ faults < MaxFaults
    /\ raising' = [raising EXCEPT ![a] = "done"]
    /\ faults' = faults + 1
    /\ UNCHANGED <<alert, rowVars, taskVars, recent, quiet, held, sends>>

\* PATCH /alerts/:id: an admin moves an alert to any of the three statuses.
ChangeStatus(a) ==
    /\ alert[a] # "ABSENT"
    /\ \E s \in AlertStatus \ {"ABSENT"} : alert' = [alert EXCEPT ![a] = s]
    /\ UNCHANGED <<raising, rowVars, taskVars, recent, quiet, held, sends, faults>>

(***************************************************************************)
(* applyNotificationPolicy.  `now`, and with it the quiet-hours test, is   *)
(* fixed when the run starts.                                              *)
(***************************************************************************)
Unoffered ==
    {a \in Alerts \cap Offerable \cap recent :
        /\ alert[a] = "OPEN"
        /\ \A x \in Webhooks : About[x] = a => status[x] = "ABSENT"}

\* Mutant of Due: only while the alert is still open.
DueWhileOpen ==
    {x \in Webhooks \cap recent :
        status[x] = "PENDING" /\ About[x] \in AutoSend /\ alert[About[x]] = "OPEN"}

Due == {x \in Webhooks \cap recent : status[x] = "PENDING" /\ About[x] \in AutoSend}

StartRun(n) ==
    /\ run[n].pc = "idle"
    /\ \E B \in Batch(Unoffered, TakeOffer) :
          run' = [run EXCEPT ![n] = [pc |-> "offer", unoffered |-> B, due |-> {}, quiet |-> quiet]]
    /\ UNCHANGED <<alert, raising, rowVars, recent, quiet, inFlight, sending, held, sends, faults>>

\* The create is unconditional: what was read about the alert may be stale.
OfferOne(n) ==
    /\ run[n].pc = "offer"
    /\ \E a \in run[n].unoffered :
          /\ \E x \in Fresh(a, "WEBHOOK_NOTIFICATION") : Insert(x)
          /\ run' = [run EXCEPT ![n].unoffered = @ \ {a}]
    /\ UNCHANGED <<alert, raising, decidedBy, authorised, recent, quiet, inFlight, sending, held, sends, faults>>

ReadDue(n) ==
    /\ run[n].pc = "offer" /\ run[n].unoffered = {}
    /\ \/ run[n].quiet /\ run' = [run EXCEPT ![n] = IdleRun]
       \/ /\ ~run[n].quiet
          /\ \E B \in Batch(Due, TakeDue) :
                run' = [run EXCEPT ![n] = [pc |-> "claim", unoffered |-> {}, due |-> B, quiet |-> FALSE]]
    /\ UNCHANGED <<alert, raising, rowVars, recent, quiet, inFlight, sending, held, sends, faults>>

\* Mutant of Claim: an update by id alone.
ClaimUnguarded(t, x, who) ==
    /\ status' = [status EXCEPT ![x] = "APPROVED"]
    /\ authorised' = [authorised EXCEPT ![x] = @ \cup {who}]
    /\ sending' = sending \cup {[task |-> t, action |-> x, step |-> "send"]}

\* updateMany({ id, status: PENDING } -> APPROVED): one atomic statement.
Claim(t, x, who) ==
    /\ status[x] = "PENDING"
    /\ status' = [status EXCEPT ![x] = "APPROVED"]
    /\ authorised' = [authorised EXCEPT ![x] = @ \cup {who}]
    /\ sending' = sending \cup {[task |-> t, action |-> x, step |-> "send"]}

ClaimLost(x) ==
    /\ status[x] # "PENDING"
    /\ UNCHANGED <<status, authorised, sending>>

ClaimDue(n) ==
    /\ run[n].pc = "claim" /\ ~Busy(n)
    /\ \E x \in run[n].due :
          /\ Claim(n, x, "policy") \/ ClaimLost(x)
          /\ run' = [run EXCEPT ![n].due = @ \ {x}]
    /\ UNCHANGED <<alert, raising, decidedBy, recent, quiet, inFlight, held, sends, faults>>

EndRun(n) ==
    /\ run[n].pc = "claim" /\ run[n].due = {} /\ ~Busy(n)
    /\ run' = [run EXCEPT ![n] = IdleRun]
    /\ UNCHANGED <<alert, raising, rowVars, recent, quiet, inFlight, sending, held, sends, faults>>

(***************************************************************************)
(* executeNotification, for a policy run and for an admin's approval.      *)
(***************************************************************************)
Send(e) ==
    /\ e.step = "send"
    /\ sends' = [sends EXCEPT ![e.action] = @ + 1]
    /\ \E result \in {"ok", "failed"} :
          sending' = (sending \ {e}) \cup {[e EXCEPT !.step = result]}
    /\ UNCHANGED <<alert, raising, rowVars, recent, quiet, run, inFlight, held, faults>>

\* Mutants of Record: the raw result as the status; no approvedByUserId.
RecordRaw(e) ==
    /\ e.step # "send"
    /\ status' = [status EXCEPT ![e.action] = e.step]
    /\ decidedBy' = [decidedBy EXCEPT ![e.action] = IF e.task \in Requests THEN "admin" ELSE "nobody"]
    /\ sending' = sending \ {e}
    /\ UNCHANGED <<alert, raising, authorised, recent, quiet, run, inFlight, held, sends, faults>>

RecordAnonymous(e) ==
    /\ e.step # "send"
    /\ status' = [status EXCEPT ![e.action] = IF e.step = "ok" THEN "EXECUTED" ELSE "FAILED"]
    /\ sending' = sending \ {e}
    /\ UNCHANGED <<alert, raising, decidedBy, authorised, recent, quiet, run, inFlight, held, sends, faults>>

Record(e) ==
    /\ e.step # "send"
    /\ status' = [status EXCEPT ![e.action] = IF e.step = "ok" THEN "EXECUTED" ELSE "FAILED"]
    /\ decidedBy' = [decidedBy EXCEPT ![e.action] = IF e.task \in Requests THEN "admin" ELSE "nobody"]
    /\ sending' = sending \ {e}
    /\ UNCHANGED <<alert, raising, authorised, recent, quiet, run, inFlight, held, sends, faults>>

(***************************************************************************)
(* Admin routes.  The handler reads the row and answers 409 unless it is   *)
(* PENDING; the write comes after an await.  Only the notification's       *)
(* approval repeats the test in its write.                                 *)
(***************************************************************************)
Available(r) == ~Busy(r) /\ \A d \in inFlight : d.task # r

ReadRow(r, x, op) ==
    /\ Available(r)
    /\ status[x] = "PENDING"
    /\ inFlight' = inFlight \cup {[task |-> r, action |-> x, op |-> op]}
    /\ UNCHANGED <<alert, raising, rowVars, recent, quiet, run, sending, held, sends, faults>>

ApproveNotification(d) ==
    /\ d.op = "approve" /\ d.action \in Webhooks
    /\ Claim(d.task, d.action, "admin") \/ ClaimLost(d.action)
    /\ inFlight' = inFlight \ {d}
    /\ UNCHANGED <<alert, raising, decidedBy, recent, quiet, run, held, sends, faults>>

ApproveQuarantine(d) ==
    /\ d.op = "approve" /\ d.action \in Quarantines
    /\ status' = [status EXCEPT ![d.action] = "APPROVED"]
    /\ decidedBy' = [decidedBy EXCEPT ![d.action] = "admin"]
    /\ authorised' = [authorised EXCEPT ![d.action] = @ \cup {"admin"}]
    /\ inFlight' = inFlight \ {d}
    /\ UNCHANGED <<alert, raising, recent, quiet, run, sending, held, sends, faults>>

Reject(d) ==
    /\ d.op = "reject"
    /\ status' = [status EXCEPT ![d.action] = "REJECTED"]
    /\ decidedBy' = [decidedBy EXCEPT ![d.action] = "admin"]
    /\ inFlight' = inFlight \ {d}
    /\ UNCHANGED <<alert, raising, authorised, recent, quiet, run, sending, held, sends, faults>>

(***************************************************************************)
(* The agent's side of a quarantine.  What it does to the files between    *)
(* the two requests is module Quarantine; here any report is possible.     *)
(***************************************************************************)
\* Mutant of Commands: rows nobody approved yet too.
CommandsUnapproved == {x \in Quarantines : status[x] \in {"PENDING", "APPROVED"}}

Commands == {x \in Quarantines : status[x] = "APPROVED"}

FetchCommands(p) ==
    /\ held[p] = {}
    /\ Commands # {}
    /\ held' = [held EXCEPT ![p] = Commands]
    /\ UNCHANGED <<alert, raising, rowVars, taskVars, recent, quiet, sends, faults>>

CompleteCommand(p, x, success) ==
    /\ x \in held[p]
    /\ status' = [status EXCEPT ![x] = IF success THEN "EXECUTED" ELSE "FAILED"]
    /\ held' = [held EXCEPT ![p] = @ \ {x}]
    /\ UNCHANGED <<alert, raising, decidedBy, authorised, taskVars, recent, quiet, sends, faults>>

\* The backend answers an error, or the report never reaches it and the poll
\* ends with the commands it has not come to.
ReportLost(p, x) ==
    /\ x \in held[p]
    /\ faults < MaxFaults
    /\ \E rest \in {held[p] \ {x}, {}} : held' = [held EXCEPT ![p] = rest]
    /\ faults' = faults + 1
    /\ UNCHANGED <<alert, raising, rowVars, taskVars, recent, quiet, sends>>

(***************************************************************************)
(* The backend process restarts: everything it had in flight is gone.      *)
(***************************************************************************)
BackendRestart ==
    /\ faults < MaxFaults
    /\ run' = [n \in Runs |-> IdleRun]
    /\ inFlight' = {}
    /\ sending' = {}
    /\ raising' = [a \in Alerts |->
                     IF a \in BackendRules /\ raising[a] \in {"notify", "quarantine"}
                     THEN "done" ELSE raising[a]]
    /\ faults' = faults + 1
    /\ UNCHANGED <<alert, rowVars, recent, quiet, held, sends>>

\* The clock.
QuietHours ==
    /\ quiet' = ~quiet
    /\ UNCHANGED <<alert, raising, rowVars, taskVars, recent, held, sends, faults>>

GrowOld(z) ==
    /\ recent' = recent \ {z}
    /\ UNCHANGED <<alert, raising, rowVars, taskVars, quiet, held, sends, faults>>

-----------------------------------------------------------------------------
Raiser(a) == RaiseAlert(a) \/ SuggestNotification(a) \/ SuggestQuarantine(a) \/ WorkerDies(a)
Policy(n) == StartRun(n) \/ OfferOne(n) \/ ReadDue(n) \/ ClaimDue(n) \/ EndRun(n)
Execute(e) == Send(e) \/ Record(e)
Decide(d) == ApproveNotification(d) \/ ApproveQuarantine(d) \/ Reject(d)

BackendNext ==
    \/ \E a \in Alerts : Raiser(a) \/ ChangeStatus(a)
    \/ \E n \in Runs : Policy(n)
    \/ \E e \in sending : Execute(e)
    \/ \E r \in Requests, x \in Actions, op \in {"approve", "reject"} : ReadRow(r, x, op)
    \/ \E d \in inFlight : Decide(d)
    \/ BackendRestart
    \/ QuietHours
    \/ \E z \in recent \cap MayAge : GrowOld(z)

AgentNext ==
    \E p \in Polls :
        \/ FetchCommands(p)
        \/ \E x \in held[p] : (\E ok \in BOOLEAN : CompleteCommand(p, x, ok)) \/ ReportLost(p, x)

Next == BackendNext \/ AgentNext

Spec == Init /\ [][Next]_vars

(***************************************************************************)
(* Fairness.  Code past an await runs on.  The policy timer fires every    *)
(* 15 s and the hours that are not quiet last far longer, so runs start in *)
(* those hours again and again.  Nothing obliges an admin to act.          *)
(***************************************************************************)
ContinueRun(n) == OfferOne(n) \/ ReadDue(n) \/ ClaimDue(n) \/ EndRun(n)
StartOutsideQuietHours(n) == ~quiet /\ StartRun(n)
ExecuteFor(t) == \E e \in sending : e.task = t /\ Execute(e)
DecideFor(r) == \E d \in inFlight : d.task = r /\ Decide(d)

FairSpec ==
    /\ Spec
    /\ \A n \in Runs : WF_vars(ContinueRun(n)) /\ []<><<StartOutsideQuietHours(n)>>_vars
    /\ \A t \in Tasks : WF_vars(ExecuteFor(t))
    /\ \A r \in Requests : WF_vars(DecideFor(r))

-----------------------------------------------------------------------------
\* Every variable holds values of its type.
TypeOK ==
    /\ alert \in [Alerts -> AlertStatus]
    /\ raising \in [Alerts -> {"idle", "notify", "quarantine", "done"}]
    /\ status \in [Actions -> RowStatus]
    /\ decidedBy \in [Actions -> {"nobody", "admin"}]
    /\ recent \subseteq Alerts \cup Actions
    /\ quiet \in BOOLEAN
    /\ run \in [Runs -> RunState]
    /\ inFlight \subseteq Decision
    /\ sending \subseteq Execution
    /\ held \in [Polls -> SUBSET Actions]
    /\ sends \in [Actions -> Nat]
    /\ authorised \in [Actions -> SUBSET {"admin", "policy"}]
    /\ faults \in 0..MaxFaults

\* A row's notification goes to the channels at most once, whichever policy
\* runs and admin requests race for it (notificationPolicy.ts claims it first).
SentAtMostOnce == \A x \in Actions : sends[x] <= 1

\* Approve-first: a notification is sent, and a quarantine command handed to
\* the agent, only on somebody's authority; the policy's counts only for a
\* notification about an alert type chosen to be sent without approval.
ApproveFirst ==
    \A x \in Actions :
        /\ sends[x] > 0 => authorised[x] # {}
        /\ "policy" \in authorised[x] => x \in Webhooks /\ About[x] \in AutoSend
        /\ (\E p \in Polls : x \in held[p]) => "admin" \in authorised[x]

\* A recorded outcome is the outcome of a send that took place, and names an
\* admin as its decider exactly when an admin's approval claimed the row.
OutcomeIsReal ==
    \A x \in Webhooks :
        status[x] \in {"EXECUTED", "FAILED"} =>
            /\ sends[x] = 1
            /\ decidedBy[x] = "admin" <=> "admin" \in authorised[x]

\* Rejecting dismisses a suggestion without executing anything: a row that
\* reads REJECTED was not sent and is not in the agent's hands.
RejectedNeverFires ==
    \A x \in Actions :
        status[x] = "REJECTED" => sends[x] = 0 /\ \A p \in Polls : x \notin held[p]

\* An alert is given a notification only if it does not have one.
OneNotification ==
    \A x, y \in Webhooks :
        x # y /\ About[x] = About[y] => status[x] = "ABSENT" \/ status[y] = "ABSENT"

\* The machinery implements its promise: every claim is a first authorisation
\* and every send a first firing, with the rows' other changes stuttering.
Authority == INSTANCE NotificationAuthority WITH
    Notifications <- Webhooks,
    Automatic <- {x \in Webhooks : About[x] \in AutoSend},
    by <- [x \in Webhooks |-> authorised[x]],
    fired <- [x \in Webhooks |-> sends[x]]

AuthorityKept == Authority!Spec

\* A pending notification of an automatic alert type is sent, or dealt with
\* by an admin, unless it first becomes too old for the policy to look at.
AutoNotified ==
    \A x \in Webhooks :
        About[x] \in AutoSend =>
            (status[x] = "PENDING") ~> (status[x] # "PENDING" \/ x \notin recent)

\* An open alert at or above the configured severity gets a notification even
\* if its raiser died before suggesting one, unless it first becomes too old.
NotificationOffered ==
    \A a \in Offerable :
        (alert[a] = "OPEN") ~>
            \/ alert[a] # "OPEN"
            \/ a \notin recent
            \/ \E x \in Webhooks : About[x] = a /\ status[x] # "ABSENT"

\* APPROVED is no resting place for a notification: it goes on to EXECUTED or
\* FAILED.
ClaimedSettles ==
    \A x \in Webhooks : (status[x] = "APPROVED") ~> (status[x] # "APPROVED")

\* Notifications that the policy fires by itself are sent, and what it does not
\* fire is offered for approval.
NotificationsGoOut == AutoNotified /\ NotificationOffered
=============================================================================
