---------------------------- MODULE AgentSession ----------------------------
(***************************************************************************)
(* The credentials of one agent key.  POST /agents/register issues a new   *)
(* secret and invalidates the one before; every other agent route answers  *)
(* 401 to a secret that is not the current one, and 403 while the agent is *)
(* revoked.  A client that is answered 401 registers once more and tries   *)
(* again, its concurrent calls sharing one registration, and at most once  *)
(* in five seconds (agentSession.ts).  Administrators revoke, restore and  *)
(* delete the agent meanwhile.                                             *)
(*                                                                         *)
(* Secrets are numbered as they are issued; 0 is none.                     *)
(***************************************************************************)
EXTENDS Naturals

CONSTANTS
    Processes,  \* agent processes configured with the key
    Calls,      \* concurrent callers: event flush, quarantine poll, sync, ...
    Of,         \* [Calls -> Processes]
    MaxIssued,  \* bound: secrets issued in a behaviour
    MaxEvents   \* bound: losses, crashes and acts of administrators

ASSUME SessionAssumption ==
    /\ Of \in [Calls -> Processes]
    /\ MaxIssued \in Nat /\ MaxEvents \in Nat

VARIABLES
    agent,      \* the row: "absent", "active", or "revoked" (revokedAt set)
    hash,       \* its secretHash
    issued,     \* secrets issued so far
    deleting,   \* a DELETE /agents/:id has seen the agent revoked
    process,    \* "down", "starting" or "up"
    secret,     \* the session's secret
    reg,        \* the session's registration in flight: its progress
    answer,     \* the secret a registration was answered with
    cooling,    \* less than five seconds since a registration after a 401
    call,       \* each caller's request: its progress and the secret it used
    strays,     \* registrations past their check whose client has gone
    events,     \* how many bounded events have happened
    disturbed,  \* history: something but p's own registrations took p's secret
    deadline,   \* history: the last secret issued before the last revocation
    goneAgents        \* history: the processes that were up when the agent was deleted

agentVars    == <<agent, hash, issued>>
clientVars == <<process, secret, reg, answer, cooling, call>>
history    == <<disturbed, deadline, goneAgents>>
sessionVars == <<agent, hash, issued, deleting, process, secret, reg, answer, cooling,
          call, strays, events, disturbed, deadline, goneAgents>>

IdleCall == [pc |-> "idle", used |-> 0]

SessionInit ==
    /\ agent = "absent" /\ hash = 0 /\ issued = 0
    /\ deleting = FALSE
    /\ process = [p \in Processes |-> "down"]
    /\ secret = [p \in Processes |-> 0]
    /\ reg = [p \in Processes |-> "none"]
    /\ answer = [p \in Processes |-> 0]
    /\ cooling = [p \in Processes |-> FALSE]
    /\ call = [c \in Calls |-> IdleCall]
    /\ strays = 0
    /\ events = 0
    /\ disturbed = [p \in Processes |-> FALSE]
    /\ deadline = 0
    /\ goneAgents = {}

SessionEvent == events < MaxEvents /\ events' = events + 1

(***************************************************************************)
(* Registration.                                                           *)
(***************************************************************************)
StartProcess(p) ==
    /\ process[p] = "down"
    /\ process' = [process EXCEPT ![p] = "starting"]
    /\ reg' = [reg EXCEPT ![p] = "sent"]
    /\ UNCHANGED <<agentVars, deleting, secret, answer, cooling, call, strays, events, history>>

\* POST /agents/register reads the row ...
CheckRevoked(p) ==
    /\ reg[p] = "sent"
    /\ reg' = [reg EXCEPT ![p] = IF agent = "revoked" THEN "refused" ELSE "checked"]
    /\ UNCHANGED <<agentVars, deleting, process, secret, answer, cooling, call, strays, events, history>>

\* ... and upserts it: an update does not look at revokedAt again.
IssueSecret ==
    /\ issued' = issued + 1
    /\ hash' = issued'
    /\ agent' = IF agent = "absent" THEN "active" ELSE agent

WriteSecret(p) ==
    /\ reg[p] = "checked" /\ issued < MaxIssued
    /\ IssueSecret
    /\ reg' = [reg EXCEPT ![p] = "answered"]
    /\ answer' = [answer EXCEPT ![p] = issued']
    /\ disturbed' = [q \in Processes |-> q # p]
    /\ UNCHANGED <<deleting, process, secret, cooling, call, strays, events, deadline, goneAgents>>

StrayWrite ==
    /\ strays > 0 /\ issued < MaxIssued
    /\ IssueSecret
    /\ strays' = strays - 1
    /\ disturbed' = [q \in Processes |-> TRUE]
    /\ UNCHANGED <<deleting, clientVars, events, deadline, goneAgents>>

Registered(p) ==
    /\ reg[p] = "answered"
    /\ secret' = [secret EXCEPT ![p] = answer[p]]
    /\ answer' = [answer EXCEPT ![p] = 0]
    /\ reg' = [reg EXCEPT ![p] = "none"]
    /\ process' = [process EXCEPT ![p] = "up"]
    /\ UNCHANGED <<agentVars, deleting, cooling, call, strays, events, history>>

\* A failure at startup ends the process; later it only ends the attempt.
GiveUp(p) ==
    /\ process' = [process EXCEPT ![p] = IF @ = "starting" THEN "down" ELSE @]
    /\ answer' = [answer EXCEPT ![p] = 0]

\* Mutant of EndAttempt: `inflight` is not cleared after a failure.
KeepAttempt(p) == reg' = [reg EXCEPT ![p] = "stuck"]

EndAttempt(p) == reg' = [reg EXCEPT ![p] = "none"]

RefusedCall(p) ==
    /\ reg[p] = "refused"
    /\ GiveUp(p) /\ EndAttempt(p)
    /\ UNCHANGED <<agentVars, deleting, secret, cooling, call, strays, events, history>>

\* The request or its answer is lost; the handler may still be running.
RegistrationLost(p) ==
    /\ reg[p] \in {"sent", "checked", "answered"}
    /\ SessionEvent
    /\ GiveUp(p) /\ EndAttempt(p)
    /\ strays' = IF reg[p] = "checked" THEN strays + 1 ELSE strays
    /\ disturbed' = [disturbed EXCEPT ![p] = TRUE]
    /\ UNCHANGED <<agentVars, deleting, secret, cooling, call, deadline, goneAgents>>

(***************************************************************************)
(* Calls: createAgentSession's request().                                  *)
(***************************************************************************)
SendCall(c) ==
    /\ call[c].pc = "idle" /\ process[Of[c]] = "up"
    /\ call' = [call EXCEPT ![c] = [pc |-> "sent", used |-> secret[Of[c]]]]
    /\ UNCHANGED <<agentVars, deleting, process, secret, reg, answer, cooling, strays, events, history>>

\* authenticateAgent; unless it is the first 401, the caller has its answer.
Unauthorised(c) == agent # "revoked" /\ (agent = "absent" \/ hash = 0 \/ hash # call[c].used)

Authenticate(c) ==
    /\ call[c].pc \in {"sent", "resent"}
    /\ call' = [call EXCEPT ![c] = IF @.pc = "sent" /\ Unauthorised(c)
                                   THEN [@ EXCEPT !.pc = "rejected"] ELSE IdleCall]
    /\ UNCHANGED <<agentVars, deleting, process, secret, reg, answer, cooling, strays, events, history>>

\* Mutant of Stale: a 401 is a reason to register, whatever happened since.
StaleAlways(c) == TRUE

\* Nobody has re-registered since this request went out.
Stale(c) == secret[Of[c]] = call[c].used

JoinRegistration(c) ==
    /\ call[c].pc = "rejected" /\ reg[Of[c]] # "none"
    /\ call' = [call EXCEPT ![c].pc = "waiting"]
    /\ UNCHANGED <<agentVars, deleting, process, secret, reg, answer, cooling, strays, events, history>>

Reregister(c) ==
    /\ call[c].pc = "rejected" /\ reg[Of[c]] = "none"
    /\ Stale(c) /\ ~cooling[Of[c]]
    /\ reg' = [reg EXCEPT ![Of[c]] = "sent"]
    /\ cooling' = [cooling EXCEPT ![Of[c]] = TRUE]
    /\ call' = [call EXCEPT ![c].pc = "waiting"]
    /\ UNCHANGED <<agentVars, deleting, process, secret, answer, strays, events, history>>

\* The 401 is the caller's answer.
ReturnRejection(c) ==
    /\ reg[Of[c]] = "none"
    /\ \/ call[c].pc = "rejected" /\ Stale(c) /\ cooling[Of[c]]
       \/ call[c].pc = "waiting" /\ secret[Of[c]] = call[c].used
    /\ call' = [call EXCEPT ![c] = IdleCall]
    /\ UNCHANGED <<agentVars, deleting, process, secret, reg, answer, cooling, strays, events, history>>

Resend(c) ==
    /\ call[c].pc \in {"rejected", "waiting"} /\ reg[Of[c]] = "none"
    /\ secret[Of[c]] # call[c].used
    /\ call' = [call EXCEPT ![c] = [pc |-> "resent", used |-> secret[Of[c]]]]
    /\ UNCHANGED <<agentVars, deleting, process, secret, reg, answer, cooling, strays, events, history>>

FiveSecondsPass(p) ==
    /\ cooling[p]
    /\ cooling' = [cooling EXCEPT ![p] = FALSE]
    /\ UNCHANGED <<agentVars, deleting, process, secret, reg, answer, call, strays, events, history>>

Crash(p) ==
    /\ process[p] # "down"
    /\ SessionEvent
    /\ process' = [process EXCEPT ![p] = "down"]
    /\ secret' = [secret EXCEPT ![p] = 0]
    /\ reg' = [reg EXCEPT ![p] = "none"]
    /\ answer' = [answer EXCEPT ![p] = 0]
    /\ cooling' = [cooling EXCEPT ![p] = FALSE]
    /\ call' = [c \in Calls |-> IF Of[c] = p THEN IdleCall ELSE call[c]]
    /\ strays' = IF reg[p] = "checked" THEN strays + 1 ELSE strays
    /\ goneAgents' = goneAgents \ {p}
    /\ UNCHANGED <<agentVars, deleting, disturbed, deadline>>

(***************************************************************************)
(* Administrators.                                                         *)
(***************************************************************************)
\* Mutant of Revoke: the secret stays in the row.
RevokeKeepingSecret ==
    /\ agent # "absent" /\ SessionEvent
    /\ agent' = "revoked"
    /\ deadline' = issued
    /\ disturbed' = [p \in Processes |-> TRUE]
    /\ UNCHANGED <<hash, issued, deleting, clientVars, strays, goneAgents>>

Revoke ==
    /\ agent # "absent" /\ SessionEvent
    /\ agent' = "revoked" /\ hash' = 0
    /\ deadline' = issued
    /\ disturbed' = [p \in Processes |-> TRUE]
    /\ UNCHANGED <<issued, deleting, clientVars, strays, goneAgents>>

Restore ==
    /\ agent = "revoked"
    /\ agent' = "active"
    /\ UNCHANGED <<hash, issued, deleting, clientVars, strays, events, history>>

\* DELETE /agents/:id refuses an agent it does not find revoked ...
StartDelete ==
    /\ agent = "revoked" /\ ~deleting
    /\ deleting' = TRUE
    /\ UNCHANGED <<agentVars, clientVars, strays, events, history>>

\* ... and deletes it in a transaction that does not look again.
DeleteAgent ==
    /\ deleting /\ deleting' = FALSE
    /\ agent' = "absent" /\ hash' = 0
    /\ disturbed' = [p \in Processes |-> TRUE]
    /\ goneAgents' = {p \in Processes : process[p] = "up"}
    /\ UNCHANGED <<issued, clientVars, strays, events, deadline>>

\* It answers 409 when the agent has reported events for shares, and the
\* transaction may fail.
DeleteFails ==
    /\ deleting /\ deleting' = FALSE
    /\ UNCHANGED <<agentVars, clientVars, strays, events, history>>

\* The database is restored from a backup, or the row's secret is cleared.
DatabaseReset ==
    /\ agent = "active" /\ SessionEvent
    /\ hash' \in {0} \cup deadline + 1 .. issued
    /\ disturbed' = [p \in Processes |-> TRUE]
    /\ UNCHANGED <<agent, issued, deleting, clientVars, strays, deadline, goneAgents>>

-----------------------------------------------------------------------------
Registering(p) == StartProcess(p) \/ CheckRevoked(p) \/ WriteSecret(p) \/ Registered(p) \/ RefusedCall(p)
Calling(c) == SendCall(c) \/ Authenticate(c) \/ JoinRegistration(c) \/ Reregister(c) \/ ReturnRejection(c) \/ Resend(c)
Administration == Revoke \/ Restore \/ StartDelete \/ DeleteAgent \/ DeleteFails \/ DatabaseReset

SessionNext ==
    \/ \E p \in Processes : Registering(p) \/ RegistrationLost(p) \/ FiveSecondsPass(p) \/ Crash(p)
    \/ \E c \in Calls : Calling(c)
    \/ StrayWrite
    \/ Administration

SessionSpec == SessionInit /\ [][SessionNext]_sessionVars

(***************************************************************************)
(* Fairness.  A process is restarted when it ends, its handlers and timers *)
(* run on, and its callers call again and again (the polls are timers).    *)
(***************************************************************************)
SessionFairSpec ==
    /\ SessionSpec
    /\ \A p \in Processes : WF_sessionVars(Registering(p)) /\ WF_sessionVars(FiveSecondsPass(p))
    /\ \A c \in Calls : WF_sessionVars(Calling(c))

-----------------------------------------------------------------------------
\* Every variable holds values of its type.
SessionTypeOK ==
    /\ agent \in {"absent", "active", "revoked"}
    /\ issued \in Nat /\ hash \in 0..issued
    /\ deleting \in BOOLEAN
    /\ process \in [Processes -> {"down", "starting", "up"}]
    /\ secret \in [Processes -> 0..issued]
    /\ reg \in [Processes -> {"none", "sent", "checked", "refused", "answered"}]
    /\ answer \in [Processes -> 0..issued]
    /\ cooling \in [Processes -> BOOLEAN]
    /\ call \in [Calls -> [pc : {"idle", "sent", "rejected", "waiting", "resent"}, used : 0..issued]]
    /\ strays \in Nat
    /\ events \in 0..MaxEvents
    /\ disturbed \in [Processes -> BOOLEAN]
    /\ deadline \in 0..issued
    /\ goneAgents \subseteq Processes

\* A running process registers again only if something other than its own
\* registrations took its secret away: concurrent calls and late 401s never
\* make it invalidate the secret it has just been given.
RegistersForCause ==
    \A p \in Processes : process[p] = "up" /\ reg[p] \in {"sent", "checked"} => disturbed[p]

\* A secret issued before a revocation is never valid after it, neither while
\* the agent is revoked nor once it is restored.
OldSecretsDead == hash # 0 => hash > deadline

\* A process that nothing has disturbed since its last registration holds the
\* valid secret, or is about to be told it.
UndisturbedIsValid ==
    \A p \in Processes :
        process[p] = "up" /\ ~disturbed[p] =>
            agent # "absent" /\ hash = IF reg[p] = "answered" THEN answer[p] ELSE secret[p]

\* Revoking clears the secret and blocks re-registration: a revoked agent has
\* no secret that restoring it would make valid.
RevokedHasNoSecret == agent = "revoked" => hash = 0

\* An agent is deleted only while it is revoked.
OnlyRevokedDeleted == [][agent # "absent" /\ agent' = "absent" => agent = "revoked"]_sessionVars

\* A deleted agent does not reappear because a process that was running when
\* it was deleted registers again: the step that brings the row back is no
\* registration of theirs.
DeletedStaysGone ==
    [][agent = "absent" /\ agent' = "active" => \A p \in goneAgents : reg'[p] = reg[p]]_sessionVars

\* A running agent that may talk to the backend ends up with the valid secret
\* whatever went wrong before.
Recovers ==
    \A p \in Processes :
        []<>(agent # "active" \/ (process[p] = "up" /\ secret[p] = hash))

\* A revocation ends every secret issued before it, and nothing but a revocation
\* or another process ends one.
SecretsHold == OldSecretsDead /\ UndisturbedIsValid
=============================================================================
