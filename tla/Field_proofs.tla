----------------------------- MODULE Field_proofs -----------------------------
(***************************************************************************)
(* Proofs about the agents' machines: the session of an agent with the     *)
(* backend, for every set of processes and callers and every number of     *)
(* secrets and events; the installation of one, for every set of           *)
(* deployments and addresses and every number of handlers and faults; the  *)
(* watcher of the native agent, for every tree of files and folders        *)
(* directly in one and every number of changes; and the diff loop of a     *)
(* share, for every finite set of paths, every tree of folders and every   *)
(* number of changes and faults.                                           *)
(***************************************************************************)
EXTENDS AgentSession, Deployments, NativeWatch, SnapshotScan, SequenceTheorems, FiniteSetTheorems,
        WellFoundedInduction, TLAPS
-----------------------------------------------------------------------------
(***************************************************************************)
(* AgentSession.                                                           *)
(***************************************************************************)
\* Every step keeps every variable in its type.
LEMMA SessionTypeStep == SessionTypeOK /\ [SessionNext]_sessionVars => SessionTypeOK'
<1> SUFFICES ASSUME SessionTypeOK, [SessionNext]_sessionVars PROVE SessionTypeOK'
    OBVIOUS
<1> USE SessionAssumption DEF SessionTypeOK, agentVars, clientVars, history, SessionEvent
<1>1. ASSUME NEW p \in Processes, StartProcess(p) PROVE SessionTypeOK'
  BY <1>1 DEF StartProcess
<1>2. ASSUME NEW p \in Processes, CheckRevoked(p) PROVE SessionTypeOK'
  BY <1>2 DEF CheckRevoked
<1>4. ASSUME NEW p \in Processes, WriteSecret(p) PROVE SessionTypeOK'
  <2>1. /\ agent' \in {"absent", "active", "revoked"}
        /\ issued' \in Nat /\ hash' \in 0..issued' /\ deadline' \in 0..issued'
        /\ secret' \in [Processes -> 0..issued']
        /\ answer' \in [Processes -> 0..issued']
        /\ call' \in [Calls -> [pc : {"idle", "sent", "rejected", "waiting", "resent"}, used : 0..issued']]
    <3>1. issued' \in Nat /\ 0..issued \subseteq 0..issued' /\ issued' \in 0..issued'
      BY <1>4 DEF WriteSecret, IssueSecret
    <3>2. [pc : {"idle", "sent", "rejected", "waiting", "resent"}, used : 0..issued]
             \subseteq [pc : {"idle", "sent", "rejected", "waiting", "resent"}, used : 0..issued']
      BY <3>1
    <3> QED
      BY <1>4, <3>1, <3>2 DEF WriteSecret, IssueSecret
  <2> QED
    BY <1>4, <2>1 DEF WriteSecret
<1>5. ASSUME StrayWrite PROVE SessionTypeOK'
  <2>1. /\ agent' \in {"absent", "active", "revoked"}
        /\ issued' \in Nat /\ hash' \in 0..issued' /\ deadline' \in 0..issued'
        /\ secret' \in [Processes -> 0..issued'] /\ answer' \in [Processes -> 0..issued']
        /\ call' \in [Calls -> [pc : {"idle", "sent", "rejected", "waiting", "resent"}, used : 0..issued']]
    <3>1. issued' \in Nat /\ 0..issued \subseteq 0..issued' /\ issued' \in 0..issued'
      BY <1>5 DEF StrayWrite, IssueSecret
    <3>2. [pc : {"idle", "sent", "rejected", "waiting", "resent"}, used : 0..issued]
             \subseteq [pc : {"idle", "sent", "rejected", "waiting", "resent"}, used : 0..issued']
      BY <3>1
    <3> QED
      BY <1>5, <3>1, <3>2 DEF StrayWrite, IssueSecret
  <2> QED
    BY <1>5, <2>1 DEF StrayWrite
<1>6. ASSUME NEW p \in Processes, Registered(p) PROVE SessionTypeOK'
  BY <1>6 DEF Registered
<1>7. ASSUME NEW p \in Processes, RefusedCall(p) PROVE SessionTypeOK'
  BY <1>7 DEF RefusedCall, GiveUp, EndAttempt
<1>8. ASSUME NEW p \in Processes, RegistrationLost(p) PROVE SessionTypeOK'
  BY <1>8 DEF RegistrationLost, GiveUp, EndAttempt
<1>9. ASSUME NEW p \in Processes, FiveSecondsPass(p) PROVE SessionTypeOK'
  BY <1>9 DEF FiveSecondsPass
<1>10. ASSUME NEW p \in Processes, Crash(p) PROVE SessionTypeOK'
  BY <1>10 DEF Crash, IdleCall
<1>11. ASSUME NEW c \in Calls, SendCall(c) PROVE SessionTypeOK'
  BY <1>11 DEF SendCall
<1>12. ASSUME NEW c \in Calls, Authenticate(c) PROVE SessionTypeOK'
  <2>1. CASE call' = [call EXCEPT ![c] = IdleCall]
    BY <1>12, <2>1 DEF Authenticate, IdleCall
  <2>2. CASE call' = [call EXCEPT ![c].pc = "rejected"]
    BY <1>12, <2>2 DEF Authenticate
  <2> QED
    BY <1>12, <2>1, <2>2 DEF Authenticate
<1>13. ASSUME NEW c \in Calls, JoinRegistration(c) PROVE SessionTypeOK'
  BY <1>13 DEF JoinRegistration
<1>14. ASSUME NEW c \in Calls, Reregister(c) PROVE SessionTypeOK'
  BY <1>14 DEF Reregister
<1>15. ASSUME NEW c \in Calls, ReturnRejection(c) PROVE SessionTypeOK'
  BY <1>15 DEF ReturnRejection, IdleCall
<1>16. ASSUME NEW c \in Calls, Resend(c) PROVE SessionTypeOK'
  BY <1>16 DEF Resend
<1>17. ASSUME Revoke PROVE SessionTypeOK'
  BY <1>17 DEF Revoke
<1>18. ASSUME Restore PROVE SessionTypeOK'
  BY <1>18 DEF Restore
<1>19. ASSUME StartDelete PROVE SessionTypeOK'
  BY <1>19 DEF StartDelete
<1>20. ASSUME DeleteAgent PROVE SessionTypeOK'
  <2>1. hash' \in 0..issued'
    BY <1>20 DEF DeleteAgent
  <2>2. disturbed' \in [Processes -> BOOLEAN] /\ goneAgents' \subseteq Processes
    BY <1>20 DEF DeleteAgent
  <2> QED
    BY <1>20, <2>1, <2>2 DEF DeleteAgent
<1>21. ASSUME DeleteFails PROVE SessionTypeOK'
  BY <1>21 DEF DeleteFails
<1>22. ASSUME DatabaseReset PROVE SessionTypeOK'
  <2>1. events' \in 0..MaxEvents
    BY <1>22 DEF DatabaseReset
  <2>2. CASE hash' = 0
    BY <1>22, <2>1, <2>2 DEF DatabaseReset
  <2>3. CASE hash' \in deadline + 1 .. issued
    <3>1. hash' \in 0..issued
      BY <2>3
    <3> QED
      BY <1>22, <2>1, <3>1 DEF DatabaseReset
  <2> QED
    BY <1>22, <2>2, <2>3 DEF DatabaseReset
<1>23. CASE UNCHANGED sessionVars
  BY <1>23 DEF sessionVars
<1> QED
  BY <1>1, <1>2, <1>4, <1>5, <1>6, <1>7, <1>8, <1>9, <1>10, <1>11, <1>12, <1>13, <1>14, <1>15,
     <1>16, <1>17, <1>18, <1>19, <1>20, <1>21, <1>22, <1>23
     DEF SessionNext, Registering, Calling, Administration

LEMMA SessionTypeInit == SessionInit => SessionTypeOK
<1> SUFFICES ASSUME SessionInit PROVE SessionTypeOK
    OBVIOUS
<1>1. 0 \in 0..issued /\ 0 \in 0..MaxEvents /\ issued \in Nat
  BY SessionAssumption DEF SessionInit
<1>2. IdleCall \in [pc : {"idle", "sent", "rejected", "waiting", "resent"}, used : 0..issued]
  BY <1>1 DEF IdleCall
<1> QED
  BY <1>1, <1>2 DEF SessionInit, SessionTypeOK

\* Every variable holds values of its type in every reachable state.
THEOREM SessionTypeCorrect == SessionSpec => []SessionTypeOK
BY SessionTypeInit, SessionTypeStep, PTL DEF SessionSpec

-----------------------------------------------------------------------------
(***************************************************************************)
(* The inductive invariant.  A caller's 401 is a cause to register as long *)
(* as the secret it used is still the session's; what makes that one step  *)
(* inductive is that a secret just issued is newer than any secret a       *)
(* session or a call holds.                                                *)
(***************************************************************************)
AnswerIsNewest ==
    \A p \in Processes :
        reg[p] = "answered" =>
            /\ secret[p] < answer[p]
            /\ \A c \in Calls : Of[c] = p => call[c].used < answer[p]

Holds(p) == reg[p] = "answered" \/ process[p] = "up"

SecretIsHeld == \A p \in Processes : process[p] = "up" => secret[p] # 0

HolderIsValid ==
    \A p \in Processes :
        Holds(p) /\ ~disturbed[p] =>
            /\ agent # "absent"
            /\ hash = IF reg[p] = "answered" THEN answer[p] ELSE secret[p]

AttemptHasCause ==
    \A p \in Processes :
        process[p] = "up" /\ reg[p] \in {"sent", "checked", "refused"} => disturbed[p]

RejectionHasCause ==
    \A c \in Calls :
        /\ process[Of[c]] = "up" /\ reg[Of[c]] # "answered"
        /\ call[c].pc = "rejected" /\ call[c].used = secret[Of[c]]
        => disturbed[Of[c]]

SessionIInv ==
    /\ SessionTypeOK
    /\ AnswerIsNewest
    /\ SecretIsHeld
    /\ HolderIsValid
    /\ AttemptHasCause
    /\ RejectionHasCause
    /\ OldSecretsDead

LEMMA SessionIInvInit == SessionInit => SessionIInv
BY SessionTypeInit, SessionAssumption
   DEF SessionInit, SessionIInv, AnswerIsNewest, SecretIsHeld, Holds, HolderIsValid, AttemptHasCause, RejectionHasCause,
       OldSecretsDead, IdleCall

LEMMA SessionIInvStep == SessionIInv /\ [SessionNext]_sessionVars => SessionIInv'
<1> SUFFICES ASSUME SessionIInv, [SessionNext]_sessionVars PROVE SessionIInv'
    OBVIOUS
<1> USE SessionAssumption DEF agentVars, clientVars, history, SessionEvent
<1>0. SessionTypeOK /\ SessionTypeOK'
  BY SessionTypeStep DEF SessionIInv
<1> DEFINE Rest == AnswerIsNewest /\ SecretIsHeld /\ HolderIsValid /\ AttemptHasCause /\ RejectionHasCause /\ OldSecretsDead
<1> SUFFICES Rest'
    BY <1>0 DEF SessionIInv
<1> USE <1>0 DEF SessionIInv, SessionTypeOK, AnswerIsNewest, SecretIsHeld, Holds, HolderIsValid, AttemptHasCause, RejectionHasCause, OldSecretsDead
<1>1. ASSUME NEW p \in Processes, StartProcess(p) PROVE Rest'
  BY <1>1 DEF StartProcess
<1>2. ASSUME NEW p \in Processes, CheckRevoked(p) PROVE Rest'
  BY <1>2 DEF CheckRevoked
<1>4. ASSUME NEW p \in Processes, WriteSecret(p) PROVE Rest'
  <2>1. issued' = issued + 1 /\ hash' = issued' /\ agent' # "absent"
    BY <1>4 DEF WriteSecret, IssueSecret
  <2>2. AnswerIsNewest'
    BY <1>4, <2>1 DEF WriteSecret
  <2>3. HolderIsValid'
    BY <1>4, <2>1 DEF WriteSecret
  <2>4. AttemptHasCause' /\ RejectionHasCause'
    BY <1>4 DEF WriteSecret
  <2>5. SecretIsHeld' /\ OldSecretsDead'
    BY <1>4, <2>1 DEF WriteSecret
  <2> QED
    BY <2>2, <2>3, <2>4, <2>5
<1>5. ASSUME StrayWrite PROVE Rest'
  BY <1>5 DEF StrayWrite, IssueSecret
<1>6. ASSUME NEW p \in Processes, Registered(p) PROVE Rest'
  BY <1>6 DEF Registered
<1>7. ASSUME NEW p \in Processes, RefusedCall(p) PROVE Rest'
  BY <1>7 DEF RefusedCall, GiveUp, EndAttempt
<1>8. ASSUME NEW p \in Processes, RegistrationLost(p) PROVE Rest'
  BY <1>8 DEF RegistrationLost, GiveUp, EndAttempt
<1>9. ASSUME NEW p \in Processes, FiveSecondsPass(p) PROVE Rest'
  BY <1>9 DEF FiveSecondsPass
<1>10. ASSUME NEW p \in Processes, Crash(p) PROVE Rest'
  BY <1>10 DEF Crash, IdleCall
<1>11. ASSUME NEW c \in Calls, SendCall(c) PROVE Rest'
  BY <1>11 DEF SendCall
<1>12. ASSUME NEW c \in Calls, Authenticate(c) PROVE Rest'
  BY <1>12 DEF Authenticate, Unauthorised, IdleCall
<1>13. ASSUME NEW c \in Calls, JoinRegistration(c) PROVE Rest'
  BY <1>13 DEF JoinRegistration
<1>14. ASSUME NEW c \in Calls, Reregister(c) PROVE Rest'
  BY <1>14 DEF Reregister, Stale
<1>15. ASSUME NEW c \in Calls, ReturnRejection(c) PROVE Rest'
  BY <1>15 DEF ReturnRejection, IdleCall
<1>16. ASSUME NEW c \in Calls, Resend(c) PROVE Rest'
  BY <1>16 DEF Resend
<1>17. ASSUME Revoke PROVE Rest'
  BY <1>17 DEF Revoke
<1>18. ASSUME Restore PROVE Rest'
  BY <1>18 DEF Restore
<1>19. ASSUME StartDelete PROVE Rest'
  BY <1>19 DEF StartDelete
<1>20. ASSUME DeleteAgent PROVE Rest'
  BY <1>20 DEF DeleteAgent
<1>21. ASSUME DeleteFails PROVE Rest'
  BY <1>21 DEF DeleteFails
<1>22. ASSUME DatabaseReset PROVE Rest'
  BY <1>22 DEF DatabaseReset
<1>23. CASE UNCHANGED sessionVars
  BY <1>23 DEF sessionVars
<1> QED
  BY <1>1, <1>2, <1>4, <1>5, <1>6, <1>7, <1>8, <1>9, <1>10, <1>11, <1>12, <1>13, <1>14, <1>15,
     <1>16, <1>17, <1>18, <1>19, <1>20, <1>21, <1>22, <1>23
     DEF SessionNext, Registering, Calling, Administration

LEMMA SessionIInvAlways == SessionSpec => []SessionIInv
BY SessionIInvInit, SessionIInvStep, PTL DEF SessionSpec

\* A running process registers again only for cause, however its concurrent
\* calls, their late 401s and the acts of administrators interleave.
THEOREM RegistersOnlyForCause == SessionSpec => []RegistersForCause
<1>1. SessionIInv => RegistersForCause
  BY DEF SessionIInv, AttemptHasCause, RegistersForCause
<1> QED
  BY <1>1, SessionIInvAlways, PTL

\* A secret issued before a revocation is never valid after it, and a process
\* nothing has disturbed holds the valid secret: only a revocation or another
\* process ends one.
THEOREM SecretsSound == SessionSpec => []SecretsHold
<1>1. SessionIInv => OldSecretsDead
  BY DEF SessionIInv
<1>2. SessionIInv => UndisturbedIsValid
  BY DEF SessionIInv, HolderIsValid, Holds, UndisturbedIsValid
<1> QED
  BY <1>1, <1>2, SessionIInvAlways, PTL DEF SecretsHold
-----------------------------------------------------------------------------
(***************************************************************************)
(* Deployments.                                                            *)
(***************************************************************************)
\* What the steps make of a page's and of a sync's record is again one.
LEMMA PageRecords == ASSUME NEW r \in ListingState PROVE [r EXCEPT !.pc = "forget"] \in ListingState
BY DEF ListingState

LEMMA SyncRecords ==
    ASSUME NEW y \in SyncState
    PROVE  /\ [y EXCEPT !.asker = "gone"] \in SyncState
           /\ \A d \in Ids : /\ Given(y, d) \in SyncState /\ Marked(y, d) \in SyncState
                             /\ [y EXCEPT !.jobs = @ \ {d}] \in SyncState
BY DEF SyncState, Given, Marked

\* Every step keeps every variable in its type.
LEMMA DeployTypeStep == DeployTypeOK /\ [DeployNext]_deployVars => DeployTypeOK'
<1> SUFFICES ASSUME DeployTypeOK, [DeployNext]_deployVars PROVE DeployTypeOK'
    OBVIOUS
<1> USE DEF DeployTypeOK, dbVars, memVars
<1>0. IdlePost \in PostState /\ IdlePage \in ListingState /\ IdleSync \in SyncState
  BY DEF IdlePost, IdlePage, IdleSync, PostState, ListingState, SyncState
<1>1. ASSUME NEW r \in Creators, NEW d \in Ids, CheckAddress(r, d) PROVE DeployTypeOK'
  <2>1. [pc |-> "create", id |-> d] \in PostState
    BY DEF PostState
  <2> QED
    BY <1>1, <2>1 DEF CheckAddress
<1>2. ASSUME NEW r \in Creators, CreateRow(r) PROVE DeployTypeOK'
  <2>1. post[r] \in [pc : {"create", "hold", "options"}, id : Ids]
    BY <1>2 DEF CreateRow, PostState, IdlePost
  <2>2. post[r].id \in Ids /\ [post[r] EXCEPT !.pc = "hold"] \in PostState
    BY <2>1 DEF PostState
  <2> QED
    BY <1>2, <2>2 DEF CreateRow
<1>3. ASSUME NEW r \in Creators, HoldCredentials(r) PROVE DeployTypeOK'
  <2>1. post[r] \in [pc : {"create", "hold", "options"}, id : Ids]
    BY <1>3 DEF HoldCredentials, PostState, IdlePost
  <2>2. post[r].id \in Ids /\ [post[r] EXCEPT !.pc = "options"] \in PostState
    BY <2>1 DEF PostState
  <2> QED
    BY <1>3, <2>2 DEF HoldCredentials
<1>4. ASSUME NEW r \in Creators, SetInstallOptions(r) PROVE DeployTypeOK'
  <2>1. post[r].id \in Ids
    BY <1>4 DEF SetInstallOptions, PostState, IdlePost
  <2> QED
    BY <1>0, <1>4, <2>1 DEF SetInstallOptions
<1>5. ASSUME NEW d \in Ids, CredentialsExpire(d) PROVE DeployTypeOK'
  BY <1>5 DEF CredentialsExpire
<1>6. ASSUME NEW g \in DeployPages, ReadPending(g) PROVE DeployTypeOK'
  <2>1. [pc |-> "filter", rows |-> {d \in Ids : jobStatus[d] = "PENDING"}] \in ListingState
    BY DEF ListingState
  <2> QED
    BY <1>6, <2>1 DEF ReadPending
<1>7. ASSUME NEW g \in DeployPages, PickDead(g) PROVE DeployTypeOK'
  <2>1. [pc |-> "fail", rows |-> Dead(g)] \in ListingState
    BY DEF Dead, ListingState
  <2> QED
    BY <1>0, <1>7, <2>1 DEF PickDead
<1>8. ASSUME NEW g \in DeployPages, FailDead(g) PROVE DeployTypeOK'
  <2>1. [deployPage[g] EXCEPT !.pc = "forget"] \in ListingState
    BY PageRecords
  <2> QED
    BY <1>8, <2>1 DEF FailDead
<1>9. ASSUME NEW g \in DeployPages, Forget(g) PROVE DeployTypeOK'
  BY <1>0, <1>9 DEF Forget
<1>10. ASSUME NEW s \in Syncs, ReadJobs(s) PROVE DeployTypeOK'
  <2>1. [pc |-> "take", jobs |-> OldestPending, given |-> {}, asker |-> "waiting"] \in SyncState
    BY DEF OldestPending, SyncState
  <2> QED
    BY <1>10, <2>1 DEF ReadJobs
<1>11. ASSUME NEW s \in Syncs, NEW d \in Ids, TakeJob(s, d) PROVE DeployTypeOK'
  <2>1. Given(sync[s], d) \in SyncState /\ [sync[s] EXCEPT !.jobs = @ \ {d}] \in SyncState
    BY SyncRecords
  <2> QED
    BY <1>11, <2>1 DEF TakeJob
<1>12. ASSUME NEW s \in Syncs, NEW d \in Ids, MarkRunning(s, d) PROVE DeployTypeOK'
  <2>1. Marked(sync[s], d) \in SyncState
    BY SyncRecords
  <2> QED
    BY <1>12, <2>1 DEF MarkRunning
<1>13. ASSUME NEW s \in Syncs, Answer(s) PROVE DeployTypeOK'
  BY <1>0, <1>13 DEF Answer
<1>14. ASSUME NEW s \in Syncs, AnswerLost(s) PROVE DeployTypeOK'
  BY <1>0, <1>14 DEF AnswerLost
<1>15. ASSUME NEW d \in Ids, InstallerEnds(d) PROVE DeployTypeOK'
  BY <1>15 DEF InstallerEnds
<1>16. ASSUME NEW d \in Ids, Report(d) PROVE DeployTypeOK'
  BY <1>16 DEF Report, RecordResult, OutcomeRecorded
<1>17. ASSUME NEW d \in Ids, ReportThrows(d) PROVE DeployTypeOK'
  <2>1. CASE RecordResult(d)
    BY <1>17, <2>1 DEF ReportThrows, RecordResult, OutcomeRecorded
  <2>2. CASE UNCHANGED <<jobStatus, message>>
    BY <1>17, <2>2 DEF ReportThrows
  <2> QED
    BY <1>17, <2>1, <2>2 DEF ReportThrows
<1>18. ASSUME AgentGone, UNCHANGED <<dbVars, memVars, post, deployPage, result, handed>> PROVE DeployTypeOK'
  <2>1. \A s \in Syncs : [sync[s] EXCEPT !.asker = "gone"] \in SyncState
    <3>1. TAKE s \in Syncs
    <3>2. sync[s] \in SyncState
      OBVIOUS
    <3> QED
      BY <3>2, SyncRecords
  <2> QED
    BY <1>0, <1>18, <2>1 DEF AgentGone
<1>19. ASSUME DeployRestart PROVE DeployTypeOK'
  BY <1>0, <1>19 DEF DeployRestart
<1>20. CASE UNCHANGED deployVars
  BY <1>20 DEF deployVars
<1> QED
  BY <1>1, <1>2, <1>3, <1>4, <1>5, <1>6, <1>7, <1>8, <1>9, <1>10, <1>11, <1>12, <1>13, <1>14, <1>15, <1>16,
     <1>17, <1>18, <1>19, <1>20
     DEF DeployNext, Create, ContinueCreate, Listing, Syncing, Installing, Failing, RetryThrows, AgentCrash

LEMMA DeployTypeInit == DeployInit => DeployTypeOK
<1>1. IdlePost \in PostState /\ IdlePage \in ListingState /\ IdleSync \in SyncState
  BY DEF IdlePost, IdlePage, IdleSync, PostState, ListingState, SyncState
<1> QED
  BY <1>1 DEF DeployInit, DeployTypeOK

\* Every variable holds values of its type in every reachable state.
THEOREM DeployTypeCorrect == DeploySpec => []DeployTypeOK
BY DeployTypeInit, DeployTypeStep, PTL DEF DeploySpec

-----------------------------------------------------------------------------
(***************************************************************************)
(* The inductive invariant.  The credentials of a deployment are in one    *)
(* place at a time: with the POST that makes it, in the maps, in the       *)
(* answer of one sync, or with the agent.  A sync that has them looks like *)
(* any other from outside, so where they are not has to be said of each    *)
(* place: a POST still ahead of its `hold` has put nothing in the maps, a  *)
(* deployment that was given is in neither map and has no POST, and only   *)
(* rows that were created are in a map, on a page or given.                *)
(***************************************************************************)
Active(r) == post[r].pc # "idle"

OnePost == \A r, q \in Creators : Active(r) /\ Active(q) /\ post[r].id = post[q].id => r = q

PostIsFirst ==
    \A r \in Creators : Active(r) =>
        /\ handed[post[r].id] = 0 /\ \A s \in Syncs : post[r].id \notin sync[s].given
        /\ post[r].id \notin options
        /\ post[r].pc # "options" => post[r].id \notin creds
        /\ post[r].pc = "create" <=> jobStatus[post[r].id] = "ABSENT"

AbsentIsNowhere ==
    \A d \in Ids : jobStatus[d] = "ABSENT" =>
        /\ d \notin creds \cup options /\ handed[d] = 0
        /\ \A s \in Syncs : d \notin sync[s].given
        /\ \A g \in DeployPages : d \notin deployPage[g].rows

GivenIsOut ==
    \A s \in Syncs : \A d \in sync[s].given :
        /\ d \notin creds \cup options /\ handed[d] = 0
        /\ \A t \in Syncs : d \in sync[t].given => s = t

InstallIsOfHanded ==
    \A d \in Ids :
        /\ install[d] # "none" => handed[d] = 1
        /\ install[d] = "running" => jobStatus[d] # "SUCCEEDED"

DeployIInv ==
    /\ DeployTypeOK
    /\ OnePost
    /\ PostIsFirst
    /\ AbsentIsNowhere
    /\ GivenIsOut
    /\ InstallIsOfHanded
    /\ PasswordLeavesOnce
    /\ SucceededIsReal
LEMMA DeployIInvInit == DeployInit => DeployIInv
BY DeployTypeInit
   DEF DeployInit, DeployIInv, OnePost, Active, PostIsFirst, AbsentIsNowhere, GivenIsOut, InstallIsOfHanded,
       PasswordLeavesOnce, SucceededIsReal, IdlePost, IdlePage, IdleSync

LEMMA DeployIInvStep == DeployIInv /\ [DeployNext]_deployVars => DeployIInv'
<1> SUFFICES ASSUME DeployIInv, [DeployNext]_deployVars PROVE DeployIInv'
    OBVIOUS
<1> DEFINE Rest == /\ OnePost /\ PostIsFirst /\ AbsentIsNowhere /\ GivenIsOut /\ InstallIsOfHanded
                   /\ PasswordLeavesOnce /\ SucceededIsReal
<1>0. DeployTypeOK /\ DeployTypeOK' /\ Rest
  BY DeployTypeStep DEF DeployIInv
<1> SUFFICES Rest'
    BY <1>0 DEF DeployIInv
<1> USE <1>0 DEF DeployTypeOK, dbVars, memVars, Active, PostState, ListingState, SyncState, IdlePost, IdlePage, IdleSync,
                 OnePost, PostIsFirst, AbsentIsNowhere, GivenIsOut, InstallIsOfHanded, PasswordLeavesOnce, SucceededIsReal
<1>1. ASSUME NEW r \in Creators, NEW d \in Ids, CheckAddress(r, d) PROVE Rest'
  BY <1>1 DEF CheckAddress
<1>2. ASSUME NEW r \in Creators, CreateRow(r) PROVE Rest'
  BY <1>2 DEF CreateRow
<1>3. ASSUME NEW r \in Creators, HoldCredentials(r) PROVE Rest'
  <2>1. /\ Active(r) /\ post[r].pc = "hold" /\ post'[r].pc = "options" /\ post'[r].id = post[r].id
        /\ post[r].id \in Ids /\ \A q \in Creators \ {r} : post'[q] = post[q]
    BY <1>3 DEF HoldCredentials
  <2> HIDE DEF DeployTypeOK, PostState, ListingState, SyncState, IdlePost, IdlePage, IdleSync
  <2>2. OnePost'
    BY <2>1
  <2>5. PostIsFirst'
    <3> SUFFICES ASSUME NEW q \in Creators, Active(q)'
                 PROVE  /\ handed'[post'[q].id] = 0 /\ \A s \in Syncs : post'[q].id \notin sync'[s].given
                        /\ post'[q].id \notin options'
                        /\ post'[q].pc # "options" => post'[q].id \notin creds'
                        /\ post'[q].pc = "create" <=> jobStatus'[post'[q].id] = "ABSENT"
      OBVIOUS
    <3>1. CASE q = r
      BY <1>3, <2>1, <3>1 DEF HoldCredentials
    <3>2. CASE q # r
      BY <1>3, <2>1, <3>2 DEF HoldCredentials
    <3> QED
      BY <3>1, <3>2
  <2>3. AbsentIsNowhere' /\ GivenIsOut'
    BY <1>3, <2>1 DEF HoldCredentials
  <2>4. InstallIsOfHanded' /\ PasswordLeavesOnce' /\ SucceededIsReal'
    BY <1>3, <2>1 DEF HoldCredentials
  <2> QED
    BY <2>2, <2>3, <2>4, <2>5
<1>4. ASSUME NEW r \in Creators, SetInstallOptions(r) PROVE Rest'
  <2>1. /\ Active(r) /\ post[r].pc = "options" /\ post'[r].pc = "idle"
        /\ post[r].id \in Ids /\ \A q \in Creators \ {r} : post'[q] = post[q]
    BY <1>4 DEF SetInstallOptions
  <2> HIDE DEF DeployTypeOK, PostState, ListingState, SyncState, IdlePost, IdlePage, IdleSync
  <2>2. OnePost'
    BY <2>1
  <2>5. PostIsFirst'
    <3> SUFFICES ASSUME NEW q \in Creators, Active(q)'
                 PROVE  /\ handed'[post'[q].id] = 0 /\ \A s \in Syncs : post'[q].id \notin sync'[s].given
                        /\ post'[q].id \notin options'
                        /\ post'[q].pc # "options" => post'[q].id \notin creds'
                        /\ post'[q].pc = "create" <=> jobStatus'[post'[q].id] = "ABSENT"
      OBVIOUS
    <3>1. CASE q = r
      BY <1>4, <2>1, <3>1 DEF SetInstallOptions
    <3>2. CASE q # r
      BY <1>4, <2>1, <3>2 DEF SetInstallOptions
    <3> QED
      BY <3>1, <3>2
  <2>3. AbsentIsNowhere' /\ GivenIsOut'
    BY <1>4, <2>1 DEF SetInstallOptions
  <2>4. InstallIsOfHanded' /\ PasswordLeavesOnce' /\ SucceededIsReal'
    BY <1>4, <2>1 DEF SetInstallOptions
  <2> QED
    BY <2>2, <2>3, <2>4, <2>5
<1>5. ASSUME NEW d \in Ids, CredentialsExpire(d) PROVE Rest'
  BY <1>5 DEF CredentialsExpire
<1>6. ASSUME NEW g \in DeployPages, ReadPending(g) PROVE Rest'
  BY <1>6 DEF ReadPending
<1>7. ASSUME NEW g \in DeployPages, PickDead(g) PROVE Rest'
  BY <1>7 DEF PickDead, Dead
<1>8. ASSUME NEW g \in DeployPages, FailDead(g) PROVE Rest'
  BY <1>8 DEF FailDead
<1>9. ASSUME NEW g \in DeployPages, Forget(g) PROVE Rest'
  BY <1>9 DEF Forget
<1>10. ASSUME NEW s \in Syncs, ReadJobs(s) PROVE Rest'
  BY <1>10 DEF ReadJobs
<1>11. ASSUME NEW s \in Syncs, NEW d \in Ids, TakeJob(s, d) PROVE Rest'
  <2>1. /\ creds' = creds \ {d} /\ options' \subseteq options
        /\ UNCHANGED <<post, jobStatus, deployPage, handed, install, result>>
        /\ \A t \in Syncs \ {s} : sync'[t] = sync[t]
        /\ handed[d] \in Nat
    BY <1>11 DEF TakeJob
  <2>2. \/ d \in creds \cap options /\ options' = options \ {d} /\ sync'[s].given = sync[s].given \cup {d}
        \/ sync'[s].given = sync[s].given
    BY <1>11 DEF TakeJob, Given
  <2> HIDE DEF DeployTypeOK, PostState, ListingState, SyncState, IdlePost, IdlePage, IdleSync
  <2>3. OnePost'
    BY <2>1
  <2>7. PostIsFirst'
    BY <2>1, <2>2
  <2>4. AbsentIsNowhere'
    BY <2>1, <2>2
  <2>5. GivenIsOut'
    BY <2>1, <2>2
  <2>6. InstallIsOfHanded' /\ PasswordLeavesOnce' /\ SucceededIsReal'
    BY <2>1, <2>2
  <2> QED
    BY <2>3, <2>4, <2>5, <2>6, <2>7
<1>12. ASSUME NEW s \in Syncs, NEW d \in Ids, MarkRunning(s, d) PROVE Rest'
  BY <1>12 DEF MarkRunning, Marked
<1>13. ASSUME NEW s \in Syncs, Answer(s) PROVE Rest'
  BY <1>13 DEF Answer, Answered
<1>14. ASSUME NEW s \in Syncs, AnswerLost(s) PROVE Rest'
  BY <1>14 DEF AnswerLost
<1>15. ASSUME NEW d \in Ids, InstallerEnds(d) PROVE Rest'
  BY <1>15 DEF InstallerEnds
<1>16. ASSUME NEW d \in Ids, Report(d) PROVE Rest'
  <2>1. handed[d] = 1 /\ jobStatus[d] # "ABSENT" /\ jobStatus'[d] \in {"SUCCEEDED", "FAILED"}
    BY <1>16 DEF Report, RecordResult, OutcomeRecorded
  <2>2. jobStatus'[d] = "SUCCEEDED" => result[d] = "ok"
    BY <1>16 DEF Report, RecordResult, OutcomeRecorded
  <2>3. \A c \in Ids \ {d} : jobStatus'[c] = jobStatus[c] /\ install'[c] = install[c]
    BY <1>16 DEF Report, RecordResult
  <2> QED
    BY <1>16, <2>1, <2>2, <2>3 DEF Report
<1>17. ASSUME NEW d \in Ids, ReportThrows(d) PROVE Rest'
  <2>1. CASE RecordResult(d)
    BY <1>17, <2>1 DEF ReportThrows, RecordResult, OutcomeRecorded
  <2>2. CASE UNCHANGED <<jobStatus, message>>
    BY <1>17, <2>2 DEF ReportThrows
  <2> QED
    BY <1>17, <2>1, <2>2 DEF ReportThrows
<1>18. ASSUME AgentGone, UNCHANGED <<dbVars, memVars, post, deployPage, result, handed>> PROVE Rest'
  BY <1>18 DEF AgentGone
<1>19. ASSUME DeployRestart PROVE Rest'
  BY <1>19 DEF DeployRestart
<1>20. CASE UNCHANGED deployVars
  BY <1>20 DEF deployVars
<1> QED
  BY <1>1, <1>2, <1>3, <1>4, <1>5, <1>6, <1>7, <1>8, <1>9, <1>10, <1>11, <1>12, <1>13, <1>14, <1>15, <1>16,
     <1>17, <1>18, <1>19, <1>20
     DEF DeployNext, Create, ContinueCreate, Listing, Syncing, Installing, Failing, RetryThrows, AgentCrash

LEMMA DeployIInvAlways == DeploySpec => []DeployIInv
BY DeployIInvInit, DeployIInvStep, PTL DEF DeploySpec

\* The administrator's password leaves the backend's memory for an agent at
\* most once, and after it has left nothing of it is held: with any number of
\* overlapping syncs, expiries, listings and restarts.
THEOREM PasswordOnce == DeploySpec => []PasswordLeavesOnce
<1>1. DeployIInv => PasswordLeavesOnce
  BY DEF DeployIInv
<1> QED
  BY <1>1, DeployIInvAlways, PTL

\* No deployment reads SUCCEEDED that no agent collected, or whose installer
\* did not say so.
THEOREM SuccessIsReal == DeploySpec => []SucceededIsReal
<1>1. DeployIInv => SucceededIsReal
  BY DEF DeployIInv
<1> QED
  BY <1>1, DeployIInvAlways, PTL

-----------------------------------------------------------------------------
(***************************************************************************)
(* NativeWatch.                                                            *)
(*                                                                         *)
(* A file that is to be told of waits for its debounce, is about to be     *)
(* told, or a notification is still to come that leads there: one of its   *)
(* own, or that of its folder, whose walk finds it.  A notification that   *)
(* it is gone is followed by one of those, and so is the watcher's         *)
(* forgetting it; and a folder that is not watched has its notification    *)
(* still to come, after which none from inside it can be waiting.          *)
(***************************************************************************)
RawNotice == [op : {"create", "write", "remove", "rename"}, name : Names]
QueuedEvent == [type : {"CREATED", "MODIFIED", "RENAMED", "DELETED"}, path : Names, from : WPaths \cup {NoName}]
FiringEvent == [type : {"CREATED", "MODIFIED", "RENAMED"}, path : WPaths, from : WPaths \cup {NoName}]
WatchTyped ==
    /\ files \subseteq WPaths /\ folders \subseteq WFolders /\ watches \subseteq folders
    /\ known \subseteq Names /\ dirs \subseteq WFolders /\ pending \subseteq Names
    /\ renamesPending \subseteq WPaths /\ renamedFrom \in [Names -> WPaths \cup {NoName}]
    /\ agentState \in {"running", "stopping", "stopped"}
    /\ queue \in Seq(QueuedEvent)
    /\ flights \in [Flushers -> Seq(QueuedEvent)] /\ \A f \in Flushers : Len(flights[f]) <= EventBatch
    /\ firing \subseteq FiringEvent
    /\ lastTold \in [Names -> {"there", "gone", "nothing"}]
    /\ raw \in Seq(RawNotice) /\ \A i \in DOMAIN raw : raw[i].op = "rename" => raw[i].name \in WPaths

\* The notification with number i is of the file that it is gone; leads to it.
Takes(i, p) == raw[i].name = p /\ raw[i].op \in {"remove", "rename"}
Leads(i, p) == \/ raw[i].name = p /\ raw[i].op \in {"create", "write"}
               \/ raw[i].name = InFolder[p] /\ raw[i].op = "create"

FoldersStand ==
    /\ Home \in folders /\ Home \in watches
    /\ \A p \in files : InFolder[p] \in folders
NothingExcluded ==
    /\ \A n \in pending \cup known \cup renamesPending \cup owed : ~Excludes(n)
    /\ \A e \in firing : ~Excludes(e.path)
    /\ \A n \in Names : lastTold[n] # "nothing" => ~Excludes(n)
FoldersAwaited ==
    \A d \in folders \ (watches \cup Excluded) :
        \E j \in DOMAIN raw : /\ raw[j].name = d /\ raw[j].op = "create"
                              /\ \A i \in DOMAIN raw, p \in WPaths : Takes(i, p) /\ InFolder[p] = d => i < j
TakenIsFollowed ==
    \A p \in files, i \in DOMAIN raw : ~Excludes(p) /\ Takes(i, p) => \E j \in DOMAIN raw : i < j /\ Leads(j, p)
FilesAwaited ==
    \A p \in files : ~Excludes(p) => p \in known \cup pending \/ \E j \in DOMAIN raw : Leads(j, p)
OwedAwaited ==
    \A p \in owed : p \in files /\ (p \in pending \/ (\E e \in firing : e.path = p) \/ \E j \in DOMAIN raw : Leads(j, p))

WatchIInv ==
    /\ WatchTyped /\ FoldersStand /\ NothingExcluded /\ FoldersAwaited /\ TakenIsFollowed /\ FilesAwaited /\ OwedAwaited

LEMMA WatchIInvInit == WatchInit => WatchIInv
<1> SUFFICES ASSUME WatchInit PROVE WatchIInv
  OBVIOUS
<1> USE NativeWatchAssumption DEF WatchInit, Names
<1>1. WatchTyped
  BY DEF WatchTyped, Flushers
<1>2. FoldersStand /\ NothingExcluded
  BY DEF FoldersStand, NothingExcluded
<1>3. FoldersAwaited /\ TakenIsFollowed /\ FilesAwaited /\ OwedAwaited
  BY DEF FoldersAwaited, TakenIsFollowed, FilesAwaited, OwedAwaited
<1> QED
  BY <1>1, <1>2, <1>3 DEF WatchIInv

\* A file's folder is where it is; a folder that is excluded excludes its files.
LEMMA WatchNames ==
    /\ \A p \in WPaths : p \in Names /\ DirOf(p) = InFolder[p] /\ (InFolder[p] \in Excluded => Excludes(p))
                         /\ p \notin WFolders /\ InFolder[p] \in WFolders
    /\ \A d \in WFolders : d \in Names /\ DirOf(d) = Home /\ (Excludes(d) => d \in Excluded)
BY NativeWatchAssumption DEF Names, DirOf, Excludes

LEMMA WatchVarsOfSequences ==
    ASSUME WatchIInv
    PROVE  /\ raw \in Seq(RawNotice) /\ Len(raw) \in Nat /\ DOMAIN raw = 1..Len(raw)
           /\ \A i \in DOMAIN raw : raw[i] \in RawNotice
<1>1. raw \in Seq(RawNotice)
  BY DEF WatchIInv, WatchTyped
<1> QED
  BY <1>1

-----------------------------------------------------------------------------
(* The disk changes, and notices of it come after those there are. *)

DiskSound(newFiles, newFolders, written, notices) ==
    /\ newFiles \subseteq WPaths /\ newFolders \subseteq WFolders /\ Home \in newFolders
    /\ \A p \in newFiles : InFolder[p] \in newFolders
    /\ notices \in Seq(RawNotice) /\ \A i \in DOMAIN notices : notices[i].op = "rename" => notices[i].name \in WPaths
    /\ written \subseteq newFiles
    /\ \A p \in (newFiles \ files) \cup written :
          InFolder[p] \in watches => \E j \in DOMAIN notices : notices[j].name = p /\ notices[j].op \in {"create", "write"}
    /\ \A d \in newFolders \ folders : \E j \in DOMAIN notices : notices[j].name = d /\ notices[j].op = "create"
    /\ \A j \in DOMAIN notices :
          /\ DirOf(notices[j].name) \in watches
          /\ notices[j].op \in {"remove", "rename"} => notices[j].name \notin newFiles

LEMMA DiskStep ==
    ASSUME WatchIInv, NEW newFiles, NEW newFolders, NEW written, NEW notices,
           Disk(newFiles, newFolders, written, notices), DiskSound(newFiles, newFolders, written, notices)
    PROVE  WatchIInv'
<1>1. PICK n \in Nat : n = Len(raw) /\ DOMAIN raw = 1..n /\ raw \in Seq(RawNotice)
  BY WatchVarsOfSequences
<1>2. PICK m \in Nat : m = Len(notices) /\ DOMAIN notices = 1..m /\ notices \in Seq(RawNotice)
  <2>1. notices \in Seq(RawNotice)
    BY DEF DiskSound
  <2> QED
    BY <2>1
<1>3. /\ raw' \in Seq(RawNotice) /\ DOMAIN raw' = 1..(n + m)
      /\ \A i \in 1..n : raw'[i] = raw[i]
      /\ \A i \in 1..m : raw'[n + i] = notices[i]
  <2>1. raw' = raw \o notices
    BY DEF Disk
  <2> QED
    BY <1>1, <1>2, <2>1
<1>4. \A i \in DOMAIN raw' : i \in 1..n \/ \E j \in 1..m : i = n + j
  <2> SUFFICES ASSUME NEW i \in 1..(n + m), i \notin 1..n PROVE \E j \in 1..m : i = n + j
    BY <1>3
  <2>1. i - n \in 1..m /\ i = n + (i - n)
    OBVIOUS
  <2> QED
    BY <2>1
<1>5. \A j \in 1..m : n + j \in DOMAIN raw' /\ \A i \in 1..n : i < n + j
  BY <1>3
<1>6. /\ files' = newFiles /\ folders' = newFolders /\ watches' = watches \cap newFolders
      /\ owed' = {p \in owed \cup written : p \in newFiles /\ ~Excludes(p)}
      /\ UNCHANGED <<known, dirs, pending, renamesPending, renamedFrom, firing, queue, flights, agentState, lastTold>>
  BY DEF Disk, mapVars, postVars
<1>7. \A i \in DOMAIN raw' : raw'[i].op = "rename" => raw'[i].name \in WPaths
  <2> SUFFICES ASSUME NEW i \in DOMAIN raw', raw'[i].op = "rename" PROVE raw'[i].name \in WPaths
    OBVIOUS
  <2>1. CASE i \in 1..n
    BY <1>1, <1>3, <2>1 DEF WatchIInv, WatchTyped
  <2>2. CASE \E j \in 1..m : i = n + j
    BY <1>2, <1>3, <2>2 DEF DiskSound
  <2> QED
    BY <1>4, <2>1, <2>2
<1>8. WatchTyped'
  BY <1>3, <1>6, <1>7 DEF WatchIInv, WatchTyped, DiskSound
<1>9. FoldersStand' /\ NothingExcluded'
  BY <1>6 DEF WatchIInv, FoldersStand, NothingExcluded, DiskSound
<1>10. \A p : \A i \in 1..n : (Takes(i, p)' <=> Takes(i, p)) /\ (Leads(i, p)' <=> Leads(i, p))
  BY <1>3 DEF Takes, Leads
<1>11. \A i \in DOMAIN raw', p \in WPaths : Takes(i, p)' => i \in 1..n \/ (InFolder[p] \in watches /\ p \notin newFiles)
  <2> SUFFICES ASSUME NEW i \in DOMAIN raw', NEW p \in WPaths, Takes(i, p)', i \notin 1..n
               PROVE  InFolder[p] \in watches /\ p \notin newFiles
    OBVIOUS
  <2>1. PICK j \in 1..m : i = n + j
    BY <1>4
  <2>2. notices[j].name = p /\ notices[j].op \in {"remove", "rename"}
    BY <1>3, <2>1 DEF Takes
  <2> QED
    BY <1>2, <2>2, WatchNames DEF DiskSound
<1>12. FoldersAwaited'
  <2> SUFFICES ASSUME NEW d \in newFolders \ (watches' \cup Excluded)
               PROVE  \E j \in DOMAIN raw' : /\ raw'[j].name = d /\ raw'[j].op = "create"
                                             /\ \A i \in DOMAIN raw', p \in WPaths : Takes(i, p)' /\ InFolder[p] = d => i < j
    BY <1>6 DEF FoldersAwaited
  <2>1. d \notin watches
    BY <1>6
  <2>2. CASE d \in folders
    <3>1. PICK j \in 1..n : /\ raw[j].name = d /\ raw[j].op = "create"
                            /\ \A i \in 1..n, p \in WPaths : Takes(i, p) /\ InFolder[p] = d => i < j
      BY <1>1, <2>1, <2>2 DEF WatchIInv, FoldersAwaited
    <3> QED
      BY <1>3, <1>10, <1>11, <2>1, <3>1
  <2>3. CASE d \notin folders
    <3>1. PICK k \in 1..m : notices[k].name = d /\ notices[k].op = "create"
      BY <1>2, <2>3 DEF DiskSound
    <3>2. PICK j \in DOMAIN raw' : j = n + k /\ \A i \in 1..n : i < j
      BY <1>5
    <3> QED
      BY <1>3, <1>11, <2>1, <3>1, <3>2
  <2> QED
    BY <2>2, <2>3
<1>13. ASSUME NEW p \in (newFiles \ files) \cup written, ~Excludes(p)
       PROVE  \E j \in DOMAIN raw' : Leads(j, p)' /\ \A i \in DOMAIN raw' : Takes(i, p)' => i < j
  <2>1. p \in newFiles /\ p \in WPaths
    BY DEF DiskSound
  <2>2. \A i \in DOMAIN raw' : Takes(i, p)' => i \in 1..n
    BY <1>11, <2>1
  <2>3. CASE InFolder[p] \in watches
    <3>1. PICK k \in 1..m : notices[k].name = p /\ notices[k].op \in {"create", "write"}
      BY <1>2, <2>3 DEF DiskSound
    <3>2. PICK j \in DOMAIN raw' : j = n + k /\ \A i \in 1..n : i < j
      BY <1>5
    <3> QED
      BY <1>3, <2>2, <3>1, <3>2 DEF Leads
  <2>4. CASE InFolder[p] \notin watches
    <3>1. InFolder[p] \in newFolders \ (watches' \cup Excluded)
      BY <1>6, <1>13, <2>1, <2>4, WatchNames DEF DiskSound
    <3>2. PICK j \in DOMAIN raw' : /\ raw'[j].name = InFolder[p] /\ raw'[j].op = "create"
                                   /\ \A i \in DOMAIN raw', q \in WPaths : Takes(i, q)' /\ InFolder[q] = InFolder[p] => i < j
      BY <1>6, <1>12, <3>1 DEF FoldersAwaited
    <3> QED
      BY <2>1, <3>2 DEF Leads
  <2> QED
    BY <2>3, <2>4
<1>14. TakenIsFollowed'
  <2> SUFFICES ASSUME NEW p \in newFiles, NEW i \in DOMAIN raw', ~Excludes(p), Takes(i, p)'
               PROVE  \E j \in DOMAIN raw' : i < j /\ Leads(j, p)'
    BY <1>6 DEF TakenIsFollowed, Excludes
  <2>1. i \in 1..n /\ p \in WPaths
    BY <1>11 DEF DiskSound
  <2>2. CASE p \in files
    <3>1. PICK j \in 1..n : i < j /\ Leads(j, p)
      BY <1>1, <1>10, <2>1, <2>2 DEF WatchIInv, TakenIsFollowed
    <3> QED
      BY <1>3, <1>10, <3>1
  <2>3. CASE p \notin files
    BY <1>13, <2>3
  <2> QED
    BY <2>2, <2>3
<1>15. FilesAwaited'
  <2> SUFFICES ASSUME NEW p \in newFiles, ~Excludes(p)
               PROVE  p \in known \cup pending \/ \E j \in DOMAIN raw' : Leads(j, p)'
    BY <1>6 DEF FilesAwaited, Excludes
  <2>1. CASE p \in files
    <3>1. p \in known \cup pending \/ \E j \in 1..n : Leads(j, p)
      BY <1>1, <2>1 DEF WatchIInv, FilesAwaited
    <3> QED
      BY <1>3, <1>10, <3>1
  <2>2. CASE p \notin files
    BY <1>13, <2>2
  <2> QED
    BY <2>1, <2>2
<1>16. OwedAwaited'
  <2> SUFFICES ASSUME NEW p \in owed'
               PROVE  p \in newFiles /\ (p \in pending \/ (\E e \in firing : e.path = p) \/ \E j \in DOMAIN raw' : Leads(j, p)')
    BY <1>6 DEF OwedAwaited
  <2>1. p \in newFiles /\ ~Excludes(p)
    BY <1>6
  <2>2. CASE p \in owed
    <3>1. p \in pending \/ (\E e \in firing : e.path = p) \/ \E j \in 1..n : Leads(j, p)
      BY <1>1, <2>2 DEF WatchIInv, OwedAwaited
    <3> QED
      BY <1>3, <1>10, <2>1, <3>1
  <2>3. CASE p \in written
    BY <1>13, <2>1, <2>3
  <2> QED
    BY <1>6, <2>2, <2>3
<1> QED
  BY <1>8, <1>9, <1>12, <1>14, <1>15, <1>16 DEF WatchIInv

\* A notice, where there is a watch to give it.
LEMMA NoticeIs ==
    ASSUME NEW op \in {"create", "write", "remove", "rename"}, NEW name \in Names
    PROVE  /\ Notice(op, name) \in Seq(RawNotice) /\ Len(Notice(op, name)) \in {0, 1}
           /\ \A i \in DOMAIN Notice(op, name) : /\ Notice(op, name)[i].op = op /\ Notice(op, name)[i].name = name
                                                 /\ DirOf(name) \in watches
           /\ DirOf(name) \in watches =>
                 \E i \in DOMAIN Notice(op, name) : Notice(op, name)[i].op = op /\ Notice(op, name)[i].name = name
<1>1. PICK x \in RawNotice : x = [op |-> op, name |-> name]
  BY DEF RawNotice
<1>2. /\ <<x>> \in Seq(RawNotice) /\ Len(<<x>>) = 1 /\ <<x>>[1] = x /\ DOMAIN <<x>> = 1..1
      /\ <<>> \in Seq(RawNotice) /\ Len(<<>>) = 0 /\ DOMAIN <<>> = {}
  OBVIOUS
<1>3. Notice(op, name) = IF DirOf(name) \in watches THEN <<x>> ELSE <<>>
  BY <1>1 DEF Notice
<1>4. CASE DirOf(name) \in watches
  <2>1. Notice(op, name) = <<x>>
    BY <1>3, <1>4
  <2>2. \A i \in DOMAIN <<x>> : <<x>>[i] = x
    BY <1>2
  <2>3. 1 \in DOMAIN <<x>>
    BY <1>2
  <2>4. x.op = op /\ x.name = name
    BY <1>1
  <2> QED
    BY <1>2, <1>4, <2>1, <2>2, <2>3, <2>4
<1>5. CASE DirOf(name) \notin watches
  BY <1>2, <1>3, <1>5
<1> QED
  BY <1>4, <1>5

LEMMA FileChangeStep ==
    ASSUME WatchIInv, NEW p \in WPaths, CreateFile(p) \/ WriteFile(p) \/ RemoveFile(p) \/ MoveAway(p)
    PROVE  WatchIInv'
<1>1. /\ files \subseteq WPaths /\ folders \subseteq WFolders /\ Home \in folders
      /\ \A q \in files : InFolder[q] \in folders
      /\ p \in Names /\ DirOf(p) = InFolder[p]
  BY WatchNames DEF WatchIInv, WatchTyped, FoldersStand
<1>2. PICK op \in {"create", "write", "remove", "rename"}, newFiles \in {files \cup {p}, files, files \ {p}}, written \in {{p}, {}} :
         /\ Disk(newFiles, folders, written, Notice(op, p))
         /\ op \in {"create", "write"} => newFiles = files \cup {p} /\ written = {p} /\ InFolder[p] \in folders
         /\ op \in {"remove", "rename"} => newFiles = files \ {p} /\ written = {}
  <2>1. CASE CreateFile(p)
    BY <2>1 DEF CreateFile
  <2>2. CASE WriteFile(p)
    <3>1. files \cup {p} = files /\ InFolder[p] \in folders
      BY <1>1, <2>2 DEF WriteFile
    <3> QED
      BY <2>2, <3>1 DEF WriteFile
  <2>3. CASE RemoveFile(p)
    BY <2>3 DEF RemoveFile
  <2>4. CASE MoveAway(p)
    BY <2>4 DEF MoveAway
  <2> QED
    BY <2>1, <2>2, <2>3, <2>4
<1>3. PICK notices \in Seq(RawNotice) :
         /\ notices = Notice(op, p)
         /\ \A i \in DOMAIN notices : notices[i].op = op /\ notices[i].name = p /\ DirOf(p) \in watches
         /\ DirOf(p) \in watches => \E i \in DOMAIN notices : notices[i].op = op /\ notices[i].name = p
  BY <1>1, NoticeIs
<1>4. DiskSound(newFiles, folders, written, notices)
  <2>1. CASE op \in {"create", "write"}
    BY <1>1, <1>2, <1>3, <2>1 DEF DiskSound
  <2>2. CASE op \in {"remove", "rename"}
    BY <1>1, <1>2, <1>3, <2>2 DEF DiskSound
  <2> QED
    BY <2>1, <2>2
<1> QED
  BY <1>2, <1>3, <1>4, DiskStep

LEMMA RenameFileStep ==
    ASSUME WatchIInv, NEW p \in WPaths, NEW q \in WPaths, RenameFile(p, q)
    PROVE  WatchIInv'
<1>1. /\ files \subseteq WPaths /\ folders \subseteq WFolders /\ Home \in folders
      /\ \A r \in files : InFolder[r] \in folders
      /\ p \in Names /\ DirOf(p) = InFolder[p] /\ q \in Names /\ DirOf(q) = InFolder[q]
      /\ p \in files /\ q \notin files /\ InFolder[q] \in folders
  BY WatchNames DEF WatchIInv, WatchTyped, FoldersStand, RenameFile
<1>2. PICK newFiles : newFiles = (files \ {p}) \cup {q}
  OBVIOUS
<1>3. PICK gone \in Seq(RawNotice) :
         /\ gone = Notice("rename", p)
         /\ \A i \in DOMAIN gone : gone[i].op = "rename" /\ gone[i].name = p /\ DirOf(p) \in watches
  BY <1>1, NoticeIs
<1>4. PICK come \in Seq(RawNotice) :
         /\ come = Notice("create", q)
         /\ \A i \in DOMAIN come : come[i].op = "create" /\ come[i].name = q /\ DirOf(q) \in watches
         /\ DirOf(q) \in watches => \E i \in DOMAIN come : come[i].op = "create" /\ come[i].name = q
  BY <1>1, NoticeIs
<1>k. PICK k \in Nat : k = Len(gone) /\ DOMAIN gone = 1..k
  OBVIOUS
<1>m. PICK m \in Nat : m = Len(come) /\ DOMAIN come = 1..m
  OBVIOUS
<1>5. PICK notices \in Seq(RawNotice) :
         /\ notices = gone \o come /\ DOMAIN notices = 1..(k + m)
         /\ \A i \in 1..k : notices[i] = gone[i]
         /\ \A i \in 1..m : notices[k + i] = come[i]
  <2>1. gone \o come \in Seq(RawNotice) /\ Len(gone \o come) = Len(gone) + Len(come)
    BY ConcatProperties
  <2>2. DOMAIN (gone \o come) = 1..(k + m)
    BY <1>k, <1>m, <2>1
  <2>3. /\ \A i \in 1..k : (gone \o come)[i] = gone[i]
        /\ \A i \in 1..m : (gone \o come)[k + i] = come[i]
    BY <1>k, <1>m
  <2> QED
    BY <2>1, <2>2, <2>3
<1>6. \A i \in DOMAIN notices :
         \/ notices[i].op = "rename" /\ notices[i].name = p /\ DirOf(p) \in watches
         \/ notices[i].op = "create" /\ notices[i].name = q /\ DirOf(q) \in watches
  <2> SUFFICES ASSUME NEW i \in DOMAIN notices
               PROVE  \/ notices[i].op = "rename" /\ notices[i].name = p /\ DirOf(p) \in watches
                      \/ notices[i].op = "create" /\ notices[i].name = q /\ DirOf(q) \in watches
    OBVIOUS
  <2>1. i \in 1..(k + m)
    BY <1>5
  <2>2. CASE i \in 1..k
    BY <1>3, <1>k, <1>5, <2>2
  <2>3. CASE i \notin 1..k
    <3>1. PICK j \in 1..m : i = k + j
      <4>1. i - k \in 1..m /\ i = k + (i - k)
        BY <2>1, <2>3
      <4> QED
        BY <4>1
    <3> QED
      BY <1>4, <1>m, <1>5, <3>1
  <2> QED
    BY <2>2, <2>3
<1>7. DirOf(q) \in watches => \E i \in DOMAIN notices : notices[i].name = q /\ notices[i].op = "create"
  <2> SUFFICES ASSUME DirOf(q) \in watches PROVE \E i \in DOMAIN notices : notices[i].name = q /\ notices[i].op = "create"
    OBVIOUS
  <2>1. PICK j \in 1..m : come[j].op = "create" /\ come[j].name = q
    BY <1>4, <1>m
  <2>2. k + j \in DOMAIN notices /\ notices[k + j] = come[j]
    BY <1>5
  <2> QED
    BY <2>1, <2>2
<1>8. DiskSound(newFiles, folders, {q}, notices)
  BY <1>1, <1>2, <1>5, <1>6, <1>7 DEF DiskSound
<1>9. Disk(newFiles, folders, {q}, notices)
  BY <1>2, <1>3, <1>4, <1>5 DEF RenameFile
<1> QED
  BY <1>8, <1>9, DiskStep

LEMMA FolderChangeStep ==
    ASSUME WatchIInv, NEW d \in WFolders, MakeFolder(d) \/ RemoveFolder(d) \/ TouchFolder(d)
    PROVE  WatchIInv'
<1>1. /\ files \subseteq WPaths /\ folders \subseteq WFolders /\ Home \in folders /\ Home \in watches
      /\ \A q \in files : InFolder[q] \in folders
      /\ d \in Names /\ DirOf(d) = Home /\ d \notin files /\ d \notin WPaths
  BY WatchNames DEF WatchIInv, WatchTyped, FoldersStand
<1>2. PICK op \in {"create", "write", "remove"}, newFolders \in {folders \cup {d}, folders, folders \ {d}} :
         /\ Disk(files, newFolders, {}, Notice(op, d))
         /\ op = "create" => newFolders = folders \cup {d}
         /\ op = "write" => newFolders = folders
         /\ op = "remove" => newFolders = folders \ {d} /\ d # Home /\ \A p \in files : InFolder[p] # d
  BY DEF MakeFolder, RemoveFolder, TouchFolder
<1>3. PICK notices \in Seq(RawNotice) :
         /\ notices = Notice(op, d)
         /\ \A i \in DOMAIN notices : notices[i].op = op /\ notices[i].name = d /\ DirOf(d) \in watches
         /\ DirOf(d) \in watches => \E i \in DOMAIN notices : notices[i].op = op /\ notices[i].name = d
  BY <1>1, NoticeIs
<1>4. /\ newFolders \subseteq WFolders /\ Home \in newFolders /\ \A p \in files : InFolder[p] \in newFolders
      /\ newFolders \ folders \subseteq {d} /\ (newFolders \ folders # {} => op = "create")
  BY <1>1, <1>2
<1>5. DiskSound(files, newFolders, {}, notices)
  BY <1>1, <1>2, <1>3, <1>4 DEF DiskSound
<1> QED
  BY <1>2, <1>3, <1>5, DiskStep

-----------------------------------------------------------------------------
(* What is told of is not excluded, and telling of a file clears what is owed. *)

LEMMA QueuedKeeps ==
    ASSUME WatchIInv, NEW event \in QueuedEvent, Queued(event), ~Excludes(event.path)
    PROVE  /\ queue' \in Seq(QueuedEvent) /\ lastTold' \in [Names -> {"there", "gone", "nothing"}]
           /\ \A n \in Names : lastTold'[n] # "nothing" => ~Excludes(n)
           /\ owed' \subseteq owed
           /\ event.type # "DELETED" => event.path \notin owed'
<1>1. event.path \in Names
  BY DEF QueuedEvent
<1>2. queue \in Seq(QueuedEvent) /\ lastTold \in [Names -> {"there", "gone", "nothing"}]
      /\ \A n \in Names : lastTold[n] # "nothing" => ~Excludes(n)
  BY DEF WatchIInv, WatchTyped, NothingExcluded
<1>3. queue' = Append(queue, event) /\ lastTold' = [lastTold EXCEPT ![event.path] = Says(event.type)]
      /\ owed' = IF event.type = "DELETED" THEN owed ELSE owed \ {event.path}
  BY DEF Queued
<1>4. queue' \in Seq(QueuedEvent)
  BY <1>2, <1>3
<1>5. Says(event.type) \in {"there", "gone"}
  BY DEF Says
<1> QED
  BY <1>1, <1>2, <1>3, <1>4, <1>5

LEMMA EmitsKeeps ==
    ASSUME WatchIInv, NEW name \in Names, Emits(name), ~Excludes(name)
    PROVE  /\ queue' \in Seq(QueuedEvent) /\ lastTold' \in [Names -> {"there", "gone", "nothing"}]
           /\ \A n \in Names : lastTold'[n] # "nothing" => ~Excludes(n)
           /\ owed' \subseteq owed
<1>1. PICK e \in QueuedEvent : e = EventOf("DELETED", name, NoName)
  BY DEF QueuedEvent, EventOf
<1>2. Queued(e) /\ e.path = name
  BY <1>1 DEF Emits, EventOf
<1> QED
  BY <1>2, QueuedKeeps

LEMMA NothingQueuedKeeps ==
    ASSUME WatchIInv, NothingQueued
    PROVE  /\ queue' \in Seq(QueuedEvent) /\ lastTold' \in [Names -> {"there", "gone", "nothing"}]
           /\ \A n \in Names : lastTold'[n] # "nothing" => ~Excludes(n)
           /\ owed' \subseteq owed
BY DEF WatchIInv, WatchTyped, NothingExcluded, NothingQueued

-----------------------------------------------------------------------------
(* The watcher takes a notification. *)

\* What the watcher's maps become when it has taken the first notification.
MapsFollow ==
    /\ watches \subseteq watches' /\ watches' \subseteq folders
    /\ raw[1].op = "create" /\ raw[1].name \in folders \ Excluded => raw[1].name \in watches'
    /\ \A p \in files : ~Excludes(p) /\ Leads(1, p) => p \in pending'
    /\ pending \subseteq pending' /\ pending' \subseteq Names
    /\ known' \subseteq known /\ \A p \in files : p \in known \ known' => Takes(1, p)
    /\ dirs' \subseteq WFolders
    /\ renamesPending' \subseteq WPaths /\ renamedFrom' \in [Names -> WPaths \cup {NoName}]
    /\ \A n \in pending' \cup renamesPending' : ~Excludes(n)

LEMMA HandledName ==
    ASSUME WatchIInv, Handle
    PROVE  /\ raw[1] \in RawNotice /\ Head(raw) = raw[1] /\ (raw[1].op = "rename" => raw[1].name \in WPaths)
           /\ 1 \in DOMAIN raw
<1>1. raw \in Seq(RawNotice) /\ raw # <<>>
  BY WatchVarsOfSequences DEF Handle
<1>2. 1 \in DOMAIN raw /\ Head(raw) = raw[1]
  BY <1>1
<1> QED
  BY <1>2, WatchVarsOfSequences DEF WatchIInv, WatchTyped

LEMMA MapsFollowHandle ==
    ASSUME WatchIInv, Handle
    PROVE  /\ MapsFollow
           /\ queue' \in Seq(QueuedEvent) /\ lastTold' \in [Names -> {"there", "gone", "nothing"}]
           /\ \A n \in Names : lastTold'[n] # "nothing" => ~Excludes(n)
           /\ owed' \subseteq owed
<1>1. PICK r \in RawNotice : r = raw[1] /\ r = Head(raw) /\ (r.op = "rename" => r.name \in WPaths)
  BY HandledName
<1>2. PICK name \in Names : name = r.name
  BY <1>1 DEF RawNotice
<1>3. PICK op \in {"create", "write", "remove", "rename"} : op = r.op
  BY <1>1 DEF RawNotice
<1>4. \/ Excludes(name) /\ NothingQueued /\ UNCHANGED <<mapVars, watches>>
      \/ /\ ~Excludes(name)
         /\ \/ op = "create" /\ name \in folders /\ HandleFolder(name)
            \/ op = "create" /\ name \notin folders /\ HandleCreate(name)
            \/ op = "write" /\ HandleWrite(name)
            \/ op = "rename" /\ HandleRename(name)
            \/ op = "remove" /\ HandleRemove(name)
  BY <1>1, <1>2, <1>3 DEF Handle
<1>5. /\ files \subseteq WPaths /\ folders \subseteq WFolders /\ watches \subseteq folders
      /\ known \subseteq Names /\ dirs \subseteq WFolders /\ pending \subseteq Names
      /\ renamesPending \subseteq WPaths /\ renamedFrom \in [Names -> WPaths \cup {NoName}]
      /\ \A p \in files : InFolder[p] \in folders
      /\ \A n \in pending \cup renamesPending : ~Excludes(n)
  BY DEF WatchIInv, WatchTyped, FoldersStand, NothingExcluded
<1>6. /\ \A p : Leads(1, p) <=> (name = p /\ op \in {"create", "write"}) \/ (name = InFolder[p] /\ op = "create")
      /\ \A p : Takes(1, p) <=> name = p /\ op \in {"remove", "rename"}
  BY <1>1, <1>2, <1>3 DEF Leads, Takes
<1>7. SUFFICES ASSUME TRUE
               PROVE  /\ watches \subseteq watches' /\ watches' \subseteq folders
                      /\ op = "create" /\ name \in folders \ Excluded => name \in watches'
                      /\ \A p \in files : ~Excludes(p) /\ Leads(1, p) => p \in pending'
                      /\ pending \subseteq pending' /\ pending' \subseteq Names
                      /\ known' \subseteq known /\ \A p \in files : p \in known \ known' => Takes(1, p)
                      /\ dirs' \subseteq WFolders
                      /\ renamesPending' \subseteq WPaths /\ renamedFrom' \in [Names -> WPaths \cup {NoName}]
                      /\ \A n \in pending' \cup renamesPending' : ~Excludes(n)
                      /\ NothingQueued \/ (Emits(name) /\ ~Excludes(name))
  BY <1>1, <1>2, <1>3, EmitsKeeps, NothingQueuedKeeps DEF MapsFollow
<1>8. CASE Excludes(name) /\ NothingQueued /\ UNCHANGED <<mapVars, watches>>
  <2>1. ASSUME NEW p \in files, Leads(1, p), ~Excludes(p) PROVE FALSE
    BY <1>5, <1>6, <1>8, <2>1, WatchNames
  <2>2. name \in folders => name \in Excluded
    BY <1>5, <1>8, WatchNames
  <2> QED
    BY <1>5, <1>8, <2>1, <2>2 DEF mapVars
<1>9. CASE ~Excludes(name) /\ op = "create" /\ name \in folders /\ HandleFolder(name)
  <2>1. /\ watches' = watches \cup {name} /\ dirs' = dirs \cup {name}
        /\ pending' = pending \cup Walked(name)
        /\ UNCHANGED <<known, renamesPending, renamedFrom>> /\ NothingQueued
    BY <1>9 DEF HandleFolder
  <2>2. ASSUME NEW p \in files, Leads(1, p), ~Excludes(p) PROVE p \in pending'
    <3>1. InFolder[p] = name
      BY <1>5, <1>6, <1>9, <2>2, WatchNames
    <3> QED
      BY <2>1, <2>2, <3>1 DEF Walked
  <2>3. Walked(name) \subseteq Names /\ \A n \in Walked(name) : ~Excludes(n)
    BY <1>5, WatchNames DEF Walked
  <2> QED
    BY <1>5, <1>9, <2>1, <2>2, <2>3
<1>10. CASE ~Excludes(name) /\ op = "create" /\ name \notin folders /\ HandleCreate(name)
  <2>1. /\ pending' = pending \cup {name} /\ UNCHANGED <<known, dirs, watches>> /\ NothingQueued
        /\ renamesPending' \subseteq renamesPending /\ renamedFrom' \in [Names -> WPaths \cup {NoName}]
    <3>1. CASE UNCHANGED <<renamesPending, renamedFrom>>
      BY <1>5, <1>10, <3>1 DEF HandleCreate
    <3>2. CASE \E old \in Claims(name) : /\ renamesPending' = renamesPending \ {old}
                                         /\ renamedFrom' = [renamedFrom EXCEPT ![name] = old]
      <4>1. PICK old \in WPaths : /\ renamesPending' = renamesPending \ {old}
                                  /\ renamedFrom' = [renamedFrom EXCEPT ![name] = old]
        BY <1>5, <3>2 DEF Claims
      <4> QED
        BY <1>5, <1>10, <4>1 DEF HandleCreate
    <3> QED
      BY <1>10, <3>1, <3>2 DEF HandleCreate
  <2>2. ASSUME NEW p \in files, Leads(1, p), ~Excludes(p) PROVE p \in pending'
    BY <1>5, <1>6, <1>10, <2>1, <2>2, WatchNames
  <2> QED
    BY <1>5, <1>10, <2>1, <2>2
<1>11. CASE ~Excludes(name) /\ op = "write" /\ HandleWrite(name)
  <2>1. ASSUME NEW p \in files, Leads(1, p), ~Excludes(p) PROVE p \in pending'
    BY <1>6, <1>11, <2>1 DEF HandleWrite
  <2> QED
    BY <1>5, <1>11, <2>1 DEF HandleWrite
<1>12. CASE ~Excludes(name) /\ op = "rename" /\ HandleRename(name)
  <2>1. name \in WPaths /\ \A p : ~Leads(1, p)
    BY <1>1, <1>2, <1>3, <1>6, <1>12
  <2>2. \A p \in files : p \in known \ known' => Takes(1, p)
    BY <1>6, <1>12 DEF HandleRename, Forgets
  <2> QED
    BY <1>5, <1>12, <2>1, <2>2 DEF HandleRename, Forgets
<1>13. CASE ~Excludes(name) /\ op = "remove" /\ HandleRemove(name)
  <2>1. \A p : ~Leads(1, p)
    BY <1>6, <1>13
  <2>2. \A p \in files : p \in known \ known' => Takes(1, p)
    BY <1>6, <1>13 DEF HandleRemove, Forgets
  <2> QED
    BY <1>5, <1>13, <2>1, <2>2 DEF HandleRemove, Forgets
<1> QED
  BY <1>4, <1>8, <1>9, <1>10, <1>11, <1>12, <1>13

LEMMA HandleStep ==
    ASSUME WatchIInv, Handle
    PROVE  WatchIInv'
<1>1. PICK n \in Nat \ {0} : n = Len(raw) /\ DOMAIN raw = 1..n
  <2>1. raw \in Seq(RawNotice) /\ raw # <<>>
    BY WatchVarsOfSequences DEF Handle
  <2> QED
    BY <2>1
<1>2. /\ raw' \in Seq(RawNotice) /\ DOMAIN raw' = 1..(n - 1)
      /\ \A i \in 1..(n - 1) : i + 1 \in 1..n /\ raw'[i] = raw[i + 1]
  <2>1. raw' = Tail(raw) /\ raw \in Seq(RawNotice) /\ raw # <<>>
    BY WatchVarsOfSequences DEF Handle
  <2> QED
    BY <1>1, <2>1
<1>3. \A j \in 1..n : j = 1 \/ \E k \in 1..(n - 1) : j = k + 1
  <2> SUFFICES ASSUME NEW j \in 1..n, j # 1 PROVE \E k \in 1..(n - 1) : j = k + 1
    OBVIOUS
  <2>1. j - 1 \in 1..(n - 1) /\ j = (j - 1) + 1
    BY <1>1
  <2> QED
    BY <2>1
<1>4. \A i \in 1..(n - 1), k \in 1..(n - 1) : i < k <=> i + 1 < k + 1
  BY <1>1
<1>5. \A i \in 1..(n - 1), p \in WPaths : (Takes(i, p)' <=> Takes(i + 1, p)) /\ (Leads(i, p)' <=> Leads(i + 1, p))
  BY <1>2 DEF Takes, Leads
<1>6. MapsFollow
      /\ queue' \in Seq(QueuedEvent) /\ lastTold' \in [Names -> {"there", "gone", "nothing"}]
      /\ owed' \subseteq owed /\ \A x \in Names : lastTold'[x] # "nothing" => ~Excludes(x)
  BY MapsFollowHandle
<1>7. UNCHANGED <<files, folders, firing, flights, agentState>>
  BY DEF Handle, diskVars, postVars
<1>8. \A i \in DOMAIN raw' : raw'[i].op = "rename" => raw'[i].name \in WPaths
  BY <1>1, <1>2 DEF WatchIInv, WatchTyped
<1>9. WatchTyped'
  BY <1>2, <1>6, <1>7, <1>8 DEF WatchIInv, WatchTyped, MapsFollow
<1>10. FoldersStand' /\ NothingExcluded'
  BY <1>6, <1>7 DEF WatchIInv, FoldersStand, NothingExcluded, MapsFollow
<1>f. files \subseteq WPaths
  BY DEF WatchIInv, WatchTyped
<1>11. \A p \in files : ~Excludes(p) /\ (\E j \in DOMAIN raw : Leads(j, p))
                          => p \in pending' \/ \E k \in DOMAIN raw' : Leads(k, p)'
  <2> SUFFICES ASSUME NEW p \in files, ~Excludes(p), NEW j \in 1..n, Leads(j, p), p \notin pending'
               PROVE  \E k \in 1..(n - 1) : Leads(k, p)'
    BY <1>1, <1>2
  <2>1. j # 1
    BY <1>6 DEF MapsFollow
  <2>2. PICK k \in 1..(n - 1) : j = k + 1
    BY <1>3, <2>1
  <2> QED
    BY <1>5, <1>f, <2>2
<1>12. FoldersAwaited'
  <2> SUFFICES ASSUME NEW d \in folders \ (watches' \cup Excluded)
               PROVE  \E k \in DOMAIN raw' : /\ raw'[k].name = d /\ raw'[k].op = "create"
                                             /\ \A i \in DOMAIN raw', p \in WPaths : Takes(i, p)' /\ InFolder[p] = d => i < k
    BY <1>7 DEF FoldersAwaited
  <2>1. d \notin watches
    BY <1>6 DEF MapsFollow
  <2>2. PICK j \in 1..n : /\ raw[j].name = d /\ raw[j].op = "create"
                          /\ \A i \in 1..n, p \in WPaths : Takes(i, p) /\ InFolder[p] = d => i < j
    BY <1>1, <2>1 DEF WatchIInv, FoldersAwaited
  <2>3. j # 1
    BY <1>6, <2>2 DEF MapsFollow
  <2>4. PICK k \in 1..(n - 1) : j = k + 1
    BY <1>3, <2>3
  <2>5. ASSUME NEW i \in 1..(n - 1), NEW p \in WPaths, Takes(i, p)', InFolder[p] = d PROVE i < k
    <3>1. i + 1 < k + 1
      BY <1>2, <1>5, <2>2, <2>4, <2>5
    <3> QED
      BY <1>4, <3>1
  <2> QED
    BY <1>2, <2>2, <2>4, <2>5
<1>13. TakenIsFollowed'
  <2> SUFFICES ASSUME NEW p \in files, NEW i \in 1..(n - 1), ~Excludes(p), Takes(i, p)'
               PROVE  \E k \in 1..(n - 1) : i < k /\ Leads(k, p)'
    BY <1>2, <1>7 DEF TakenIsFollowed, Excludes
  <2>1. PICK j \in 1..n : i + 1 < j /\ Leads(j, p)
    BY <1>1, <1>2, <1>5, <1>f DEF WatchIInv, TakenIsFollowed
  <2>2. j # 1
    BY <1>1, <2>1
  <2>3. PICK k \in 1..(n - 1) : j = k + 1
    BY <1>3, <2>2
  <2> QED
    BY <1>4, <1>5, <1>f, <2>1, <2>3
<1>14. FilesAwaited'
  <2> SUFFICES ASSUME NEW p \in files, ~Excludes(p)
               PROVE  p \in known' \cup pending' \/ \E k \in DOMAIN raw' : Leads(k, p)'
    BY <1>7 DEF FilesAwaited, Excludes
  <2>1. CASE p \in pending
    BY <1>6, <2>1 DEF MapsFollow
  <2>2. CASE p \in known /\ p \notin known'
    <3>1. Takes(1, p) /\ 1 \in DOMAIN raw
      BY <1>1, <1>6, <2>2 DEF MapsFollow
    <3>2. \E j \in DOMAIN raw : Leads(j, p)
      BY <3>1 DEF WatchIInv, TakenIsFollowed
    <3> QED
      BY <1>11, <3>2
  <2>3. CASE \E j \in DOMAIN raw : Leads(j, p)
    BY <1>11, <2>3
  <2> QED
    BY <2>1, <2>2, <2>3 DEF WatchIInv, FilesAwaited
<1>15. OwedAwaited'
  <2> SUFFICES ASSUME NEW p \in owed'
               PROVE  p \in files /\ (p \in pending' \/ (\E e \in firing : e.path = p) \/ \E k \in DOMAIN raw' : Leads(k, p)')
    BY <1>7 DEF OwedAwaited
  <2>1. /\ p \in owed /\ p \in files /\ ~Excludes(p)
        /\ p \in pending \/ (\E e \in firing : e.path = p) \/ \E j \in DOMAIN raw : Leads(j, p)
    BY <1>6 DEF WatchIInv, OwedAwaited, NothingExcluded
  <2> QED
    BY <1>6, <1>11, <2>1 DEF MapsFollow
<1> QED
  BY <1>9, <1>10, <1>12, <1>13, <1>14, <1>15 DEF WatchIInv

-----------------------------------------------------------------------------
(* The timers, what they tell, and the queue's way to the backend. *)

\* What stands as long as neither the disk nor the notifications change.
LEMMA AwaitedStays ==
    ASSUME WatchIInv, UNCHANGED <<files, folders, watches, raw>>
    PROVE  FoldersStand' /\ FoldersAwaited' /\ TakenIsFollowed' /\ \A i, p : Leads(i, p)' <=> Leads(i, p)
<1>1. \A i, p : (Leads(i, p)' <=> Leads(i, p)) /\ (Takes(i, p)' <=> Takes(i, p))
  BY DEF Leads, Takes
<1>2. FoldersStand' /\ FoldersAwaited'
  BY <1>1 DEF WatchIInv, FoldersStand, FoldersAwaited
<1>3. TakenIsFollowed'
  BY <1>1 DEF WatchIInv, TakenIsFollowed, Excludes
<1> QED
  BY <1>1, <1>2, <1>3

LEMMA FireStep ==
    ASSUME WatchIInv, NEW name \in Names, Fire(name)
    PROVE  WatchIInv'
<1>1. /\ name \in pending /\ pending' = pending \ {name} /\ known' = known \cup {name}
      /\ UNCHANGED <<files, folders, watches, raw, dirs, renamesPending, flights, agentState, queue, owed, lastTold>>
      /\ \/ name \notin files /\ UNCHANGED <<firing, renamedFrom>>
         \/ /\ name \in files
            /\ firing' = firing \cup {EventOf(TypeAtFire(name), name, renamedFrom[name])}
            /\ renamedFrom' = [renamedFrom EXCEPT ![name] = NoName]
  BY DEF Fire, StillThere, NothingQueued, diskVars, postVars
<1>2. FoldersStand' /\ FoldersAwaited' /\ TakenIsFollowed' /\ \A i, p : Leads(i, p)' <=> Leads(i, p)
  BY <1>1, AwaitedStays
<1>3. /\ files \subseteq WPaths /\ renamedFrom \in [Names -> WPaths \cup {NoName}] /\ firing \subseteq FiringEvent
      /\ ~Excludes(name) /\ \A e \in firing : ~Excludes(e.path)
  BY <1>1 DEF WatchIInv, WatchTyped, NothingExcluded
<1>4. /\ firing' \subseteq FiringEvent /\ firing \subseteq firing' /\ renamedFrom' \in [Names -> WPaths \cup {NoName}]
      /\ name \in files => \E e \in firing' : e.path = name
      /\ \A e \in firing' : ~Excludes(e.path)
  <2>1. CASE name \notin files
    BY <1>1, <1>3, <2>1
  <2>2. CASE name \in files
    <3>1. name \in WPaths /\ TypeAtFire(name) \in {"CREATED", "MODIFIED", "RENAMED"}
      BY <1>3, <2>2 DEF TypeAtFire
    <3>t. PICK type \in {"CREATED", "MODIFIED", "RENAMED"} : type = TypeAtFire(name)
      BY <3>1
    <3>f. PICK from \in WPaths \cup {NoName} : from = renamedFrom[name]
      BY <1>3
    <3>r. [type |-> type, path |-> name, from |-> from] \in FiringEvent
      BY <3>1, <3>t, <3>f DEF FiringEvent
    <3>e. PICK e \in FiringEvent : e = [type |-> type, path |-> name, from |-> from]
      BY <3>r
    <3>p. e.path = name
      BY <3>e
    <3>2. e = EventOf(TypeAtFire(name), name, renamedFrom[name])
      BY <3>t, <3>f, <3>e DEF EventOf
    <3>3. firing' = firing \cup {e} /\ renamedFrom' = [renamedFrom EXCEPT ![name] = NoName]
      BY <1>1, <2>2, <3>2
    <3> QED
      BY <1>3, <3>p, <3>3
  <2> QED
    BY <2>1, <2>2
<1>5. WatchTyped'
  BY <1>1, <1>4 DEF WatchIInv, WatchTyped
<1>6. NothingExcluded'
  BY <1>1, <1>3, <1>4 DEF WatchIInv, NothingExcluded
<1>7. FilesAwaited'
  BY <1>1, <1>2 DEF WatchIInv, FilesAwaited, Excludes
<1>8. OwedAwaited'
  BY <1>1, <1>2, <1>4 DEF WatchIInv, OwedAwaited
<1> QED
  BY <1>2, <1>5, <1>6, <1>7, <1>8 DEF WatchIInv

LEMMA TellStep ==
    ASSUME WatchIInv, NEW event \in firing, Tell(event)
    PROVE  WatchIInv'
<1>1. /\ firing' = firing \ {event} /\ Queued(event)
      /\ UNCHANGED <<files, folders, watches, raw, known, dirs, pending, renamesPending, renamedFrom, flights, agentState>>
  BY DEF Tell, diskVars, mapVars, postVars
<1>2. event \in FiringEvent /\ ~Excludes(event.path)
  BY DEF WatchIInv, WatchTyped, NothingExcluded
<1>3. event \in QueuedEvent /\ event.type # "DELETED"
  BY <1>2 DEF FiringEvent, QueuedEvent, Names
<1>4. /\ queue' \in Seq(QueuedEvent) /\ lastTold' \in [Names -> {"there", "gone", "nothing"}]
      /\ \A n \in Names : lastTold'[n] # "nothing" => ~Excludes(n)
      /\ owed' \subseteq owed /\ event.path \notin owed'
  BY <1>1, <1>2, <1>3, QueuedKeeps
<1>5. FoldersStand' /\ FoldersAwaited' /\ TakenIsFollowed' /\ \A i, p : Leads(i, p)' <=> Leads(i, p)
  BY <1>1, AwaitedStays
<1>6. WatchTyped'
  BY <1>1, <1>4 DEF WatchIInv, WatchTyped
<1>7. NothingExcluded'
  BY <1>1, <1>4 DEF WatchIInv, NothingExcluded
<1>8. FilesAwaited'
  BY <1>1, <1>5 DEF WatchIInv, FilesAwaited, Excludes
<1>9. OwedAwaited'
  BY <1>1, <1>4, <1>5 DEF WatchIInv, OwedAwaited
<1> QED
  BY <1>5, <1>6, <1>7, <1>8, <1>9 DEF WatchIInv

LEMMA RenameLapsesStep ==
    ASSUME WatchIInv, NEW name \in Names, RenameLapses(name)
    PROVE  WatchIInv'
<1>1. /\ name \in renamesPending /\ renamesPending' = renamesPending \ {name} /\ Emits(name)
      /\ UNCHANGED <<files, folders, watches, raw, known, dirs, pending, renamedFrom, firing, flights, agentState>>
  BY DEF RenameLapses, diskVars, postVars
<1>2. /\ queue' \in Seq(QueuedEvent) /\ lastTold' \in [Names -> {"there", "gone", "nothing"}]
      /\ \A n \in Names : lastTold'[n] # "nothing" => ~Excludes(n)
      /\ owed' \subseteq owed
  BY <1>1, EmitsKeeps DEF WatchIInv, NothingExcluded
<1>3. FoldersStand' /\ FoldersAwaited' /\ TakenIsFollowed' /\ \A i, p : Leads(i, p)' <=> Leads(i, p)
  BY <1>1, AwaitedStays
<1>4. WatchTyped'
  BY <1>1, <1>2 DEF WatchIInv, WatchTyped
<1>5. NothingExcluded'
  BY <1>1, <1>2 DEF WatchIInv, NothingExcluded
<1>6. FilesAwaited' /\ OwedAwaited'
  BY <1>1, <1>2, <1>3 DEF WatchIInv, FilesAwaited, OwedAwaited, Excludes
<1> QED
  BY <1>3, <1>4, <1>5, <1>6 DEF WatchIInv

LEMMA FlushKeeps ==
    ASSUME WatchIInv, NEW f \in Flushers, Flush(f)
    PROVE  /\ queue' \in Seq(QueuedEvent) /\ flights' \in [Flushers -> Seq(QueuedEvent)]
           /\ \A g \in Flushers : Len(flights'[g]) <= EventBatch
<1>1. /\ queue \in Seq(QueuedEvent) /\ flights \in [Flushers -> Seq(QueuedEvent)]
      /\ \A g \in Flushers : Len(flights[g]) <= EventBatch
  BY DEF WatchIInv, WatchTyped
<1>2. PICK q \in Seq(QueuedEvent), len \in Nat : q = queue /\ len = Len(q)
  BY <1>1
<1>3. PICK n \in 0..len : n = Least(EventBatch, len) /\ n <= EventBatch
  BY NativeWatchAssumption DEF Least
<1>4. PICK batch : batch = SubSeq(q, 1, n)
  OBVIOUS
<1>5. batch \in Seq(QueuedEvent) /\ Len(batch) <= EventBatch
  BY <1>2, <1>3, <1>4, SubSeqProperties
<1>6. SubSeq(q, n + 1, len) \in Seq(QueuedEvent)
  BY <1>2, <1>3, SubSeqProperties
<1>7. flights' = [flights EXCEPT ![f] = batch] /\ queue' = SubSeq(q, n + 1, len)
  BY <1>2, <1>3, <1>4 DEF Flush
<1> QED
  BY <1>1, <1>5, <1>6, <1>7

LEMMA PostStep ==
    ASSUME WatchIInv, PostSteps
    PROVE  WatchIInv'
<1>1. UNCHANGED <<files, folders, watches, raw, known, dirs, pending, renamesPending, renamedFrom, firing, owed, lastTold>>
  BY DEF PostSteps, WatchRests, diskVars, mapVars
<1>2. /\ queue' \in Seq(QueuedEvent) /\ flights' \in [Flushers -> Seq(QueuedEvent)]
      /\ \A g \in Flushers : Len(flights'[g]) <= EventBatch
      /\ agentState' \in {"running", "stopping", "stopped"}
  <2>1. /\ queue \in Seq(QueuedEvent) /\ flights \in [Flushers -> Seq(QueuedEvent)]
        /\ \A g \in Flushers : Len(flights[g]) <= EventBatch
        /\ agentState \in {"running", "stopping", "stopped"}
    BY DEF WatchIInv, WatchTyped
  <2>2. CASE TickerFlushes
    BY <2>1, <2>2, FlushKeeps DEF TickerFlushes, Flushers
  <2>3. CASE AskedToStop
    <3>1. CASE queue = <<>>
      BY <2>1, <2>3, <3>1 DEF AskedToStop
    <3>2. CASE queue # <<>>
      BY <2>3, <3>2, FlushKeeps DEF AskedToStop, Flushers
    <3> QED
      BY <3>1, <3>2
  <2>4. CASE Stops
    BY <2>1, <2>4 DEF Stops
  <2>5. CASE \E f \in Flushers : Posted(f) \/ NotPosted(f)
    <3>1. PICK f \in Flushers : Landed(f)
      BY <2>5 DEF Posted, NotPosted
    <3>2. flights' = [flights EXCEPT ![f] = <<>>] /\ UNCHANGED <<queue, agentState>>
      BY <3>1 DEF Landed
    <3>n. <<>> \in Seq(QueuedEvent) /\ Len(<<>>) = 0
      OBVIOUS
    <3>3. PICK none \in Seq(QueuedEvent) : none = <<>> /\ Len(none) = 0
      BY <3>n
    <3>4. Len(none) <= EventBatch
      BY <3>3, NativeWatchAssumption
    <3> QED
      BY <2>1, <3>2, <3>3, <3>4
  <2> QED
    BY <2>2, <2>3, <2>4, <2>5 DEF PostSteps
<1>3. FoldersStand' /\ FoldersAwaited' /\ TakenIsFollowed' /\ \A i, p : Leads(i, p)' <=> Leads(i, p)
  BY <1>1, AwaitedStays
<1>4. WatchTyped'
  BY <1>1, <1>2 DEF WatchIInv, WatchTyped
<1>5. NothingExcluded'
  BY <1>1 DEF WatchIInv, NothingExcluded
<1>6. FilesAwaited' /\ OwedAwaited'
  BY <1>1, <1>3 DEF WatchIInv, FilesAwaited, OwedAwaited, Excludes
<1> QED
  BY <1>3, <1>4, <1>5, <1>6 DEF WatchIInv

LEMMA WatchIInvStep ==
    ASSUME WatchIInv, [WatchNext]_watchVars
    PROVE  WatchIInv'
<1>1. CASE DiskChanges
  <2>1. CASE \E p \in WPaths : CreateFile(p) \/ WriteFile(p) \/ RemoveFile(p) \/ MoveAway(p)
    BY <2>1, FileChangeStep
  <2>2. CASE \E p \in WPaths, q \in WPaths : RenameFile(p, q)
    BY <2>2, RenameFileStep
  <2>3. CASE \E d \in WFolders : MakeFolder(d) \/ RemoveFolder(d) \/ TouchFolder(d)
    BY <2>3, FolderChangeStep
  <2> QED
    BY <1>1, <2>1, <2>2, <2>3 DEF DiskChanges
<1>2. CASE WatchSteps
  BY <1>2, HandleStep, FireStep, RenameLapsesStep, TellStep DEF WatchSteps
<1>3. CASE PostSteps
  BY <1>3, PostStep
<1>4. CASE UNCHANGED watchVars
  <2>1. UNCHANGED <<files, folders, watches, raw, known, dirs, pending, renamesPending, renamedFrom,
                    firing, queue, flights, agentState, owed, lastTold>>
    BY <1>4 DEF watchVars
  <2>2. FoldersStand' /\ FoldersAwaited' /\ TakenIsFollowed' /\ \A i, p : Leads(i, p)' <=> Leads(i, p)
    BY <2>1, AwaitedStays
  <2>3. WatchTyped'
    BY <2>1 DEF WatchIInv, WatchTyped
  <2>4. NothingExcluded'
    BY <2>1 DEF WatchIInv, NothingExcluded
  <2>5. FilesAwaited' /\ OwedAwaited'
    BY <2>1, <2>2 DEF WatchIInv, FilesAwaited, OwedAwaited, Excludes
  <2> QED
    BY <2>2, <2>3, <2>4, <2>5 DEF WatchIInv
<1> QED
  BY <1>1, <1>2, <1>3, <1>4 DEF WatchNext

\* The watcher's maps, the queue, the batches under way and what was told of a
\* path keep their types, a watch is never left on a folder that is gone, and
\* no batch is larger than eventBatchSize.
THEOREM WatchTypeCorrect == WatchSpec => []WatchTypeOK
<1>1. WatchIInv => WatchTypeOK
  BY DEF WatchIInv, WatchTyped, WatchTypeOK, FiringEvent
<1> QED
  BY <1>1, WatchIInvInit, WatchIInvStep, PTL DEF WatchSpec

\* Once the watcher has nothing left to do, every file on disk that is not
\* excluded is known to it and its last change has been told of, whatever was
\* renamed, removed and made again meanwhile and whichever folders appeared with
\* files in them; and no event was ever about a name that is excluded.
THEOREM WatchSound == WatchSpec => []FilesTold
<1>1. ASSUME WatchIInv PROVE FilesTold
  <2>1. FilesAreTold
    <3> SUFFICES ASSUME raw = <<>> /\ pending = {} /\ firing = {}
                 PROVE  owed = {} /\ \A p \in files : Excludes(p) \/ p \in known
      BY DEF FilesAreTold, Settled
    <3>1. DOMAIN raw = {}
      OBVIOUS
    <3>2. owed = {}
      BY <1>1, <3>1 DEF WatchIInv, OwedAwaited
    <3> QED
      BY <1>1, <3>1, <3>2 DEF WatchIInv, FilesAwaited
  <2> QED
    BY <1>1, <2>1 DEF FilesTold, ExclusionHolds, WatchIInv, NothingExcluded
<1> QED
  BY <1>1, WatchIInvInit, WatchIInvStep, PTL DEF WatchSpec

-----------------------------------------------------------------------------
(***************************************************************************)
(* SnapshotScan.                                                           *)
(***************************************************************************)
\* A scan's turn is asked for before its walk begins, and what the next one compares
\* with is of the last one that came to its end.
TimesFit ==
    /\ walkAt \in Nat /\ lastWalk.at \in Nat
    /\ pc \in {"walk", "post"} => startedAt <= walkAt
    /\ ~first => since <= lastWalk.at /\ lastWalk.skipped = before

\* A walk has seen a path, found it missing, skipped its folder or still has to read
\* it; it has seen nothing beneath what it skipped or has still to read.
WalkSound ==
    pc = "walk" =>
        /\ \A p \in Paths : FolderOf[p] \in toRead \/ p \in DOMAIN seen \/ p \in missing \/ Under(p, unreadable)
        /\ \A p \in DOMAIN seen : ~Under(p, unreadable) /\ \A e \in toRead : <<FolderOf[p], e>> \notin Inside
        /\ \A d \in toRead : ~Beneath(d, unreadable)

\* An event tells of a path of the listing that came, and was not in a folder opened
\* since, or of one that went, and was not there when its folder was read.
EventTrue(e, listing, gone, walk) ==
    /\ e.type # "deleted" => e.path \in DOMAIN listing
    /\ e.type = "deleted" => e.path \in gone /\ e.path \notin DOMAIN listing
    /\ e.type = "renamed" => e.from \in gone /\ e.from \notin DOMAIN listing
    /\ e.type \in {"created", "copied", "renamed"} => ~Under(e.path, walk.skipped)
    /\ e.type = "copied" /\ e.from = NoPath => listing[e.path].mtime < walk.at

EventsTrue(q, listing, gone, walk) == \A i \in DOMAIN q : EventTrue(q[i], listing, gone, walk)

Goes(e) == e.type \in {"deleted", "renamed"}
GoneBy(e) == IF e.type = "deleted" THEN e.path ELSE e.from

\* OneReportEach, of any events.
EachOnce(q) ==
    \A i, j \in DOMAIN q :
       i # j => q[i].path # q[j].path /\ (Goes(q[i]) /\ Goes(q[j]) => GoneBy(q[i]) # GoneBy(q[j]))

OutboxTrue ==
    /\ pc # "post" \/ first => outbox = <<>>
    /\ EventsTrue(outbox, seen, missing, lastWalk)
    /\ EachOnce(outbox)

\* What is told adds up to the last listing, and what is still to be told leads to the new one.
ToldAddsUp ==
    clean /\ ~first =>
        /\ pc \in {"idle", "queued", "walk"} \/ (pc = "post" /\ ~sent) => believed = DOMAIN baseline
        /\ pc = "post" => Apply(outbox, believed) = DOMAIN seen

ScanIInv == ScanTypeOK /\ TimesFit /\ WalkSound /\ OutboxTrue /\ ToldAddsUp

LEMMA LessWellFounded ==
    IsWellFoundedOn({p \in Nat \X Nat : p[1] < p[2]}, Nat)
BY NatLessThanWellFounded DEF OpToRel

LEMMA LeastThere ==
    ASSUME NEW S \in SUBSET Nat, S # {}
    PROVE  \E m \in S : \A x \in S : m <= x
<1> DEFINE Less == {p \in Nat \X Nat : p[1] < p[2]}
<1>1. \E m \in S : \A k \in S : ~(<<k, m>> \in Less)
  <2>1. IsWellFoundedOn(Less, Nat)
    BY LessWellFounded
  <2> HIDE DEF Less
  <2> QED
    BY <2>1, WFMin, Zenon
<1>2. \A k, m \in S : ~(<<k, m>> \in Less) => m <= k
  OBVIOUS
<1> HIDE DEF Less
<1> QED
  BY <1>1, <1>2

\* Of the candidates one is chosen at most.
LEMMA SourceIsOne ==
    ASSUME NEW candidates, IsFiniteSet(candidates), NEW to
    PROVE  /\ ChooseSource(candidates, to) \subseteq candidates
           /\ \A c, d \in ChooseSource(candidates, to) : c = d
<1>1. ASSUME NEW S, IsFiniteSet(S), Cardinality(S) = 1 PROVE \A c, d \in S : c = d
  <2>1. PICK c : S = {c}
    BY <1>1, FS_Singleton
  <2> QED
    BY <2>1
<1>2. PICK same : same = {c \in candidates : BaseOf[c] = BaseOf[to]}
  OBVIOUS
<1>3. IsFiniteSet(same) /\ same \subseteq candidates
  BY <1>2, FS_Subset
<1>4. ChooseSource(candidates, to) = IF Cardinality(candidates) = 1 THEN candidates
                                     ELSE IF Cardinality(same) = 1 THEN same ELSE {}
  BY <1>2 DEF ChooseSource
<1> QED
  BY <1>1, <1>3, <1>4

\* Each vanished file explains one new path at most, and each new path is explained once.
RenamesFit(previous, current, pairs, tos) ==
    /\ pairs \subseteq [from : Vanished(previous, current), to : Appeared(previous, current)]
    /\ \A r, s \in pairs : r.from = s.from \/ r.to = s.to => r = s
    /\ \A r \in pairs : r.to \in tos

LEMMA PairOneFits ==
    ASSUME NEW previous, NEW current, NEW pairs, NEW tos, RenamesFit(previous, current, pairs, tos),
           IsFiniteSet(Vanished(previous, current)), NEW to \in Appeared(previous, current), to \notin tos
    PROVE  RenamesFit(previous, current, PairOne(previous, current, pairs, to), tos \cup {to})
<1>1. PICK V, A : V = Vanished(previous, current) /\ A = Appeared(previous, current)
  OBVIOUS
<1>2. PICK free : free = {f \in V : previous[f] = current[to] /\ \A r \in pairs : r.from # f}
  OBVIOUS
<1>3. PICK chosen : chosen = ChooseSource(free, to)
  OBVIOUS
<1>4. free \subseteq V /\ IsFiniteSet(free) /\ \A r \in pairs : r.from \notin free
  BY <1>1, <1>2, FS_Subset
<1>5. chosen \subseteq free /\ \A c, d \in chosen : c = d
  BY <1>3, <1>4, SourceIsOne
<1>6. PICK new : new = {[from |-> f, to |-> to] : f \in chosen}
  OBVIOUS
<1>7. PairOne(previous, current, pairs, to) = pairs \cup new
  BY <1>1, <1>2, <1>3, <1>6 DEF PairOne
<1>8. /\ pairs \subseteq [from : V, to : A] /\ to \in A
      /\ \A r, s \in pairs : r.from = s.from \/ r.to = s.to => r = s
      /\ \A r \in pairs : r.to \in tos
  BY <1>1 DEF RenamesFit
<1>9. /\ new \subseteq [from : V, to : A] /\ \A r \in new : r.to = to /\ r.from \in free
      /\ \A r, s \in new : r = s
  BY ONLY <1>4, <1>5, <1>6, <1>8
<1>10. /\ pairs \cup new \subseteq [from : V, to : A]
       /\ \A r \in pairs \cup new : r.to \in tos \cup {to}
  BY ONLY <1>8, <1>9
<1>11. \A r, s \in pairs \cup new : r.from = s.from \/ r.to = s.to => r = s
  BY ONLY <1>4, <1>8, <1>9, to \notin tos
<1> QED
  BY <1>1, <1>7, <1>10, <1>11 DEF RenamesFit

LEMMA PairingIs ==
    ASSUME NEW previous, NEW current, NEW walked, Len(walked) \in Nat
    PROVE  /\ Pairing(previous, current, walked)[0] = {}
           /\ \A n \in 1..Len(walked) : Pairing(previous, current, walked)[n] =
                  PairOne(previous, current, Pairing(previous, current, walked)[n - 1], walked[n])
<1> DEFINE Solves(f, m) == f = [n \in 0..m |-> IF n = 0 THEN {} ELSE PairOne(previous, current, f[n - 1], walked[n])]
           Unsolved == {m \in 0..Len(walked) : ~\E f : Solves(f, m)}
<1>1. \E f : Solves(f, 0)
  <2>1. PICK f : f = [n \in 0..0 |-> {}]
    OBVIOUS
  <2>2. f = [n \in 0..0 |-> IF n = 0 THEN {} ELSE PairOne(previous, current, f[n - 1], walked[n])]
    BY <2>1
  <2> QED
    BY <2>2
<1>2. ASSUME NEW m \in 1..Len(walked), \E f : Solves(f, m - 1) PROVE \E f : Solves(f, m)
  <2>1. PICK f : f = [n \in 0..(m - 1) |-> IF n = 0 THEN {} ELSE PairOne(previous, current, f[n - 1], walked[n])]
    BY <1>2
  <2>2. PICK new : new = PairOne(previous, current, f[m - 1], walked[m])
    OBVIOUS
  <2>3. PICK g : g = [n \in 0..m |-> IF n = m THEN new ELSE f[n]]
    OBVIOUS
  <2>4. \A n \in 0..m : g[n] = IF n = 0 THEN {} ELSE PairOne(previous, current, g[n - 1], walked[n])
    <3> SUFFICES ASSUME NEW n \in 0..m
                 PROVE  g[n] = IF n = 0 THEN {} ELSE PairOne(previous, current, g[n - 1], walked[n])
      OBVIOUS
    <3>1. m \in Nat /\ m # 0 /\ (n # m => n \in 0..(m - 1))
          /\ (n # 0 => n - 1 \in 0..(m - 1) /\ n - 1 # m /\ n - 1 \in 0..m)
      OBVIOUS
    <3>2. n # m => g[n] = f[n]
      BY <2>3
    <3>3. n # 0 => g[n - 1] = f[n - 1]
      BY <2>3, <3>1
    <3>4. n = m => g[n] = new
      BY <2>3
    <3>5. n # m => f[n] = IF n = 0 THEN {} ELSE PairOne(previous, current, f[n - 1], walked[n])
      BY <2>1, <3>1
    <3> QED
      BY <2>2, <3>1, <3>2, <3>3, <3>4, <3>5, Zenon
  <2>5. g = [n \in 0..m |-> g[n]]
    BY <2>3
  <2>6. g = [n \in 0..m |-> IF n = 0 THEN {} ELSE PairOne(previous, current, g[n - 1], walked[n])]
    BY <2>4, <2>5, Zenon
  <2> QED
    BY <2>6
<1>3. Unsolved = {}
  <2> SUFFICES ASSUME Unsolved # {} PROVE FALSE
    OBVIOUS
  <2>1. Unsolved \in SUBSET Nat /\ Unsolved \in SUBSET (0..Len(walked))
    OBVIOUS
  <2> HIDE DEF Solves
  <2>2. PICK m \in Unsolved : \A k \in Unsolved : m <= k
    <3> HIDE DEF Unsolved
    <3> QED
      BY <2>1, LeastThere
  <2>3. m \in 0..Len(walked) /\ ~\E f : Solves(f, m)
    BY <2>2
  <2>4. m # 0
    BY <1>1, <2>3
  <2>5. m \in 1..Len(walked) /\ m - 1 \in 0..Len(walked) /\ ~(m <= m - 1)
    BY <2>3, <2>4
  <2>6. \E f : Solves(f, m - 1)
    BY <2>2, <2>5
  <2> QED
    BY <1>2, <2>3, <2>5, <2>6
<1>4. \E f : Solves(f, Len(walked))
  <2>1. Len(walked) \in 0..Len(walked)
    OBVIOUS
  <2> HIDE DEF Solves
  <2> QED
    BY <1>3, <2>1
<1>5. Solves(Pairing(previous, current, walked), Len(walked))
  BY <1>4 DEF Pairing
<1>6. PICK f : f = Pairing(previous, current, walked)
  OBVIOUS
<1>7. f = [n \in 0..Len(walked) |-> IF n = 0 THEN {} ELSE PairOne(previous, current, f[n - 1], walked[n])]
  BY <1>5, <1>6
<1>8. f[0] = {} /\ \A n \in 1..Len(walked) : f[n] = PairOne(previous, current, f[n - 1], walked[n])
  <2>1. \A n \in 0..Len(walked) : f[n] = IF n = 0 THEN {} ELSE PairOne(previous, current, f[n - 1], walked[n])
    <3> DEFINE Value(n) == IF n = 0 THEN {} ELSE PairOne(previous, current, f[n - 1], walked[n])
    <3>1. f = [n \in 0..Len(walked) |-> Value(n)]
      BY <1>7
    <3> HIDE DEF Value
    <3>2. \A n \in 0..Len(walked) : f[n] = Value(n)
      BY <3>1
    <3> QED
      BY <3>2 DEF Value
  <2>2. 0 \in 0..Len(walked) /\ \A n \in 1..Len(walked) : n \in 0..Len(walked) /\ n # 0
    OBVIOUS
  <2> QED
    BY <2>1, <2>2, Zenon
<1> QED
  BY <1>6, <1>8

LEMMA RenamesFitAll ==
    ASSUME NEW previous, NEW current, NEW walked \in SetToSeqs(Appeared(previous, current)),
           IsFiniteSet(Vanished(previous, current)), IsFiniteSet(Appeared(previous, current))
    PROVE  RenamesFit(previous, current, PairRenames(previous, current, walked), Appeared(previous, current))
<1>1. PICK A : A = Appeared(previous, current)
  OBVIOUS
<1>2. PICK m \in Nat : m = Cardinality(A)
  BY <1>1, FS_CardinalityType
<1>3. walked \in [1..m -> A] /\ \A i, j \in 1..m : i # j => walked[i] # walked[j]
  BY <1>1, <1>2 DEF SetToSeqs
<1>4. Len(walked) = m
  BY <1>2, <1>3
<1> DEFINE Told(n) == {walked[i] : i \in 1..n}
           Fits(n) == RenamesFit(previous, current, Pairing(previous, current, walked)[n], Told(n))
           Wrong == {n \in 0..m : ~Fits(n)}
<1>5. Fits(0)
  <2>1. Pairing(previous, current, walked)[0] = {}
    BY <1>2, <1>4, PairingIs
  <2> QED
    BY <2>1 DEF RenamesFit
<1>6. ASSUME NEW n \in 1..m, Fits(n - 1) PROVE Fits(n)
  <2>1. Pairing(previous, current, walked)[n] = PairOne(previous, current, Pairing(previous, current, walked)[n - 1], walked[n])
    BY <1>2, <1>4, PairingIs
  <2>2. walked[n] \in A /\ walked[n] \notin Told(n - 1)
    BY <1>2, <1>3
  <2>3. Told(n) = Told(n - 1) \cup {walked[n]}
    BY <1>2
  <2> HIDE DEF Told
  <2> QED
    BY <1>1, <1>6, <2>1, <2>2, <2>3, PairOneFits
<1>7. Wrong = {}
  <2> SUFFICES ASSUME Wrong # {} PROVE FALSE
    OBVIOUS
  <2>1. Wrong \in SUBSET Nat
    BY <1>2
  <2> HIDE DEF Fits
  <2>2. PICK n \in Wrong : \A k \in Wrong : n <= k
    <3> HIDE DEF Wrong
    <3> QED
      BY <2>1, LeastThere
  <2>3. n \in 0..m /\ ~Fits(n) /\ n # 0
    BY <1>5, <2>2
  <2>4. n \in 1..m /\ n - 1 \in 0..m /\ ~(n <= n - 1)
    BY <1>2, <2>3
  <2>5. Fits(n - 1)
    BY <2>2, <2>4
  <2> QED
    BY <1>6, <2>3, <2>4, <2>5
<1>8. Fits(m)
  <2>1. m \in 0..m
    BY <1>2
  <2> HIDE DEF Fits
  <2> QED
    BY <1>7, <2>1
<1>9. Told(m) \subseteq A
  BY <1>3
<1> QED
  BY <1>1, <1>4, <1>8, <1>9 DEF RenamesFit, PairRenames

\* A sequence that names every element of a set once.
Lists(q, S) ==
    /\ q \in Seq(S)
    /\ \A x \in S : \E i \in DOMAIN q : q[i] = x
    /\ \A i, j \in DOMAIN q : q[i] = q[j] => i = j

LEMMA SetToSeqLists == ASSUME NEW S, IsFiniteSet(S) PROVE Lists(SetToSeq(S), S)
<1>1. Cardinality(S) \in Nat /\ ExistsBijection(1..Cardinality(S), S)
  BY FS_CardinalityType
<1>2. PICK f \in [1..Cardinality(S) -> S] : IsInjective(f)
  BY <1>1 DEF ExistsBijection, Bijection, Injection, IsInjective
<1>3. SetToSeq(S) \in [1..Cardinality(S) -> S] /\ IsInjective(SetToSeq(S))
  BY <1>2 DEF SetToSeq
<1>4. SetToSeq(S) \in Seq(S)
  BY <1>1, <1>3, SeqDef
<1>5. SetToSeq(S) \in Surjection(1..Cardinality(S), S)
  <2>1. SetToSeq(S) \in Injection(1..Cardinality(S), S)
    BY <1>3 DEF IsInjective, Injection
  <2>2. Cardinality(1..Cardinality(S)) = Cardinality(S)
    BY <1>1, FS_Interval
  <2> QED
    BY <2>1, <2>2, FS_Injection
<1>6. \A x \in S : \E n \in DOMAIN SetToSeq(S) : SetToSeq(S)[n] = x
  BY <1>3, <1>5 DEF Surjection
<1> QED
  BY <1>3, <1>4, <1>6 DEF IsInjective, Lists

LEMMA ConcatLists ==
    ASSUME NEW S, NEW T, NEW p, NEW q, Lists(p, S), Lists(q, T), S \cap T = {}
    PROVE  Lists(p \o q, S \cup T)
<1>1. p \in Seq(S \cup T) /\ q \in Seq(S \cup T) /\ p \in Seq(S) /\ q \in Seq(T)
  <2>1. Seq(S) \subseteq Seq(S \cup T) /\ Seq(T) \subseteq Seq(S \cup T)
    OBVIOUS
  <2> QED
    BY <2>1 DEF Lists
<1>2. PICK m, n \in Nat : m = Len(p) /\ n = Len(q)
  BY <1>1
<1>3. PICK r : r = p \o q
  OBVIOUS
<1>4. /\ r \in Seq(S \cup T) /\ DOMAIN r = 1..(m + n) /\ DOMAIN p = 1..m /\ DOMAIN q = 1..n
      /\ \A i \in 1..m : r[i] = p[i] /\ p[i] \in S
      /\ \A i \in 1..n : r[m + i] = q[i] /\ q[i] \in T
  <2>1. r \in Seq(S \cup T) /\ Len(r) = m + n
    BY <1>1, <1>2, <1>3
  <2>2. DOMAIN r = 1..(m + n) /\ DOMAIN p = 1..m /\ DOMAIN q = 1..n
    BY <1>1, <1>2, <2>1
  <2>3. \A i \in 1..m : r[i] = p[i] /\ p[i] \in S
    BY <1>1, <1>2, <1>3
  <2>4. \A i \in 1..n : r[m + i] = q[i] /\ q[i] \in T
    BY <1>1, <1>2, <1>3
  <2> QED
    BY <2>1, <2>2, <2>3, <2>4
<1>5. \A i \in (m + 1)..(m + n) : i - m \in 1..n /\ r[i] = q[i - m] /\ r[i] \in T
  <2> SUFFICES ASSUME NEW i \in (m + 1)..(m + n) PROVE i - m \in 1..n /\ r[i] = q[i - m] /\ r[i] \in T
    OBVIOUS
  <2>1. i - m \in 1..n /\ m + (i - m) = i
    BY <1>2
  <2> QED
    BY <1>4, <2>1
<1>6. \A x \in S \cup T : \E i \in DOMAIN r : r[i] = x
  <2>1. ASSUME NEW x \in S PROVE \E i \in DOMAIN r : r[i] = x
    <3>1. PICK i \in DOMAIN p : p[i] = x
      BY DEF Lists
    <3>2. i \in 1..(m + n) /\ i \in 1..m
      BY <1>2, <1>4
    <3> QED
      BY <1>4, <3>1, <3>2
  <2>2. ASSUME NEW x \in T PROVE \E i \in DOMAIN r : r[i] = x
    <3>1. PICK i \in DOMAIN q : q[i] = x
      BY DEF Lists
    <3>2. m + i \in 1..(m + n) /\ i \in 1..n
      BY <1>2, <1>4
    <3> QED
      BY <1>4, <3>1, <3>2
  <2> QED
    BY <2>1, <2>2
<1>7. ASSUME NEW i \in DOMAIN r, NEW j \in DOMAIN r, r[i] = r[j] PROVE i = j
  <2>1. (i \in 1..m \/ i \in (m + 1)..(m + n)) /\ (j \in 1..m \/ j \in (m + 1)..(m + n))
    BY <1>2, <1>4
  <2>2. CASE i \in 1..m /\ j \in 1..m
    BY <1>4, <1>7, <2>2 DEF Lists
  <2>3. CASE i \in (m + 1)..(m + n) /\ j \in (m + 1)..(m + n)
    <3>1. i - m \in DOMAIN q /\ j - m \in DOMAIN q /\ q[i - m] = q[j - m]
      BY <1>4, <1>5, <1>7, <2>3
    <3>2. i - m = j - m
      BY <3>1 DEF Lists
    <3> QED
      BY <1>2, <2>3, <3>2
  <2>4. CASE (i \in 1..m /\ j \in (m + 1)..(m + n)) \/ (j \in 1..m /\ i \in (m + 1)..(m + n))
    BY <1>4, <1>5, <1>7, <2>4
  <2> QED
    BY <2>1, <2>2, <2>3, <2>4
<1> QED
  BY <1>3, <1>4, <1>6, <1>7 DEF Lists

LEMMA ImageFinite ==
    ASSUME NEW f, IsFiniteSet(DOMAIN f), f = [x \in DOMAIN f |-> f[x]]
    PROVE  IsFiniteSet({f[x] : x \in DOMAIN f})
<1>1. PICK S, T : S = DOMAIN f /\ T = {f[x] : x \in DOMAIN f}
  OBVIOUS
<1>2. f \in Surjection(S, T)
  BY <1>1 DEF Surjection
<1>3. IsFiniteSet(T)
  BY <1>1, <1>2, FS_Surjection DEF ExistsSurjection
<1> QED
  BY <1>1, <1>3

\* The events of a comparison tell of every path that came or went, of each once.
EventsFit(E, previous, current) ==
    /\ E \subseteq Event
    /\ \A e \in E :
         /\ e.type # "deleted" => e.path \in DOMAIN current
         /\ Goes(e) => GoneBy(e) \in Vanished(previous, current)
         /\ e.type \in {"created", "copied", "renamed"} => e.path \in Appeared(previous, current)
         /\ e.type = "copied" /\ e.from = NoPath => current[e.path].mtime < since
    /\ \A d, e \in E : d.path = e.path => d = e
    /\ \A d, e \in E : Goes(d) /\ Goes(e) /\ GoneBy(d) = GoneBy(e) => d = e
    /\ \A p \in Appeared(previous, current) : \E e \in E : e.type # "deleted" /\ e.path = p
    /\ \A p \in Vanished(previous, current) : \E e \in E : Goes(e) /\ GoneBy(e) = p

LEMMA ChangesFinite ==
    ASSUME NEW previous, NEW current, IsListing(previous), IsListing(current)
    PROVE  /\ IsFiniteSet(Vanished(previous, current)) /\ Vanished(previous, current) \subseteq Paths
           /\ IsFiniteSet(Appeared(previous, current)) /\ Appeared(previous, current) \subseteq Paths
           /\ IsFiniteSet(Modified(previous, current)) /\ Modified(previous, current) \subseteq Paths
<1>1. /\ Vanished(previous, current) \subseteq Paths /\ Appeared(previous, current) \subseteq Paths
      /\ Modified(previous, current) \subseteq Paths
  BY DEF Vanished, Appeared, Modified, IsListing
<1> QED
  BY <1>1, ScanAssumption, FS_Subset

\* The copies are of new paths; the source of each, if it has one, is a path.
LEMMA CopiesFit ==
    ASSUME NEW previous, NEW current, IsListing(previous), IsListing(current), NEW created \in SUBSET Paths,
           NEW K, K = PairCopies(created, previous, current, since)
    PROVE  /\ \A c \in K : /\ c.to \in created /\ c.from \subseteq Paths
                           /\ c.from = {} => current[c.to].mtime < since
           /\ \A c, d \in K : c.to = d.to => c = d
           /\ IsFiniteSet(K)
<1> DEFINE Source(p) == ChooseSource(Survivors(previous, current, p), p)
<1>1. PICK C : C = {c \in created : Source(c) # {} \/ current[c].mtime < since}
  OBVIOUS
<1>2. K = {[from |-> Source(p), to |-> p] : p \in C}
  BY <1>1 DEF PairCopies
<1>3. \A p : Source(p) \subseteq Paths
  <2> SUFFICES ASSUME NEW p PROVE Source(p) \subseteq Paths
    OBVIOUS
  <2>1. Survivors(previous, current, p) \subseteq Paths
    BY DEF Survivors, IsListing
  <2>2. IsFiniteSet(Survivors(previous, current, p))
    BY <2>1, ScanAssumption, FS_Subset
  <2> QED
    BY <2>1, <2>2, SourceIsOne
<1> HIDE DEF Source
<1>4. PICK f : f = [p \in C |-> [from |-> Source(p), to |-> p]]
  OBVIOUS
<1>5. DOMAIN f = C /\ f = [x \in DOMAIN f |-> f[x]] /\ K = {f[x] : x \in DOMAIN f}
  BY ONLY <1>2, <1>4
<1>6. IsFiniteSet(C)
  <2>1. C \subseteq Paths
    BY <1>1
  <2> QED
    BY <2>1, ScanAssumption, FS_Subset
<1>7. IsFiniteSet(K)
  BY <1>5, <1>6, ImageFinite
<1>8. \A c \in K : c.to \in C /\ c.from = Source(c.to)
  BY ONLY <1>2
<1>9. \A c, d \in K : c.to = d.to => c = d
  BY ONLY <1>2
<1> QED
  BY <1>1, <1>3, <1>7, <1>8, <1>9

\* The events of a comparison, by their kind.
PlainEvents(kind, S) == {[type |-> kind, path |-> p, from |-> NoPath] : p \in S}
CopyEvents(K) == {[type |-> "copied", path |-> c.to, from |-> PreviousPath(c)] : c \in K}
RenameEvents(R) == {[type |-> "renamed", path |-> r.to, from |-> r.from] : r \in R}

LEMMA PlainIs ==
    ASSUME NEW kind \in {"created", "modified", "deleted"}, NEW S \in SUBSET Paths,
           NEW P, P = PlainEvents(kind, S)
    PROVE  /\ IsFiniteSet(P) /\ P \subseteq Event
           /\ \A e \in P : e.type = kind /\ e.path \in S
           /\ \A d, e \in P : d.path = e.path => d = e
           /\ \A p \in S : \E e \in P : e.type = kind /\ e.path = p
<1>1. P = {[type |-> kind, path |-> p, from |-> NoPath] : p \in S}
  BY DEF PlainEvents
<1>2. IsFiniteSet(S)
  BY ScanAssumption, FS_Subset
<1>3. PICK f : f = [p \in S |-> [type |-> kind, path |-> p, from |-> NoPath]]
  OBVIOUS
<1>4. DOMAIN f = S /\ f = [x \in DOMAIN f |-> f[x]] /\ P = {f[x] : x \in DOMAIN f}
  BY ONLY <1>1, <1>3
<1>5. IsFiniteSet(P)
  BY <1>2, <1>4, ImageFinite
<1>6. P \subseteq Event
  BY <1>1 DEF Event
<1>7. \A e \in P : e.type = kind /\ e.path \in S
  BY <1>1
<1>8. \A d, e \in P : d.path = e.path => d = e
  BY <1>1
<1>9. \A p \in S : \E e \in P : e.type = kind /\ e.path = p
  <2> SUFFICES ASSUME NEW p \in S PROVE \E e \in P : e.type = kind /\ e.path = p
    OBVIOUS
  <2>1. PICK e : e = [type |-> kind, path |-> p, from |-> NoPath]
    OBVIOUS
  <2>2. e \in P /\ e.type = kind /\ e.path = p
    BY <1>1, <2>1
  <2> QED
    BY <2>2
<1> QED
  BY ONLY <1>5, <1>6, <1>7, <1>8, <1>9

\* The events of the copies, and of the renames.
LEMMA CopyEventsAre ==
    ASSUME NEW K, IsFiniteSet(K), \A c \in K : c.to \in Paths /\ c.from \subseteq Paths,
           \A c, d \in K : c.to = d.to => c = d,
           NEW P, P = CopyEvents(K)
    PROVE  /\ IsFiniteSet(P) /\ P \subseteq Event
           /\ \A e \in P : e.type = "copied" /\ \E c \in K : e.path = c.to /\ (e.from = NoPath => c.from = {})
           /\ \A d, e \in P : d.path = e.path => d = e
           /\ \A c \in K : \E e \in P : e.type = "copied" /\ e.path = c.to
<1>1. ASSUME NEW c \in K PROVE PreviousPath(c) \in Paths \cup {NoPath} /\ (PreviousPath(c) = NoPath => c.from = {})
  <2>1. CASE c.from = {}
    BY <2>1 DEF PreviousPath
  <2>2. CASE c.from # {}
    <3>1. PreviousPath(c) \in c.from
      BY <2>2 DEF PreviousPath
    <3> QED
      BY <3>1, ScanAssumption
  <2> QED
    BY <2>1, <2>2
<1>2. PICK f : f = [c \in K |-> [type |-> "copied", path |-> c.to, from |-> PreviousPath(c)]]
  OBVIOUS
<1>3. DOMAIN f = K /\ f = [x \in DOMAIN f |-> f[x]] /\ P = {f[x] : x \in DOMAIN f}
  BY <1>2 DEF CopyEvents
<1>4. IsFiniteSet(P)
  BY <1>3, ImageFinite
<1>5. \A c \in K : f[c].type = "copied" /\ f[c].path = c.to /\ f[c].from = PreviousPath(c) /\ f[c] \in Event
  BY <1>1, <1>2 DEF Event
<1>6. \A e \in P : \E c \in K : e = f[c]
  BY <1>3
<1>7. \A c \in K : f[c] \in P
  BY <1>3
<1>8. P \subseteq Event
  BY <1>5, <1>6
<1>9. \A e \in P : e.type = "copied" /\ \E c \in K : e.path = c.to /\ (e.from = NoPath => c.from = {})
  BY <1>1, <1>5, <1>6
<1>10. \A d, e \in P : d.path = e.path => d = e
  BY <1>5, <1>6
<1>11. \A c \in K : \E e \in P : e.type = "copied" /\ e.path = c.to
  BY <1>5, <1>7
<1> QED
  BY ONLY <1>4, <1>8, <1>9, <1>10, <1>11

LEMMA RenameEventsAre ==
    ASSUME NEW V \in SUBSET Paths, NEW A \in SUBSET Paths, NEW R, \A r \in R : r.from \in V /\ r.to \in A,
           \A r, s \in R : r.from = s.from \/ r.to = s.to => r = s,
           NEW P, P = RenameEvents(R)
    PROVE  /\ IsFiniteSet(P) /\ P \subseteq Event
           /\ \A e \in P : e.type = "renamed" /\ \E r \in R : e.path = r.to /\ e.from = r.from
           /\ \A d, e \in P : d.path = e.path \/ d.from = e.from => d = e
           /\ \A r \in R : \E e \in P : e.type = "renamed" /\ e.path = r.to /\ e.from = r.from
<1>1. IsFiniteSet(R)
  <2>1. PICK g : g = [r \in R |-> r.to]
    OBVIOUS
  <2>2. g \in Injection(R, A)
    <3>1. g \in [R -> A]
      BY <2>1
    <3>2. \A r, s \in R : g[r] = g[s] => r = s
      BY <2>1
    <3> QED
      BY ONLY <3>1, <3>2 DEF Injection, IsInjective
  <2>3. IsFiniteSet(A)
    BY ScanAssumption, FS_Subset
  <2> QED
    BY <2>2, <2>3, FS_Injection
<1>2. PICK f : f = [r \in R |-> [type |-> "renamed", path |-> r.to, from |-> r.from]]
  OBVIOUS
<1>3. DOMAIN f = R /\ f = [x \in DOMAIN f |-> f[x]] /\ P = {f[x] : x \in DOMAIN f}
  BY <1>2 DEF RenameEvents
<1>4. IsFiniteSet(P)
  BY <1>1, <1>3, ImageFinite
<1>5. \A r \in R : f[r].type = "renamed" /\ f[r].path = r.to /\ f[r].from = r.from /\ f[r] \in Event
  BY <1>2 DEF Event
<1>6. \A e \in P : \E r \in R : e = f[r]
  BY <1>3
<1>7. \A r \in R : f[r] \in P
  BY <1>3
<1>8. P \subseteq Event
  BY <1>5, <1>6
<1>9. \A e \in P : e.type = "renamed" /\ \E r \in R : e.path = r.to /\ e.from = r.from
  BY <1>5, <1>6
<1>10. \A d, e \in P : d.path = e.path \/ d.from = e.from => d = e
  BY <1>5, <1>6
<1>11. \A r \in R : \E e \in P : e.type = "renamed" /\ e.path = r.to /\ e.from = r.from
  BY <1>5, <1>7
<1> QED
  BY ONLY <1>4, <1>8, <1>9, <1>10, <1>11

\* What a comparison reports lists one event for each path that came, changed or went.
LEMMA ReportsFit ==
    ASSUME NEW previous, NEW current, IsListing(previous), IsListing(current),
           NEW walked \in SetToSeqs(Appeared(previous, current))
    PROVE  \E E : Lists(Reports(previous, current, walked), E) /\ EventsFit(E, previous, current)
<1>1. PICK V, A, M : V = Vanished(previous, current) /\ A = Appeared(previous, current) /\ M = Modified(previous, current)
  OBVIOUS
<1>2. /\ V \in SUBSET Paths /\ A \in SUBSET Paths /\ M \in SUBSET Paths /\ IsFiniteSet(V) /\ IsFiniteSet(A)
      /\ A \subseteq DOMAIN current /\ M \subseteq DOMAIN current /\ V \cap DOMAIN current = {} /\ A \cap M = {}
  BY <1>1, ChangesFinite DEF Vanished, Appeared, Modified
<1>3. PICK R : R = PairRenames(previous, current, walked)
  OBVIOUS
<1>4. /\ R \subseteq [from : V, to : A] /\ \A r, s \in R : r.from = s.from \/ r.to = s.to => r = s
  BY <1>1, <1>2, <1>3, RenamesFitAll DEF RenamesFit
<1>5. \A r \in R : r.from \in V /\ r.to \in A
  BY <1>4
<1>6. PICK C : C = A \ {r.to : r \in R}
  OBVIOUS
<1>7. PICK K : K = PairCopies(C, previous, current, since)
  OBVIOUS
<1>8. /\ \A c \in K : c.to \in C /\ c.from \subseteq Paths /\ (c.from = {} => current[c.to].mtime < since)
      /\ \A c, d \in K : c.to = d.to => c = d
      /\ IsFiniteSet(K)
  <2>1. C \in SUBSET Paths
    BY <1>2, <1>6
  <2> QED
    BY <1>7, <2>1, CopiesFit
<1>9. PICK N, D : N = C \ {c.to : c \in K} /\ D = V \ {r.from : r \in R}
  OBVIOUS
<1>10. PICK EN, EM, EK, ER, ED :
        /\ EN = PlainEvents("created", N) /\ EM = PlainEvents("modified", M)
        /\ EK = CopyEvents(K) /\ ER = RenameEvents(R) /\ ED = PlainEvents("deleted", D)
  OBVIOUS
<1>11. PICK q : q = SetToSeq(EN) \o SetToSeq(EM) \o SetToSeq(EK) \o SetToSeq(ER) \o SetToSeq(ED)
  OBVIOUS
<1>12. Reports(previous, current, walked) = q
  BY <1>1, <1>3, <1>6, <1>7, <1>9, <1>10, <1>11 DEF Reports, PlainEvents, CopyEvents, RenameEvents
<1>13. N \in SUBSET Paths /\ D \in SUBSET Paths /\ \A c \in K : c.to \in Paths /\ c.from \subseteq Paths
  BY <1>2, <1>6, <1>8, <1>9
<1>14. /\ IsFiniteSet(EN) /\ EN \subseteq Event /\ \A e \in EN : e.type = "created" /\ e.path \in N
       /\ \A d, e \in EN : d.path = e.path => d = e
       /\ \A p \in N : \E e \in EN : e.type = "created" /\ e.path = p
  BY ONLY <1>10, <1>13, PlainIs
<1>15. /\ IsFiniteSet(EM) /\ EM \subseteq Event /\ \A e \in EM : e.type = "modified" /\ e.path \in M
       /\ \A d, e \in EM : d.path = e.path => d = e
  BY ONLY <1>2, <1>10, PlainIs
<1>16. /\ IsFiniteSet(ED) /\ ED \subseteq Event /\ \A e \in ED : e.type = "deleted" /\ e.path \in D
       /\ \A d, e \in ED : d.path = e.path => d = e
       /\ \A p \in D : \E e \in ED : e.type = "deleted" /\ e.path = p
  BY ONLY <1>10, <1>13, PlainIs
<1>17. /\ IsFiniteSet(EK) /\ EK \subseteq Event
       /\ \A e \in EK : e.type = "copied" /\ \E c \in K : e.path = c.to /\ (e.from = NoPath => c.from = {})
       /\ \A d, e \in EK : d.path = e.path => d = e
       /\ \A c \in K : \E e \in EK : e.type = "copied" /\ e.path = c.to
  BY ONLY <1>8, <1>10, <1>13, CopyEventsAre
<1>18. /\ IsFiniteSet(ER) /\ ER \subseteq Event
       /\ \A e \in ER : e.type = "renamed" /\ \E r \in R : e.path = r.to /\ e.from = r.from
       /\ \A d, e \in ER : d.path = e.path \/ d.from = e.from => d = e
       /\ \A r \in R : \E e \in ER : e.type = "renamed" /\ e.path = r.to /\ e.from = r.from
  BY ONLY <1>2, <1>4, <1>5, <1>10, RenameEventsAre
<1>19. PICK E : E = EN \cup EM \cup EK \cup ER \cup ED
  OBVIOUS
<1>20. Lists(q, E)
  <2>1. Lists(SetToSeq(EN) \o SetToSeq(EM), EN \cup EM)
    <3>1. EN \cap EM = {}
      BY <1>14, <1>15
    <3> QED
      BY <1>14, <1>15, <3>1, ConcatLists, SetToSeqLists
  <2>2. Lists(SetToSeq(EN) \o SetToSeq(EM) \o SetToSeq(EK), EN \cup EM \cup EK)
    <3>1. (EN \cup EM) \cap EK = {}
      BY <1>14, <1>15, <1>17
    <3>2. Lists(SetToSeq(EK), EK)
      BY <1>17, SetToSeqLists
    <3> QED
      BY <2>1, <3>1, <3>2, ConcatLists
  <2>3. Lists(SetToSeq(EN) \o SetToSeq(EM) \o SetToSeq(EK) \o SetToSeq(ER), EN \cup EM \cup EK \cup ER)
    <3>1. (EN \cup EM \cup EK) \cap ER = {}
      BY <1>14, <1>15, <1>17, <1>18
    <3>2. Lists(SetToSeq(ER), ER)
      BY <1>18, SetToSeqLists
    <3> QED
      BY <2>2, <3>1, <3>2, ConcatLists
  <2>4. (EN \cup EM \cup EK \cup ER) \cap ED = {} /\ Lists(SetToSeq(ED), ED)
    BY <1>14, <1>15, <1>16, <1>17, <1>18, SetToSeqLists
  <2> QED
    BY <1>11, <1>19, <2>3, <2>4, ConcatLists
<1>21. \A e \in E : \/ e \in EN /\ e.type = "created" /\ e.path \in N
                    \/ e \in EM /\ e.type = "modified" /\ e.path \in M
                    \/ e \in EK /\ e.type = "copied" /\ \E c \in K : e.path = c.to /\ (e.from = NoPath => c.from = {})
                    \/ e \in ER /\ e.type = "renamed" /\ \E r \in R : e.path = r.to /\ e.from = r.from
                    \/ e \in ED /\ e.type = "deleted" /\ e.path \in D
  BY <1>14, <1>15, <1>16, <1>17, <1>18, <1>19
<1>22. /\ \A r \in R : r.from \in V /\ r.to \in A
       /\ \A c \in K : c.to \in C
       /\ N \subseteq C /\ C \subseteq A /\ D \subseteq V
       /\ \A r \in R : r.to \notin C /\ r.from \notin D
       /\ \A c \in K : c.to \notin N
  BY <1>4, <1>6, <1>8, <1>9
<1>23. \A e \in E :
         /\ e.type # "deleted" => e.path \in DOMAIN current
         /\ Goes(e) => GoneBy(e) \in V
         /\ e.type \in {"created", "copied", "renamed"} => e.path \in A
         /\ e.type = "copied" /\ e.from = NoPath => current[e.path].mtime < since
  BY <1>2, <1>8, <1>21, <1>22 DEF Goes, GoneBy
<1>24. ASSUME NEW d \in E, NEW e \in E, d.path = e.path PROVE d = e
  <2>1. d.type = e.type
    BY <1>2, <1>21, <1>22, <1>24
  <2> QED
    BY <1>14, <1>15, <1>16, <1>17, <1>18, <1>21, <1>24, <2>1
<1>25. ASSUME NEW d \in E, NEW e \in E, Goes(d), Goes(e), GoneBy(d) = GoneBy(e) PROVE d = e
  <2>1. (d \in ER /\ d.type = "renamed") \/ (d \in ED /\ d.type = "deleted")
    BY <1>21, <1>25 DEF Goes
  <2>2. (e \in ER /\ e.type = "renamed") \/ (e \in ED /\ e.type = "deleted")
    BY <1>21, <1>25 DEF Goes
  <2> QED
    BY <1>16, <1>18, <1>22, <1>25, <2>1, <2>2 DEF GoneBy
<1>26. ASSUME NEW p \in A PROVE \E e \in E : e.type # "deleted" /\ e.path = p
  <2>1. p \in N \/ (\E c \in K : p = c.to) \/ (\E r \in R : p = r.to)
    BY <1>6, <1>9
  <2> QED
    BY <1>14, <1>17, <1>18, <1>19, <2>1
<1>27. ASSUME NEW p \in V PROVE \E e \in E : Goes(e) /\ GoneBy(e) = p
  <2>1. p \in D \/ \E r \in R : p = r.from
    BY <1>9
  <2> QED
    BY <1>16, <1>18, <1>19, <2>1 DEF Goes, GoneBy
<1>28. E \subseteq Event
  BY <1>14, <1>15, <1>16, <1>17, <1>18, <1>19
<1>29. EventsFit(E, previous, current)
  BY <1>1, <1>23, <1>24, <1>25, <1>26, <1>27, <1>28 DEF EventsFit
<1> QED
  BY <1>12, <1>20, <1>29

-----------------------------------------------------------------------------
\* What the events of two sequences tell together.
LEMMA ApplyIs ==
    ASSUME NEW q, NEW paths
    PROVE  \E gone, come :
             /\ Apply(q, paths) = (paths \ gone) \cup come
             /\ \A p : p \in gone <=> \E i \in DOMAIN q : Goes(q[i]) /\ GoneBy(q[i]) = p
             /\ \A p : p \in come <=> \E i \in DOMAIN q : q[i].type # "deleted" /\ q[i].path = p
<1>1. PICK gone, come :
        /\ gone = {e.path : e \in {x \in Range(q) : x.type = "deleted"}}
                   \cup {e.from : e \in {x \in Range(q) : x.type = "renamed"}}
        /\ come = {e.path : e \in {x \in Range(q) : x.type # "deleted"}}
  OBVIOUS
<1>2. Apply(q, paths) = (paths \ gone) \cup come
  BY <1>1 DEF Apply
<1>3. \A x : x \in Range(q) <=> \E i \in DOMAIN q : x = q[i]
  BY DEF Range
<1>4. \A p : p \in gone <=> \E i \in DOMAIN q : Goes(q[i]) /\ GoneBy(q[i]) = p
  <2>1. \A p : p \in gone <=> \E x \in Range(q) : (x.type = "deleted" /\ x.path = p) \/ (x.type = "renamed" /\ x.from = p)
    BY ONLY <1>1
  <2> QED
    BY ONLY <1>3, <2>1 DEF Goes, GoneBy
<1>5. \A p : p \in come <=> \E i \in DOMAIN q : q[i].type # "deleted" /\ q[i].path = p
  <2>1. \A p : p \in come <=> \E x \in Range(q) : x.type # "deleted" /\ x.path = p
    BY ONLY <1>1
  <2> QED
    BY ONLY <1>3, <2>1
<1> QED
  BY <1>2, <1>4, <1>5

LEMMA ApplyEmpty == ASSUME NEW paths PROVE Apply(<<>>, paths) = paths
<1>1. PICK q : q = <<>>
  OBVIOUS
<1>2. DOMAIN q = {}
  BY <1>1
<1>3. PICK gone, come :
        /\ Apply(q, paths) = (paths \ gone) \cup come
        /\ \A p : p \in gone <=> \E i \in DOMAIN q : Goes(q[i]) /\ GoneBy(q[i]) = p
        /\ \A p : p \in come <=> \E i \in DOMAIN q : q[i].type # "deleted" /\ q[i].path = p
  BY ApplyIs
<1>4. gone = {} /\ come = {}
  BY <1>2, <1>3
<1> QED
  BY <1>1, <1>3, <1>4

Splits(q, n, b, r) == b = SubSeq(q, 1, n) /\ r = SubSeq(q, n + 1, Len(q))

\* A batch, and what is left of the outbox after it, tell together what the outbox did.
LEMMA BatchesFit ==
    ASSUME NEW q \in Seq(Event), NEW listing, NEW gone, NEW walk, EventsTrue(q, listing, gone, walk), EachOnce(q),
           NEW n \in Nat, n <= Len(q), NEW paths,
           NEW b, NEW r, Splits(q, n, b, r)
    PROVE  /\ b \in Seq(Event) /\ r \in Seq(Event)
           /\ EventsTrue(r, listing, gone, walk) /\ EachOnce(r)
           /\ Apply(r, Apply(b, paths)) = Apply(q, paths)
<1>1. b = SubSeq(q, 1, n) /\ r = SubSeq(q, n + 1, Len(q))
  BY DEF Splits
<1>2. PICK len \in Nat : len = Len(q) /\ DOMAIN q = 1..len /\ \A i \in 1..len : q[i] \in Event
  OBVIOUS
<1>3. b \in Seq(Event) /\ Len(b) = n /\ DOMAIN b = 1..n /\ \A i \in 1..n : b[i] = q[i]
  BY <1>1, <1>2, SubSeqProperties
<1>4. /\ r \in Seq(Event) /\ DOMAIN r = 1..(len - n) /\ \A i \in 1..(len - n) : r[i] = q[n + i]
  <2>1. n + 1 \in Int /\ len \in Int /\ \A i \in (n + 1)..len : q[i] \in Event
    BY <1>2
  <2>2. /\ r \in Seq(Event) /\ Len(r) = IF n + 1 <= len THEN len - (n + 1) + 1 ELSE 0
        /\ \A i \in 1..(len - (n + 1) + 1) : r[i] = q[n + 1 + i - 1]
    BY <1>1, <1>2, <2>1, SubSeqProperties
  <2>3. Len(r) = len - n /\ len - (n + 1) + 1 = len - n /\ \A i \in Int : n + 1 + i - 1 = n + i
    BY <1>2, <2>2
  <2>4. DOMAIN r = 1..(len - n)
    BY ONLY <2>2, <2>3
  <2>5. ASSUME NEW i \in 1..(len - n) PROVE r[i] = q[n + i]
    <3>1. i \in 1..(len - (n + 1) + 1) /\ n + 1 + i - 1 = n + i
      BY <2>3
    <3>2. r[i] = q[n + 1 + i - 1]
      BY ONLY <2>2, <3>1
    <3> QED
      BY ONLY <3>1, <3>2
  <2> QED
    BY <2>2, <2>4, <2>5
<1>5. \A i \in DOMAIN r : n + i \in DOMAIN q /\ r[i] = q[n + i]
  BY <1>2, <1>4
<1>6. EventsTrue(r, listing, gone, walk)
  BY <1>5 DEF EventsTrue
<1>7. EachOnce(r)
  <2>1. \A i, j \in DOMAIN r : i # j => n + i # n + j
    BY <1>4
  <2> QED
    BY <1>5, <2>1 DEF EachOnce
<1>8. \A i : i \in DOMAIN q <=> i \in DOMAIN b \/ \E j \in DOMAIN r : i = n + j
  <2>1. \A i \in DOMAIN q : i \in DOMAIN b \/ \E j \in DOMAIN r : i = n + j
    <3> SUFFICES ASSUME NEW i \in DOMAIN q, i \notin DOMAIN b PROVE \E j \in DOMAIN r : i = n + j
      OBVIOUS
    <3>1. i \in 1..len /\ ~(i <= n) /\ DOMAIN r = 1..(len - n)
      BY <1>2, <1>3, <1>4
    <3>2. i - n \in 1..(len - n) /\ i = n + (i - n)
      BY <3>1
    <3> QED
      BY <3>1, <3>2
  <2> QED
    BY <1>2, <1>3, <1>5, <2>1
<1>9. \A i \in DOMAIN b : b[i] = q[i]
  BY <1>3
<1>10. Apply(r, Apply(b, paths)) = Apply(q, paths)
  <2>1. PICK mid : mid = Apply(b, paths)
    OBVIOUS
  <2>2. PICK gq, cq :
          /\ Apply(q, paths) = (paths \ gq) \cup cq
          /\ \A p : p \in gq <=> \E i \in DOMAIN q : Goes(q[i]) /\ GoneBy(q[i]) = p
          /\ \A p : p \in cq <=> \E i \in DOMAIN q : q[i].type # "deleted" /\ q[i].path = p
    BY ONLY ApplyIs
  <2>3. PICK gb, cb :
          /\ Apply(b, paths) = (paths \ gb) \cup cb
          /\ \A p : p \in gb <=> \E i \in DOMAIN b : Goes(b[i]) /\ GoneBy(b[i]) = p
          /\ \A p : p \in cb <=> \E i \in DOMAIN b : b[i].type # "deleted" /\ b[i].path = p
    BY ONLY ApplyIs
  <2>4. PICK gr, cr :
          /\ Apply(r, mid) = (mid \ gr) \cup cr
          /\ \A p : p \in gr <=> \E i \in DOMAIN r : Goes(r[i]) /\ GoneBy(r[i]) = p
          /\ \A p : p \in cr <=> \E i \in DOMAIN r : r[i].type # "deleted" /\ r[i].path = p
    BY ONLY ApplyIs
  <2>5. \A p : p \in gq <=> p \in gb \/ p \in gr
    BY ONLY <1>5, <1>8, <1>9, <2>2, <2>3, <2>4
  <2>6. \A p : p \in cq <=> p \in cb \/ p \in cr
    BY ONLY <1>5, <1>8, <1>9, <2>2, <2>3, <2>4
  <2>7. \A p \in cb : p \in DOMAIN listing
    BY <1>8, <1>9, <2>3 DEF EventsTrue, EventTrue
  <2>8. \A p \in gr : p \notin DOMAIN listing
    BY <1>5, <2>4 DEF EventsTrue, EventTrue, Goes, GoneBy
  <2> QED
    BY ONLY <2>1, <2>2, <2>3, <2>4, <2>5, <2>6, <2>7, <2>8
<1> QED
  BY <1>1, <1>3, <1>4, <1>6, <1>7, <1>10

\* Of paths, events leave paths.
LEMMA ApplyType ==
    ASSUME NEW q \in Seq(Event), NEW paths \in SUBSET Paths PROVE Apply(q, paths) \in SUBSET Paths
<1>1. PICK gone, come :
        /\ Apply(q, paths) = (paths \ gone) \cup come
        /\ \A p : p \in gone <=> \E i \in DOMAIN q : Goes(q[i]) /\ GoneBy(q[i]) = p
        /\ \A p : p \in come <=> \E i \in DOMAIN q : q[i].type # "deleted" /\ q[i].path = p
  BY ApplyIs
<1>2. \A i \in DOMAIN q : q[i].path \in Paths
  <2>1. \A i \in DOMAIN q : q[i] \in Event
    OBVIOUS
  <2> QED
    BY <2>1 DEF Event
<1> QED
  BY <1>1, <1>2

-----------------------------------------------------------------------------
\* Listings put together are listings.
LEMMA MergeIs ==
    ASSUME NEW f, NEW g, NEW S, IsListing(f), IsListing(g)
    PROVE  /\ IsListing(FilledUp(f, Only(g, S)))
           /\ DOMAIN FilledUp(f, Only(g, S)) = DOMAIN f \cup (DOMAIN g \cap S)
           /\ \A p \in DOMAIN f : FilledUp(f, Only(g, S))[p] = f[p]
<1>1. PICK h : h = FilledUp(f, Only(g, S))
  OBVIOUS
<1>2. PICK o : o = Only(g, S)
  OBVIOUS
<1>3. DOMAIN o = DOMAIN g \cap S /\ \A p \in DOMAIN o : o[p] = g[p]
  BY <1>2 DEF Only
<1>4. h = [p \in DOMAIN f \cup DOMAIN o |-> IF p \in DOMAIN f THEN f[p] ELSE o[p]]
  BY <1>1, <1>2 DEF FilledUp
<1>5. IsListing(h) /\ DOMAIN h = DOMAIN f \cup (DOMAIN g \cap S) /\ \A p \in DOMAIN f : h[p] = f[p]
  BY <1>3, <1>4 DEF IsListing
<1> QED
  BY <1>1, <1>5

LEMMA WithIs ==
    ASSUME NEW f, IsListing(f), NEW p \in Paths, NEW stamp \in Stamp PROVE IsListing(FilledUp([q \in {p} |-> stamp], f))
<1>1. PICK o : o = [q \in {p} |-> stamp]
  OBVIOUS
<1>2. DOMAIN o = {p} /\ o[p] = stamp
  BY <1>1
<1>3. PICK h : h = FilledUp(o, f)
  OBVIOUS
<1>4. h = [x \in DOMAIN o \cup DOMAIN f |-> IF x \in DOMAIN o THEN o[x] ELSE f[x]]
  BY <1>3 DEF FilledUp
<1>5. IsListing(h)
  BY <1>2, <1>4 DEF IsListing
<1> QED
  BY <1>1, <1>3, <1>5

LEMMA OnlyIs == ASSUME NEW f, IsListing(f), NEW S PROVE IsListing(Only(f, S))
BY DEF Only, IsListing

LEMMA EmptyIs == IsListing(Empty) /\ DOMAIN Empty = {} /\ <<>> \in Seq(Event)
BY DEF Empty, IsListing

LEMMA ScanIInvInit == ScanInit => ScanIInv
<1> SUFFICES ASSUME ScanInit PROVE ScanIInv
  OBVIOUS
<1> USE DEF ScanInit
<1>1. ScanTypeOK
  <2>1. IsListing(share) /\ IsListing(baseline) /\ IsListing(seen) /\ outbox \in Seq(Event)
    BY EmptyIs, AtFirstAssumption
  <2>2. clock \in 1..MaxClock /\ changes \in 0..MaxChanges /\ faults \in 0..MaxFaults
    BY ScanAssumption
  <2>3. /\ locked \subseteq Folders \ {Root} /\ before \subseteq Folders /\ unreadable \subseteq Folders
        /\ toRead \subseteq Folders /\ missing \subseteq Paths /\ believed \subseteq Paths
    OBVIOUS
  <2>4. {stopped, first, sent, clean} \subseteq BOOLEAN /\ pc \in {"idle", "queued", "walk", "post", "ended"}
    OBVIOUS
  <2>5. since \in 0..clock /\ startedAt \in 0..clock
    OBVIOUS
  <2> HIDE DEF ScanInit
  <2> QED
    BY <2>1, <2>2, <2>3, <2>4, <2>5 DEF ScanTypeOK
<1>2. TimesFit /\ WalkSound /\ ToldAddsUp
  BY DEF TimesFit, WalkSound, ToldAddsUp
<1>3. OutboxTrue
  BY EmptyIs DEF OutboxTrue, EventsTrue, EachOnce
<1> QED
  BY <1>1, <1>2, <1>3 DEF ScanIInv

(***************************************************************************)
(* What people do touches nothing of the loop's.                           *)
(***************************************************************************)
LEMMA ChangesLeave ==
    ASSUME ScanIInv, ScanTypeOK',
           UNCHANGED <<pc, loopVars, startedAt, walkVars, outbox, sent, reportVars>>
    PROVE  ScanIInv'
<1> USE DEF ScanIInv, loopVars, walkVars, reportVars
<1>1. TimesFit' /\ WalkSound' /\ ToldAddsUp'
  BY DEF TimesFit, WalkSound, ToldAddsUp
<1>2. OutboxTrue'
  BY DEF OutboxTrue
<1> QED
  BY <1>1, <1>2

LEMMA ScanIInvChange ==
    ASSUME ScanIInv, NEW here, IsListing(here), Change(here) PROVE ScanIInv'
<1>1. ScanTypeOK'
  <2>1. changes' \in 0..MaxChanges
    BY ScanAssumption DEF ScanIInv, ScanTypeOK, Change
  <2> QED
    BY <2>1 DEF ScanIInv, ScanTypeOK, Change, loopVars, walkVars, reportVars
<1> QED
  BY <1>1, ChangesLeave DEF Change

LEMMA ScanIInvPeople == ScanIInv /\ People => ScanIInv'
<1> SUFFICES ASSUME ScanIInv, People PROVE ScanIInv'
  OBVIOUS
<1>1. IsListing(share) /\ clock \in 1..MaxClock
  BY DEF ScanIInv, ScanTypeOK
<1>2. PICK here, now : here = share /\ now = clock
  OBVIOUS
<1>3. IsListing(here) /\ now \in 0..MaxClock /\ 0 \in 0..MaxClock
  BY <1>1, <1>2, ScanAssumption
<1>4. ASSUME NEW p \in Paths, Delete(p) PROVE ScanIInv'
  BY <1>2, <1>3, <1>4, OnlyIs, ScanIInvChange DEF Delete, Without
<1>5. ASSUME NEW p \in Paths, Paste(p) PROVE ScanIInv'
  <2>1. [size |-> 1, mtime |-> 0] \in Stamp
    BY <1>3 DEF Stamp
  <2> QED
    BY <1>2, <1>3, <1>5, <2>1, WithIs, ScanIInvChange DEF Paste, With
<1>6. ASSUME NEW p \in Paths, NEW size \in {0, 1}, Write(p, size) PROVE ScanIInv'
  <2>1. [size |-> size, mtime |-> now] \in Stamp
    BY <1>3 DEF Stamp
  <2> QED
    BY <1>2, <1>3, <1>6, <2>1, WithIs, ScanIInvChange DEF Write, With
<1>7. ASSUME NEW p \in Paths, NEW q \in Paths, Copy(p, q) PROVE ScanIInv'
  <2>1. here[p] \in Stamp
    BY <1>2, <1>3, <1>7 DEF Copy, IsListing
  <2> QED
    BY <1>2, <1>3, <1>7, <2>1, WithIs, ScanIInvChange DEF Copy, With
<1>8. ASSUME NEW p \in Paths, NEW q \in Paths, Move(p, q) PROVE ScanIInv'
  <2>1. here[p] \in Stamp /\ IsListing(Only(here, Paths \ {p}))
    BY <1>2, <1>3, <1>8, OnlyIs DEF Move, IsListing
  <2>2. IsListing(FilledUp([r \in {q} |-> here[p]], Only(here, Paths \ {p})))
    BY <2>1, WithIs
  <2> QED
    BY <1>2, <1>8, <2>2, ScanIInvChange DEF Move, Without
<1>9. ASSUME NEW d \in Folders \ {Root}, SetAccess(d) PROVE ScanIInv'
  <2>1. changes' \in 0..MaxChanges /\ locked' \subseteq Folders \ {Root}
    BY <1>9, ScanAssumption DEF ScanIInv, ScanTypeOK, SetAccess
  <2>2. ScanTypeOK'
    BY <1>9, <2>1 DEF ScanIInv, ScanTypeOK, SetAccess, loopVars, walkVars, reportVars
  <2> QED
    BY <1>9, <2>2, ChangesLeave DEF SetAccess
<1> QED
  BY <1>4, <1>5, <1>6, <1>7, <1>8, <1>9 DEF People

LEMMA ScanIInvTime == ScanIInv /\ TimePasses => ScanIInv'
<1> SUFFICES ASSUME ScanIInv, TimePasses PROVE ScanIInv'
  OBVIOUS
<1>1. clock' \in 1..MaxClock /\ since \in 0..clock' /\ startedAt \in 0..clock'
  BY ScanAssumption DEF ScanIInv, ScanTypeOK, TimePasses
<1>2. ScanTypeOK'
  BY <1>1 DEF ScanIInv, ScanTypeOK, TimePasses, loopVars, walkVars, reportVars
<1> QED
  BY <1>2, ChangesLeave DEF TimePasses

(***************************************************************************)
(* The loop's steps.                                                       *)
(***************************************************************************)
LEMMA ScanIInvTurn == ScanIInv /\ (AskForTurn \/ BeginWalk) => ScanIInv'
<1> SUFFICES ASSUME ScanIInv, AskForTurn \/ BeginWalk PROVE ScanIInv'
  OBVIOUS
<1> USE DEF ScanIInv, shareVars, loopVars, walkVars, reportVars
<1>1. CASE AskForTurn
  <2> USE <1>1 DEF AskForTurn
  <2>1. ScanTypeOK'
    BY DEF ScanTypeOK
  <2>2. TimesFit' /\ WalkSound' /\ ToldAddsUp'
    BY DEF TimesFit, WalkSound, ToldAddsUp
  <2>3. OutboxTrue'
    BY DEF OutboxTrue
  <2> QED
    BY <2>1, <2>2, <2>3
<1>2. CASE BeginWalk
  <2> USE <1>2 DEF BeginWalk
  <2>1. ScanTypeOK'
    BY EmptyIs DEF ScanTypeOK
  <2>2. TimesFit'
    BY DEF TimesFit, ScanTypeOK
  <2>3. WalkSound'
    BY EmptyIs, ScanAssumption DEF WalkSound, Under, Beneath
  <2>4. ToldAddsUp'
    BY DEF ToldAddsUp
  <2>5. OutboxTrue'
    BY EmptyIs DEF OutboxTrue, EventsTrue
  <2> QED
    BY <2>1, <2>2, <2>3, <2>4, <2>5
<1> QED
  BY <1>1, <1>2

\* A folder is read, or skipped, before those in it.
LEMMA ScanIInvRead == \A d \in Folders : ScanIInv /\ ReadFolder(d) => ScanIInv'
<1> SUFFICES ASSUME NEW d \in Folders, ScanIInv, ReadFolder(d) PROVE ScanIInv'
  OBVIOUS
<1> USE DEF ScanIInv, shareVars, loopVars, reportVars
<1>1. pc = "walk" /\ pc' = "walk" /\ outbox = <<>> /\ d \in toRead
  BY DEF ReadFolder, OutboxTrue
<1>2. TimesFit' /\ ToldAddsUp'
  BY <1>1 DEF ReadFolder, TimesFit, ToldAddsUp
<1>3. OutboxTrue'
  <2>1. DOMAIN outbox' = {}
    BY <1>1 DEF ReadFolder
  <2> QED
    BY <1>1, <2>1 DEF ReadFolder, OutboxTrue, EventsTrue, EachOnce
<1>4. CASE d \in locked
  <2>1. /\ unreadable' = unreadable \cup {d} /\ toRead' = {e \in toRead : <<e, d>> \notin Inside}
        /\ seen' = seen /\ missing' = missing /\ d # Root
    BY <1>4 DEF ReadFolder
  <2>2. ScanTypeOK'
    BY <2>1 DEF ReadFolder, ScanTypeOK
  <2>3. WalkSound'
    <3>1. ASSUME NEW p \in Paths
          PROVE  FolderOf[p] \in toRead' \/ p \in DOMAIN seen' \/ p \in missing' \/ Under(p, unreadable')
      BY <1>1, <2>1 DEF WalkSound, Under, Beneath
    <3>2. ASSUME NEW p \in DOMAIN seen'
          PROVE  ~Under(p, unreadable') /\ \A e \in toRead' : <<FolderOf[p], e>> \notin Inside
      BY <1>1, <2>1 DEF WalkSound, Under, Beneath
    <3>3. ASSUME NEW e \in toRead' PROVE ~Beneath(e, unreadable')
      BY <1>1, <2>1 DEF WalkSound, Beneath
    <3> QED
      BY <3>1, <3>2, <3>3 DEF WalkSound
  <2> QED
    BY <1>2, <1>3, <2>2, <2>3
<1>5. CASE d \notin locked
  <2>1. PICK here : here = {p \in Paths : FolderOf[p] = d}
    OBVIOUS
  <2>2. /\ seen' = FilledUp(seen, Only(share, here)) /\ missing' = missing \cup (here \ DOMAIN share)
        /\ toRead' = toRead \ {d} /\ unreadable' = unreadable
        /\ \A e \in toRead : <<d, e>> \in Inside => e = d
    BY <1>5, <2>1 DEF ReadFolder
  <2>3. PICK h, f, g : h = seen' /\ f = seen /\ g = share
    OBVIOUS
  <2>4. IsListing(f) /\ IsListing(g) /\ h = FilledUp(f, Only(g, here))
    BY <2>2, <2>3 DEF ScanTypeOK
  <2>5. IsListing(h) /\ DOMAIN h = DOMAIN f \cup (DOMAIN g \cap here)
    <3>1. IsListing(f) /\ IsListing(g)
      BY <2>4
    <3>2. IsListing(FilledUp(f, Only(g, here)))
      BY ONLY <3>1, MergeIs
    <3>3. DOMAIN FilledUp(f, Only(g, here)) = DOMAIN f \cup (DOMAIN g \cap here)
      BY DEF FilledUp, Only
    <3> QED
      BY ONLY <2>4, <3>2, <3>3
  <2>6. IsListing(seen') /\ DOMAIN seen' = DOMAIN seen \cup (DOMAIN share \cap here)
    BY <2>3, <2>5
  <2>7. ScanTypeOK'
    BY <2>1, <2>2, <2>6 DEF ReadFolder, ScanTypeOK
  <2>8. WalkSound'
    <3>1. ASSUME NEW p \in Paths
          PROVE  FolderOf[p] \in toRead' \/ p \in DOMAIN seen' \/ p \in missing' \/ Under(p, unreadable')
      BY <1>1, <2>1, <2>2, <2>6 DEF WalkSound
    <3>2. ASSUME NEW p \in DOMAIN seen'
          PROVE  ~Under(p, unreadable') /\ \A e \in toRead' : <<FolderOf[p], e>> \notin Inside
      <4>1. CASE p \in DOMAIN seen
        BY <1>1, <2>2, <4>1 DEF WalkSound
      <4>2. CASE p \in here
        BY <1>1, <2>1, <2>2, <4>2 DEF WalkSound, Under
      <4> QED
        BY <2>6, <4>1, <4>2
    <3>3. ASSUME NEW e \in toRead' PROVE ~Beneath(e, unreadable')
      BY <1>1, <2>2 DEF WalkSound
    <3> QED
      BY <3>1, <3>2, <3>3 DEF WalkSound
  <2> QED
    BY <1>2, <1>3, <2>7, <2>8
<1> QED
  BY <1>4, <1>5

LEMMA ScanIInvWalkEnds == ScanIInv /\ (WalkFails \/ AbandonScan \/ CompareFirst) => ScanIInv'
<1> SUFFICES ASSUME ScanIInv, WalkFails \/ AbandonScan \/ CompareFirst PROVE ScanIInv'
  OBVIOUS
<1> USE DEF ScanIInv, shareVars, loopVars, walkVars, reportVars, AfterScan
<1>1. pc = "walk" /\ outbox = <<>> /\ pc' \in {"idle", "ended", "post"} /\ (pc' = "post" => first)
  BY DEF WalkFails, AbandonScan, CompareFirst, OutboxTrue
<1>2. UNCHANGED <<shareVars, loopVars, startedAt, walkVars, outbox, sent, reportVars>> /\ faults' \in 0..MaxFaults
  BY ScanAssumption DEF WalkFails, AbandonScan, CompareFirst, Fault, ScanTypeOK
<1>3. ScanTypeOK'
  BY <1>1, <1>2 DEF ScanTypeOK
<1>4. TimesFit' /\ WalkSound' /\ ToldAddsUp'
  BY <1>1, <1>2 DEF TimesFit, WalkSound, ToldAddsUp
<1>5. OutboxTrue'
  BY <1>1, <1>2 DEF OutboxTrue
<1> QED
  BY <1>3, <1>4, <1>5

\* A comparison reports what is true of the listing it leads to, of each path once,
\* and what it reports makes that listing of the one before.
LEMMA CompareFits ==
    ASSUME NEW previous, NEW current, IsListing(previous), IsListing(current),
           NEW walked \in SetToSeqs(Appeared(previous, current)),
           NEW q, q = Reports(previous, current, walked),
           NEW gone, Vanished(previous, current) \subseteq gone,
           NEW walk, \A p \in Appeared(previous, current) : ~Under(p, walk.skipped),
           NEW at, at \in Nat, walk.at = at, since \in Nat, since <= at
    PROVE  /\ q \in Seq(Event) /\ EventsTrue(q, current, gone, walk) /\ EachOnce(q)
           /\ Apply(q, DOMAIN previous) = DOMAIN current
<1>1. PICK E : Lists(q, E) /\ EventsFit(E, previous, current)
  BY ReportsFit
<1>2. PICK V, A : V = Vanished(previous, current) /\ A = Appeared(previous, current)
  OBVIOUS
<1>3. /\ V = DOMAIN previous \ DOMAIN current /\ A = DOMAIN current \ DOMAIN previous
      /\ V \subseteq gone /\ \A p \in A : ~Under(p, walk.skipped)
  BY <1>2 DEF Vanished, Appeared
<1>4. /\ q \in Seq(E) /\ \A x \in E : \E i \in DOMAIN q : q[i] = x
      /\ \A i, j \in DOMAIN q : q[i] = q[j] => i = j
  BY <1>1 DEF Lists
<1>5. E \subseteq Event
  BY <1>1 DEF EventsFit
<1>6. \A e \in E :
         /\ e.type # "deleted" => e.path \in DOMAIN current
         /\ Goes(e) => GoneBy(e) \in V
         /\ e.type \in {"created", "copied", "renamed"} => e.path \in A
         /\ e.type = "copied" /\ e.from = NoPath => current[e.path].mtime < since
  BY <1>1, <1>2 DEF EventsFit
<1>7. /\ \A d, e \in E : d.path = e.path => d = e
      /\ \A d, e \in E : Goes(d) /\ Goes(e) /\ GoneBy(d) = GoneBy(e) => d = e
  BY <1>1 DEF EventsFit
<1>8. /\ \A p \in A : \E e \in E : e.type # "deleted" /\ e.path = p
      /\ \A p \in V : \E e \in E : Goes(e) /\ GoneBy(e) = p
  BY <1>1, <1>2 DEF EventsFit
<1>9. \A i \in DOMAIN q : q[i] \in E
  BY <1>4
<1>10. q \in Seq(Event)
  <2>1. Seq(E) \subseteq Seq(Event)
    BY <1>5
  <2> QED
    BY <1>4, <2>1
<1>11. \A e \in E : EventTrue(e, current, gone, walk)
  <2> SUFFICES ASSUME NEW e \in E PROVE EventTrue(e, current, gone, walk)
    OBVIOUS
  <2>1. e.type # "deleted" => e.path \in DOMAIN current
    BY <1>6
  <2>2. e.type = "deleted" => e.path \in gone /\ e.path \notin DOMAIN current
    BY <1>3, <1>6 DEF Goes, GoneBy
  <2>3. e.type = "renamed" => e.from \in gone /\ e.from \notin DOMAIN current
    BY <1>3, <1>6 DEF Goes, GoneBy
  <2>4. e.type \in {"created", "copied", "renamed"} => ~Under(e.path, walk.skipped)
    BY <1>3, <1>6
  <2>5. e.type = "copied" /\ e.from = NoPath => current[e.path].mtime < walk.at
    <3> SUFFICES ASSUME e.type = "copied", e.from = NoPath PROVE current[e.path].mtime < walk.at
      OBVIOUS
    <3>1. current[e.path].mtime < since /\ e.path \in DOMAIN current
      BY <1>6
    <3>2. current[e.path].mtime \in Nat
      <4>1. current[e.path] \in Stamp
        BY <3>1 DEF IsListing
      <4> QED
        BY <4>1, ScanAssumption DEF Stamp
    <3> QED
      BY <3>1, <3>2
  <2> QED
    BY <2>1, <2>2, <2>3, <2>4, <2>5 DEF EventTrue
<1>12. EventsTrue(q, current, gone, walk)
  BY <1>9, <1>11 DEF EventsTrue
<1>13. EachOnce(q)
  BY ONLY <1>4, <1>7, <1>9 DEF EachOnce
<1>14. Apply(q, DOMAIN previous) = DOMAIN current
  <2>1. PICK out, come :
          /\ Apply(q, DOMAIN previous) = (DOMAIN previous \ out) \cup come
          /\ \A p : p \in out <=> \E i \in DOMAIN q : Goes(q[i]) /\ GoneBy(q[i]) = p
          /\ \A p : p \in come <=> \E i \in DOMAIN q : q[i].type # "deleted" /\ q[i].path = p
    BY ONLY ApplyIs
  <2>2. \A p : p \in out <=> p \in V
    BY ONLY <1>4, <1>6, <1>8, <1>9, <2>1
  <2>3. \A p : p \in come => p \in DOMAIN current
    BY ONLY <1>6, <1>9, <2>1
  <2>4. \A p \in A : p \in come
    BY ONLY <1>4, <1>8, <1>9, <2>1
  <2> QED
    BY ONLY <1>3, <2>1, <2>2, <2>3, <2>4
<1> QED
  BY <1>10, <1>12, <1>13, <1>14

LEMMA ScanIInvCompare == ScanIInv /\ Compare => ScanIInv'
<1> SUFFICES ASSUME ScanIInv, Compare PROVE ScanIInv'
  OBVIOUS
<1> USE DEF shareVars
<1>1. PICK previous, current, walked, q :
        /\ previous = AbsorbNewlyReadable(baseline, seen, before, unreadable)
        /\ current = CarryForwardUnreadable(previous, seen, unreadable)
        /\ walked \in SetToSeqs(Appeared(previous, current)) /\ q = Reports(previous, current, walked)
        /\ baseline' = previous /\ seen' = current /\ outbox' = q
        /\ believed' = believed \cup Appeared(baseline, previous)
  BY DEF Compare
<1>2. /\ pc = "walk" /\ toRead = {} /\ ~first /\ pc' = "post" /\ ~sent'
      /\ UNCHANGED <<shareVars, stopped, first, before, since, startedAt, toRead, unreadable,
                     missing, walkAt, lastWalk, clean, faults>>
  BY DEF Compare
<1>3. /\ IsListing(baseline) /\ IsListing(seen) /\ before \subseteq Folders /\ unreadable \subseteq Folders
      /\ believed \subseteq Paths /\ since \in Nat
  BY DEF ScanIInv, ScanTypeOK
<1>4. /\ walkAt \in Nat /\ lastWalk.at \in Nat /\ since <= lastWalk.at /\ lastWalk.skipped = before
      /\ startedAt <= walkAt
  BY <1>2 DEF ScanIInv, TimesFit
<1>5. /\ \A p \in Paths : p \in DOMAIN seen \/ p \in missing \/ Under(p, unreadable)
      /\ \A p \in DOMAIN seen : ~Under(p, unreadable)
  BY <1>2 DEF ScanIInv, WalkSound
<1>6. clean => believed = DOMAIN baseline
  BY <1>2 DEF ScanIInv, ToldAddsUp
<1>7. PICK opened : opened = {d \in before : ~Beneath(d, unreadable)}
  OBVIOUS
<1>8. PICK SO, SU : SO = {p \in Paths : Under(p, opened)} /\ SU = {p \in Paths : Under(p, unreadable)}
  OBVIOUS
<1>9. previous = FilledUp(baseline, Only(seen, SO)) /\ current = FilledUp(seen, Only(previous, SU))
  BY <1>1, <1>7, <1>8 DEF AbsorbNewlyReadable, CarryForwardUnreadable
<1>10. IsListing(previous) /\ IsListing(current)
  <2>1. IsListing(previous)
    BY <1>3, <1>9, MergeIs
  <2> QED
    BY <1>3, <1>9, <2>1, MergeIs
<1>11. DOMAIN previous = DOMAIN baseline \cup (DOMAIN seen \cap SO)
  BY <1>9 DEF FilledUp, Only
<1>12. DOMAIN current = DOMAIN seen \cup (DOMAIN previous \cap SU)
  BY <1>9 DEF FilledUp, Only
<1>13. DOMAIN previous \subseteq Paths /\ DOMAIN seen \subseteq Paths
  BY <1>3, <1>10 DEF IsListing
<1>14. Vanished(previous, current) \subseteq missing
  BY <1>5, <1>8, <1>12, <1>13 DEF Vanished
<1>15. ASSUME NEW p \in Appeared(previous, current) PROVE ~Under(p, lastWalk.skipped)
  <2>1. p \in DOMAIN seen /\ p \notin DOMAIN previous /\ p \in Paths
    BY <1>12, <1>13 DEF Appeared
  <2>2. p \notin SO /\ ~Under(p, unreadable)
    BY <1>5, <1>11, <2>1
  <2>3. PICK f \in Folders : f = FolderOf[p]
    BY <2>1, ScanAssumption
  <2> SUFFICES ASSUME NEW d \in before, <<f, d>> \in Inside PROVE FALSE
    BY <1>4, <2>3 DEF Under, Beneath
  <2>4. d \notin opened
    BY <1>8, <2>1, <2>2, <2>3 DEF Under, Beneath
  <2>5. PICK e \in unreadable : <<d, e>> \in Inside
    BY <1>7, <2>4 DEF Beneath
  <2>6. <<f, e>> \in Inside
    BY <1>3, <2>5, ScanAssumption
  <2> QED
    BY <2>2, <2>3, <2>5, <2>6 DEF Under, Beneath
<1>16. PICK gone, walk, at : gone = missing /\ walk = lastWalk /\ at = lastWalk.at
  OBVIOUS
<1>17. /\ q \in Seq(Event) /\ EventsTrue(q, current, gone, walk) /\ EachOnce(q)
       /\ Apply(q, DOMAIN previous) = DOMAIN current
  <2>1. /\ Vanished(previous, current) \subseteq gone /\ walk.at = at /\ at \in Nat /\ since <= at
        /\ \A p \in Appeared(previous, current) : ~Under(p, walk.skipped)
    BY <1>4, <1>14, <1>15, <1>16
  <2> QED
    BY <1>1, <1>3, <1>10, <2>1, CompareFits
<1>18. Appeared(baseline, previous) = DOMAIN previous \ DOMAIN baseline /\ DOMAIN baseline \subseteq DOMAIN previous
  BY <1>11 DEF Appeared
<1>19. believed' \subseteq Paths /\ (clean => believed' = DOMAIN previous)
  BY <1>1, <1>3, <1>6, <1>13, <1>18
<1>20. ScanTypeOK'
  <2>1. IsListing(baseline') /\ IsListing(seen') /\ outbox' \in Seq(Event)
    BY <1>1, <1>10, <1>17
  <2>2. sent' \in BOOLEAN
    BY DEF Compare
  <2> QED
    BY <1>2, <1>19, <2>1, <2>2 DEF ScanIInv, ScanTypeOK
<1>21. TimesFit'
  BY <1>2, <1>4 DEF TimesFit
<1>22. WalkSound'
  BY <1>2 DEF WalkSound
<1>23. OutboxTrue'
  <2>1. EventsTrue(outbox', seen', missing', lastWalk')
    BY <1>1, <1>2, <1>16, <1>17
  <2>2. EachOnce(outbox')
    BY <1>1, <1>17
  <2> QED
    BY <1>2, <2>1, <2>2 DEF OutboxTrue
<1>24. ToldAddsUp'
  <2> SUFFICES ASSUME clean PROVE believed' = DOMAIN baseline' /\ Apply(outbox', believed') = DOMAIN seen'
    BY <1>2 DEF ToldAddsUp
  <2>1. believed' = DOMAIN previous
    BY <1>19
  <2> QED
    BY <1>1, <1>17, <2>1
<1> QED
  BY <1>20, <1>21, <1>22, <1>23, <1>24 DEF ScanIInv

\* What a batch leaves in the outbox, and what the two tell.
LEMMA OutboxSplits ==
    ASSUME ScanIInv
    PROVE  /\ Batch \in Seq(Event) /\ AfterBatch \in Seq(Event)
           /\ EventsTrue(AfterBatch, seen, missing, lastWalk) /\ EachOnce(AfterBatch)
           /\ Apply(AfterBatch, Apply(Batch, believed)) = Apply(outbox, believed)
           /\ Apply(Batch, believed) \subseteq Paths
<1>1. PICK q, listing, gone, walk, paths :
        q = outbox /\ listing = seen /\ gone = missing /\ walk = lastWalk /\ paths = believed
  OBVIOUS
<1>2. /\ q \in Seq(Event) /\ EventsTrue(q, listing, gone, walk) /\ EachOnce(q) /\ paths \in SUBSET Paths
  BY <1>1 DEF ScanIInv, ScanTypeOK, OutboxTrue
<1>3. PICK len \in Nat : len = Len(q)
  BY <1>2
<1>4. PICK n \in Nat : n = (IF len < BatchSize THEN len ELSE BatchSize) /\ n <= len
  BY ScanAssumption
<1>5. PICK b, r : b = SubSeq(q, 1, n) /\ r = SubSeq(q, n + 1, Len(q))
  OBVIOUS
<1>6. /\ b \in Seq(Event) /\ r \in Seq(Event) /\ EventsTrue(r, listing, gone, walk) /\ EachOnce(r)
      /\ Apply(r, Apply(b, paths)) = Apply(q, paths)
  <2>1. n \in Nat /\ n <= Len(q)
    BY <1>3, <1>4
  <2>2. Splits(q, n, b, r)
    BY <1>5 DEF Splits
  <2> QED
    BY ONLY <1>2, <2>1, <2>2, BatchesFit
<1>7. Batch = b
  BY <1>1, <1>3, <1>4, <1>5 DEF Batch
<1>8. AfterBatch = r
  <2>1. CASE n = BatchSize
    BY <1>1, <1>5, <2>1 DEF AfterBatch
  <2>2. CASE n = len /\ len < BatchSize
    <3>1. SubSeq(q, BatchSize + 1, len) = <<>>
      BY <2>2, ScanAssumption, SubSeqEmpty
    <3>2. SubSeq(q, n + 1, len) = <<>>
      BY <2>2, SubSeqEmpty
    <3> QED
      BY <1>1, <1>3, <1>5, <3>1, <3>2 DEF AfterBatch
  <2> QED
    BY <1>4, <2>1, <2>2
<1>9. Apply(b, paths) \in SUBSET Paths
  BY <1>2, <1>6, ApplyType
<1> QED
  BY <1>1, <1>6, <1>7, <1>8, <1>9

LEMMA ScanIInvPost == ScanIInv /\ (PostBatch \/ BatchRefused) => ScanIInv'
<1> SUFFICES ASSUME ScanIInv, PostBatch \/ BatchRefused PROVE ScanIInv'
  OBVIOUS
<1> USE DEF shareVars, loopVars, walkVars
<1>1. PICK r, told : r = AfterBatch /\ told = Apply(Batch, believed)
  OBVIOUS
<1>2. /\ r \in Seq(Event) /\ EventsTrue(r, seen, missing, lastWalk) /\ EachOnce(r)
      /\ Apply(r, told) = Apply(outbox, believed) /\ told \subseteq Paths
  BY <1>1, OutboxSplits
<1>3. /\ pc = "post" /\ pc' = "post" /\ outbox # <<>> /\ outbox' = r
      /\ UNCHANGED <<shareVars, loopVars, startedAt, walkVars, lastWalk>>
  BY <1>1 DEF PostBatch, BatchRefused
<1>4. ~first
  BY <1>3 DEF ScanIInv, OutboxTrue
<1>5. \/ sent' = TRUE /\ believed' = told /\ clean' = clean /\ faults' = faults
      \/ clean' = FALSE /\ believed' = believed /\ sent' = sent /\ faults' \in 0..MaxFaults
  BY <1>1, ScanAssumption DEF PostBatch, BatchRefused, Fault, ScanIInv, ScanTypeOK
<1>6. ScanTypeOK'
  BY <1>2, <1>3, <1>5 DEF ScanIInv, ScanTypeOK
<1>7. TimesFit' /\ WalkSound'
  BY <1>3 DEF ScanIInv, TimesFit, WalkSound
<1>8. OutboxTrue'
  <2>1. EventsTrue(outbox', seen', missing', lastWalk') /\ EachOnce(outbox')
    BY <1>2, <1>3
  <2> QED
    BY <1>3, <1>4, <2>1 DEF OutboxTrue
<1>9. ToldAddsUp'
  <2> SUFFICES ASSUME clean' PROVE sent' /\ Apply(outbox', believed') = DOMAIN seen'
    BY <1>3 DEF ToldAddsUp
  <2>1. clean /\ sent' /\ believed' = told
    BY <1>5
  <2>2. Apply(outbox, believed) = DOMAIN seen
    BY <1>3, <1>4, <2>1 DEF ScanIInv, ToldAddsUp
  <2> QED
    BY <1>2, <1>3, <2>1, <2>2
<1> QED
  BY <1>6, <1>7, <1>8, <1>9 DEF ScanIInv

\* A scan that fails leaves the baseline; what had been taken of it tells on `clean`.
LEMMA ScanIInvFails == ScanIInv /\ (PostFails \/ SnapshotFails) => ScanIInv'
<1> SUFFICES ASSUME ScanIInv, PostFails \/ SnapshotFails PROVE ScanIInv'
  OBVIOUS
<1> USE DEF shareVars, loopVars, walkVars, AfterScan
<1>1. /\ pc = "post" /\ pc' \in {"idle", "ended"} /\ outbox' = <<>> /\ faults' \in 0..MaxFaults
      /\ UNCHANGED <<shareVars, loopVars, startedAt, walkVars, sent, lastWalk>>
  BY ScanAssumption DEF PostFails, SnapshotFails, Fault, ScanIInv, ScanTypeOK
<1>2. PICK told : told = Apply(Batch, believed)
  OBVIOUS
<1>3. told \subseteq Paths
  BY <1>2, OutboxSplits
<1>4. /\ believed' \in {believed, told} /\ clean' \in BOOLEAN
      /\ clean' => clean /\ ~sent /\ believed' = believed
  BY <1>2 DEF PostFails, SnapshotFails, ScanIInv, ScanTypeOK
<1>5. ScanTypeOK'
  BY <1>1, <1>3, <1>4, EmptyIs DEF ScanIInv, ScanTypeOK
<1>6. TimesFit' /\ WalkSound'
  BY <1>1 DEF ScanIInv, TimesFit, WalkSound
<1>7. OutboxTrue'
  BY <1>1 DEF OutboxTrue, EventsTrue, EachOnce
<1>8. ToldAddsUp'
  BY <1>1, <1>4 DEF ScanIInv, ToldAddsUp
<1> QED
  BY <1>5, <1>6, <1>7, <1>8 DEF ScanIInv

LEMMA ScanIInvComplete == ScanIInv /\ Complete => ScanIInv'
<1> SUFFICES ASSUME ScanIInv, Complete PROVE ScanIInv'
  OBVIOUS
<1> USE DEF ScanIInv, Complete, shareVars, AfterScan
<1>1. pc' \in {"idle", "ended"} /\ outbox' = <<>> /\ baseline' = seen /\ seen' = seen
  OBVIOUS
<1>2. believed' = (IF first THEN DOMAIN seen ELSE believed) /\ DOMAIN seen \subseteq Paths
  BY DEF ScanTypeOK, IsListing
<1>3. ScanTypeOK'
  BY <1>1, <1>2 DEF ScanTypeOK
<1>4. TimesFit'
  BY <1>1 DEF TimesFit, ScanTypeOK
<1>5. WalkSound'
  BY <1>1 DEF WalkSound
<1>6. OutboxTrue'
  BY <1>1 DEF OutboxTrue, EventsTrue, EachOnce
<1>7. ToldAddsUp'
  <2> SUFFICES ASSUME clean PROVE believed' = DOMAIN baseline'
    BY <1>1 DEF ToldAddsUp
  <2>1. CASE first
    BY <1>1, <1>2, <2>1
  <2>2. CASE ~first
    <3>1. PICK q, paths : q = outbox /\ paths = believed
      OBVIOUS
    <3>2. q = <<>> /\ Apply(q, paths) = DOMAIN seen
      BY <2>2, <3>1 DEF ToldAddsUp
    <3>3. Apply(q, paths) = paths
      BY <3>2, ApplyEmpty
    <3> QED
      BY <1>1, <1>2, <2>2, <3>1, <3>2, <3>3
  <2> QED
    BY <2>1, <2>2
<1> QED
  BY <1>3, <1>4, <1>5, <1>6, <1>7

LEMMA ScanIInvAnew == ScanIInv /\ (Stop \/ StartLoop \/ AgentRestart) => ScanIInv'
<1> SUFFICES ASSUME ScanIInv, Stop \/ StartLoop \/ AgentRestart PROVE ScanIInv'
  OBVIOUS
<1> USE DEF ScanIInv, shareVars
<1>1. faults' \in 0..MaxFaults
  BY ScanAssumption DEF Stop, StartLoop, AgentRestart, Fault, ScanTypeOK
<1>2. CASE Stop
  <2> USE <1>2 DEF Stop, walkVars, reportVars
  <2>1. pc' = pc \/ (pc = "idle" /\ pc' = "ended")
    OBVIOUS
  <2>2. ScanTypeOK'
    BY <1>1, <2>1 DEF ScanTypeOK
  <2>3. TimesFit' /\ WalkSound' /\ ToldAddsUp'
    BY <2>1 DEF TimesFit, WalkSound, ToldAddsUp
  <2>4. OutboxTrue'
    BY <2>1 DEF OutboxTrue
  <2> QED
    BY <2>2, <2>3, <2>4
<1>3. CASE NewLoop
  <2> USE <1>3 DEF NewLoop
  <2>1. ScanTypeOK'
    <3>1. /\ IsListing(share') /\ IsListing(baseline') /\ IsListing(seen') /\ outbox' \in Seq(Event)
          /\ locked' \subseteq Folders \ {Root} /\ clock' \in 1..MaxClock /\ changes' \in 0..MaxChanges
      BY EmptyIs DEF ScanTypeOK
    <3>2. /\ before' \subseteq Folders /\ unreadable' \subseteq Folders /\ toRead' \subseteq Folders
          /\ missing' \subseteq Paths /\ believed' \subseteq Paths
      OBVIOUS
    <3>3. {stopped', first', sent', clean'} \subseteq BOOLEAN /\ pc' = "idle"
      OBVIOUS
    <3>4. since' \in 0..clock' /\ startedAt' \in 0..clock'
      BY <3>1
    <3> HIDE DEF NewLoop
    <3> QED
      BY ONLY <1>1, <3>1, <3>2, <3>3, <3>4 DEF ScanTypeOK
  <2>2. TimesFit' /\ WalkSound' /\ ToldAddsUp'
    BY DEF TimesFit, WalkSound, ToldAddsUp
  <2>3. OutboxTrue'
    BY DEF OutboxTrue, EventsTrue, EachOnce
  <2> QED
    BY <2>1, <2>2, <2>3
<1> QED
  BY <1>2, <1>3 DEF StartLoop, AgentRestart

LEMMA ScanIInvNext == ScanIInv /\ [ScanNext]_scanVars => ScanIInv'
<1> SUFFICES ASSUME ScanIInv, [ScanNext]_scanVars PROVE ScanIInv'
  OBVIOUS
<1>1. CASE UNCHANGED scanVars
  <2> USE <1>1 DEF ScanIInv, scanVars, shareVars, loopVars, walkVars, reportVars
  <2>1. ScanTypeOK'
    BY DEF ScanTypeOK
  <2>2. TimesFit' /\ WalkSound' /\ ToldAddsUp'
    BY DEF TimesFit, WalkSound, ToldAddsUp
  <2>3. OutboxTrue'
    BY DEF OutboxTrue
  <2> QED
    BY <2>1, <2>2, <2>3
<1>2. CASE ScanNext
  BY <1>2, ScanIInvPeople, ScanIInvTime, ScanIInvTurn, ScanIInvRead, ScanIInvWalkEnds, ScanIInvCompare,
     ScanIInvPost, ScanIInvFails, ScanIInvComplete, ScanIInvAnew DEF ScanNext, Scan
<1> QED
  BY <1>1, <1>2

LEMMA ScanIInvAlways == ScanSpec => []ScanIInv
BY ScanIInvInit, ScanIInvNext, PTL DEF ScanSpec

\* The listings a diff loop keeps stay listings, of paths and stamps, and its outbox
\* holds events, for every tree of folders and whatever people do to it.
THEOREM ScanTypeCorrect == ScanSpec => []ScanTypeOK
<1>1. ScanIInv => ScanTypeOK
  BY DEF ScanIInv
<1> QED
  BY <1>1, ScanIInvAlways, PTL

\* What a diff loop reports adds up to the share as it listed it last, each path is told
\* of once, nothing is told gone that was only out of sight and nothing new that had been
\* there, for every tree of folders, order of walking, size of batch and number of
\* changes, failures and restarts.
THEOREM DiffSound == ScanSpec => []DiffIsTrue
<1>1. ScanIInv => DiffIsTrue
  <2> SUFFICES ASSUME ScanIInv PROVE DiffIsTrue
    OBVIOUS
  <2> USE DEF ScanIInv
  <2>1. ReportsAddUp
    BY DEF ReportsAddUp, ToldAddsUp
  <2>2. OneReportEach
    BY DEF OneReportEach, OutboxTrue, EachOnce, Goes, GoneBy
  <2>3. GoneWasMissing /\ OpeningIsSilent /\ PastesPredateTheWalk
    BY DEF GoneWasMissing, OpeningIsSilent, PastesPredateTheWalk, OutboxTrue, EventsTrue, EventTrue
  <2> QED
    BY <2>1, <2>2, <2>3 DEF DiffIsTrue
<1> QED
  BY <1>1, ScanIInvAlways, PTL
=============================================================================
