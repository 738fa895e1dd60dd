----------------------- MODULE ResponseActions_proofs -----------------------
(***************************************************************************)
(* Proofs about ResponseActions, for every set of alerts, rows, requests,  *)
(* policy runs and polls, and every setting.                               *)
(***************************************************************************)
EXTENDS ResponseActions, TLAPS

\* Every step keeps every variable in its type.
LEMMA TypeStep == TypeOK /\ [Next]_vars => TypeOK'
<1> SUFFICES ASSUME TypeOK, [Next]_vars PROVE TypeOK'
    OBVIOUS
<1> USE ConstantsAssumption DEF TypeOK, rowVars, taskVars, RowStatus, AlertStatus
<1>1. ASSUME NEW a \in Alerts, RaiseAlert(a) PROVE TypeOK'
  BY <1>1 DEF RaiseAlert
<1>2. ASSUME NEW a \in Alerts, SuggestNotification(a) PROVE TypeOK'
  BY <1>2 DEF SuggestNotification, Fresh, Insert
<1>3. ASSUME NEW a \in Alerts, SuggestQuarantine(a) PROVE TypeOK'
  BY <1>3 DEF SuggestQuarantine, Fresh, Insert
<1>4. ASSUME NEW a \in Alerts, WorkerDies(a) PROVE TypeOK'
  BY <1>4 DEF WorkerDies
<1>5. ASSUME NEW a \in Alerts, ChangeStatus(a) PROVE TypeOK'
  BY <1>5 DEF ChangeStatus
<1>6. ASSUME NEW n \in Runs, StartRun(n) PROVE TypeOK'
  <2>1. PICK B \in Batch(Unoffered, TakeOffer) :
           run' = [run EXCEPT ![n] = [pc |-> "offer", unoffered |-> B, due |-> {}, quiet |-> quiet]]
    BY <1>6 DEF StartRun
  <2>2. B \subseteq Alerts
    BY DEF Batch, Unoffered
  <2>3. [pc |-> "offer", unoffered |-> B, due |-> {}, quiet |-> quiet] \in RunState
    BY <2>2 DEF RunState
  <2>4. run' \in [Runs -> RunState]
    BY <2>1, <2>3
  <2> QED
    BY <1>6, <2>4 DEF StartRun
<1>7. ASSUME NEW n \in Runs, OfferOne(n) PROVE TypeOK'
  <2>1. PICK a \in run[n].unoffered :
           /\ \E x \in Fresh(a, "WEBHOOK_NOTIFICATION") : Insert(x)
           /\ run' = [run EXCEPT ![n].unoffered = @ \ {a}]
    BY <1>7 DEF OfferOne
  <2>2. status' \in [Actions -> RowStatus]
    BY <2>1 DEF Fresh, Insert, RowStatus
  <2>3. [run[n] EXCEPT !.unoffered = @ \ {a}] \in RunState
    <3>1. run[n] \in RunState
      OBVIOUS
    <3> QED
      BY ONLY <3>1 DEF RunState
  <2>4. run' \in [Runs -> RunState]
    <3>1. run \in [Runs -> RunState] /\ run' = [run EXCEPT ![n] = [run[n] EXCEPT !.unoffered = @ \ {a}]]
      BY <2>1
    <3> QED
      BY ONLY <2>3, <3>1
  <2> QED
    BY <1>7, <2>2, <2>4 DEF OfferOne
<1>8. ASSUME NEW n \in Runs, ReadDue(n) PROVE TypeOK'
  <2>1. CASE run' = [run EXCEPT ![n] = IdleRun]
    BY <1>8, <2>1 DEF ReadDue, RunState, IdleRun
  <2>2. CASE \E B \in Batch(Due, TakeDue) :
               run' = [run EXCEPT ![n] = [pc |-> "claim", unoffered |-> {}, due |-> B, quiet |-> FALSE]]
    <3>1. PICK B \in Batch(Due, TakeDue) :
             run' = [run EXCEPT ![n] = [pc |-> "claim", unoffered |-> {}, due |-> B, quiet |-> FALSE]]
      BY <2>2
    <3>2. B \subseteq Webhooks
      BY DEF Batch, Due
    <3>3. run' \in [Runs -> RunState]
      BY <3>1, <3>2 DEF RunState
    <3> QED
      BY <1>8, <3>3 DEF ReadDue
  <2> QED
    BY <1>8, <2>1, <2>2, Zenon DEF ReadDue
<1>9. ASSUME NEW n \in Runs, ClaimDue(n) PROVE TypeOK'
  <2>1. PICK x \in run[n].due :
           /\ Claim(n, x, "policy") \/ ClaimLost(x)
           /\ run' = [run EXCEPT ![n].due = @ \ {x}]
    BY <1>9 DEF ClaimDue
  <2>2. x \in Webhooks
    BY DEF RunState
  <2>3. run' \in [Runs -> RunState]
    <3>1. run[n] \in RunState
      OBVIOUS
    <3>2. [run[n] EXCEPT !.due = @ \ {x}] \in RunState
      BY ONLY <3>1 DEF RunState
    <3>3. run' = [run EXCEPT ![n] = [run[n] EXCEPT !.due = @ \ {x}]]
      BY <2>1
    <3> QED
      BY <3>2, <3>3
  <2>4. status' \in [Actions -> RowStatus] /\ authorised' \in [Actions -> SUBSET {"admin", "policy"}]
    BY <2>1, <2>2 DEF Claim, ClaimLost, Webhooks
  <2>5. sending' \subseteq Execution
    BY <2>1, <2>2 DEF Claim, ClaimLost, Execution, Tasks
  <2> QED
    BY <1>9, <2>3, <2>4, <2>5 DEF ClaimDue
<1>10. ASSUME NEW n \in Runs, EndRun(n) PROVE TypeOK'
  BY <1>10 DEF EndRun, RunState, IdleRun
<1>11. ASSUME NEW e \in sending, Send(e) PROVE TypeOK'
  BY <1>11 DEF Send, Execution, Webhooks
<1>12. ASSUME NEW e \in sending, Record(e) PROVE TypeOK'
  BY <1>12 DEF Record, Execution, Webhooks
<1>13. ASSUME NEW r \in Requests, NEW x \in Actions, NEW op \in {"approve", "reject"}, ReadRow(r, x, op) PROVE TypeOK'
  BY <1>13 DEF ReadRow, Decision
<1>14. ASSUME NEW d \in inFlight, ApproveNotification(d) PROVE TypeOK'
  BY <1>14 DEF ApproveNotification, Claim, ClaimLost, Decision, Execution, Tasks
<1>15. ASSUME NEW d \in inFlight, ApproveQuarantine(d) PROVE TypeOK'
  BY <1>15 DEF ApproveQuarantine, Decision
<1>16. ASSUME NEW d \in inFlight, Reject(d) PROVE TypeOK'
  BY <1>16 DEF Reject, Decision
<1>17. ASSUME BackendRestart PROVE TypeOK'
  BY <1>17 DEF BackendRestart, RunState, IdleRun
<1>18. ASSUME QuietHours PROVE TypeOK'
  BY <1>18 DEF QuietHours
<1>19. ASSUME NEW z \in recent, GrowOld(z) PROVE TypeOK'
  BY <1>19 DEF GrowOld
<1>20. ASSUME NEW p \in Polls, FetchCommands(p) PROVE TypeOK'
  BY <1>20 DEF FetchCommands, Commands, Quarantines
<1>21. ASSUME NEW p \in Polls, NEW x \in held[p], NEW ok \in BOOLEAN, CompleteCommand(p, x, ok) PROVE TypeOK'
  BY <1>21 DEF CompleteCommand
<1>22. ASSUME NEW p \in Polls, NEW x \in held[p], ReportLost(p, x) PROVE TypeOK'
  BY <1>22 DEF ReportLost
<1>23. CASE UNCHANGED vars
  BY <1>23 DEF vars
<1> QED
  BY <1>1, <1>2, <1>3, <1>4, <1>5, <1>6, <1>7, <1>8, <1>9, <1>10, <1>11, <1>12, <1>13, <1>14, <1>15,
     <1>16, <1>17, <1>18, <1>19, <1>20, <1>21, <1>22, <1>23
     DEF Next, BackendNext, AgentNext, Raiser, Policy, Execute, Decide

LEMMA TypeInit == Init => TypeOK
BY ConstantsAssumption DEF Init, TypeOK, AlertStatus, RowStatus, RunState, IdleRun

\* Type correctness of the response-action machinery.
THEOREM TypeCorrect == Spec => []TypeOK
BY TypeInit, TypeStep, PTL DEF Spec

(***************************************************************************)
(* The inductive invariant.  That a notification is sent once is not       *)
(* inductive: a send must be traced to the claim before it, and the claim  *)
(* to a row nobody had touched.  A rejection that was read before the      *)
(* claim may overwrite APPROVED, so a claimed row reads APPROVED or        *)
(* REJECTED until its outcome is recorded, and never PENDING.              *)
(***************************************************************************)
Claimant(e) == IF e.task \in Requests THEN "admin" ELSE "policy"

Claimed ==
    \A e \in sending :
        /\ status[e.action] \in {"APPROVED", "REJECTED"}
        /\ authorised[e.action] = {Claimant(e)}
        /\ sends[e.action] = IF e.step = "send" THEN 0 ELSE 1

OneExecution == \A e, f \in sending : e.action = f.action => e = f

Untouched ==
    \A x \in Actions : status[x] \in {"ABSENT", "PENDING"} => sends[x] = 0 /\ authorised[x] = {}

Commanded ==
    /\ \A x \in Quarantines : status[x] = "APPROVED" => "admin" \in authorised[x]
    /\ \A p \in Polls : held[p] \subseteq Quarantines

DueAutomatic == \A n \in Runs : \A x \in run[n].due : About[x] \in AutoSend

IInv == TypeOK /\ Claimed /\ OneExecution /\ Untouched /\ Commanded /\ DueAutomatic
        /\ SentAtMostOnce /\ ApproveFirst /\ OutcomeIsReal

LEMMA InvInit == Init => IInv
BY TypeInit DEF Init, IInv, Claimed, OneExecution, Untouched, Commanded, DueAutomatic,
   SentAtMostOnce, ApproveFirst, OutcomeIsReal, IdleRun, Webhooks, Quarantines

\* A step that leaves the rows, executions, commands and due lists alone.
LEMMA InvUntouchedStep ==
    ASSUME IInv, TypeOK', UNCHANGED <<status, decidedBy, authorised, sending, held, sends>>,
           DueAutomatic'
    PROVE  IInv'
BY DEF IInv, Claimed, Claimant, OneExecution, Untouched, Commanded, DueAutomatic,
   SentAtMostOnce, ApproveFirst, OutcomeIsReal

\* A row is inserted: it was absent, so nothing was known of it.
LEMMA InvInsert ==
    ASSUME IInv, TypeOK', NEW x \in Actions, status[x] = "ABSENT", Insert(x),
           UNCHANGED <<decidedBy, authorised, sending, held, sends>>, DueAutomatic'
    PROVE  IInv'
<1> USE DEF IInv, Insert, TypeOK
<1>1. Claimed' /\ OneExecution'
  BY DEF Claimed, Claimant, OneExecution, Execution, Webhooks
<1>2. Untouched' /\ Commanded'
  BY DEF Untouched, Commanded, Quarantines
<1>3. SentAtMostOnce' /\ ApproveFirst' /\ OutcomeIsReal'
  BY DEF SentAtMostOnce, ApproveFirst, OutcomeIsReal, Webhooks
<1> QED
  BY <1>1, <1>2, <1>3

\* A claim finds its row PENDING, so no execution is about that row and
\* nobody had decided on it; a lost claim changes nothing.
LEMMA InvClaim ==
    ASSUME IInv, TypeOK', NEW t \in Tasks, NEW x \in Webhooks,
           NEW who, who = IF t \in Requests THEN "admin" ELSE "policy",
           who = "policy" => About[x] \in AutoSend,
           Claim(t, x, who) \/ ClaimLost(x),
           UNCHANGED <<decidedBy, held, sends>>, DueAutomatic'
    PROVE  IInv'
<1>1. CASE ClaimLost(x)
  BY <1>1, InvUntouchedStep DEF ClaimLost
<1>2. CASE Claim(t, x, who)
  <2> USE DEF IInv, TypeOK
  <2> DEFINE new == [task |-> t, action |-> x, step |-> "send"]
  <2>1. status[x] = "PENDING" /\ x \in Actions
    BY <1>2 DEF Claim, Webhooks
  <2>2. sends[x] = 0 /\ authorised[x] = {}
    BY <2>1 DEF Untouched
  <2>3. \A e \in sending : e.action # x
    BY <2>1 DEF Claimed
  <2>4. /\ status' = [status EXCEPT ![x] = "APPROVED"]
        /\ authorised' = [authorised EXCEPT ![x] = {who}]
        /\ sending' = sending \cup {new}
    BY <1>2, <2>2 DEF Claim
  <2>5. Claimed'
    BY <2>1, <2>2, <2>3, <2>4 DEF Claimed, Claimant, Execution, Webhooks
  <2>6. OneExecution'
    BY <2>3, <2>4 DEF OneExecution
  <2>7. Untouched' /\ Commanded'
    BY <2>1, <2>4 DEF Untouched, Commanded, Webhooks, Quarantines
  <2>8. SentAtMostOnce'
    BY DEF SentAtMostOnce
  <2>9. ApproveFirst'
    BY <2>1, <2>2, <2>4 DEF ApproveFirst, Webhooks
  <2>10. OutcomeIsReal'
    BY <2>1, <2>4 DEF OutcomeIsReal, Webhooks
  <2> QED
    BY <2>5, <2>6, <2>7, <2>8, <2>9, <2>10
<1> QED
  BY <1>1, <1>2

LEMMA InvSend == ASSUME IInv, TypeOK', NEW e \in sending, Send(e) PROVE IInv'
<1> USE DEF IInv, TypeOK, Send, rowVars
<1>1. e \in Execution /\ e.action \in Actions /\ e.action \in Webhooks
  BY DEF Execution, Webhooks
<1>2. PICK result \in {"ok", "failed"} :
         sending' = (sending \ {e}) \cup {[e EXCEPT !.step = result]}
  OBVIOUS
<1>3. /\ sends[e.action] = 0 /\ sends'[e.action] = 1 /\ authorised[e.action] # {}
      /\ \A x \in Actions \ {e.action} : sends'[x] = sends[x]
      /\ status[e.action] \in {"APPROVED", "REJECTED"}
  <2>1. e.step = "send" /\ sends' = [sends EXCEPT ![e.action] = @ + 1] /\ sends \in [Actions -> Nat]
    OBVIOUS
  <2>2. /\ status[e.action] \in {"APPROVED", "REJECTED"} /\ authorised[e.action] = {Claimant(e)}
        /\ sends[e.action] = 0
    BY ONLY <2>1, e \in sending, Claimed DEF Claimed
  <2> QED
    BY ONLY <1>1, <2>1, <2>2
<1>4. Claimed'
  BY <1>1, <1>2, <1>3 DEF Claimed, Claimant, OneExecution, Execution, Webhooks
<1>5. OneExecution'
  BY <1>1, <1>2 DEF OneExecution, Execution
<1>6. Untouched' /\ Commanded'
  BY <1>1, <1>3 DEF Untouched, Commanded
<1>7. SentAtMostOnce' /\ ApproveFirst' /\ OutcomeIsReal'
  BY <1>1, <1>3 DEF SentAtMostOnce, ApproveFirst, OutcomeIsReal, Webhooks
<1>8. DueAutomatic'
  BY DEF DueAutomatic
<1> QED
  BY <1>4, <1>5, <1>6, <1>7, <1>8

LEMMA InvRecord == ASSUME IInv, TypeOK', NEW e \in sending, Record(e) PROVE IInv'
<1> USE DEF IInv, TypeOK, Record
<1>1. e \in Execution /\ e.action \in Actions /\ e.action \in Webhooks
  BY DEF Execution, Webhooks
<1>2. sends[e.action] = 1 /\ authorised[e.action] = {Claimant(e)}
  BY <1>1 DEF Claimed, Execution
<1>3. \A f \in sending' : f \in sending /\ f.action # e.action
  BY DEF OneExecution
<1>4. Claimed' /\ OneExecution'
  BY <1>1, <1>3 DEF Claimed, Claimant, OneExecution, Execution, Webhooks
<1>5. Untouched' /\ Commanded'
  BY <1>1, <1>2 DEF Untouched, Commanded, Webhooks, Quarantines
<1>6. SentAtMostOnce' /\ ApproveFirst'
  BY DEF SentAtMostOnce, ApproveFirst
<1>7. OutcomeIsReal'
  BY <1>1, <1>2 DEF OutcomeIsReal, Claimant, Webhooks
<1>8. DueAutomatic'
  BY DEF DueAutomatic
<1> QED
  BY <1>4, <1>5, <1>6, <1>7, <1>8

LEMMA InvDecide ==
    ASSUME IInv, TypeOK', NEW d \in inFlight, ApproveQuarantine(d) \/ Reject(d)
    PROVE  IInv'
<1> USE DEF IInv, TypeOK
<1>1. d.action \in Actions
  BY DEF Decision
<1>2. CASE ApproveQuarantine(d)
  <2> USE <1>2 DEF ApproveQuarantine
  <2>1. Claimed' /\ OneExecution'
    BY <1>1 DEF Claimed, Claimant, OneExecution, Execution, Webhooks, Quarantines
  <2>2. Untouched' /\ Commanded' /\ DueAutomatic'
    BY <1>1 DEF Untouched, Commanded, DueAutomatic
  <2>3. SentAtMostOnce' /\ ApproveFirst' /\ OutcomeIsReal'
    BY <1>1 DEF SentAtMostOnce, ApproveFirst, OutcomeIsReal, Webhooks, Quarantines
  <2> QED
    BY <2>1, <2>2, <2>3
<1>3. CASE Reject(d)
  <2> USE <1>3 DEF Reject
  <2>1. Claimed' /\ OneExecution'
    BY <1>1 DEF Claimed, Claimant, OneExecution, Execution, Webhooks
  <2>2. Untouched' /\ Commanded' /\ DueAutomatic'
    BY <1>1 DEF Untouched, Commanded, DueAutomatic, Quarantines
  <2>3. SentAtMostOnce' /\ ApproveFirst' /\ OutcomeIsReal'
    BY <1>1 DEF SentAtMostOnce, ApproveFirst, OutcomeIsReal, Webhooks
  <2> QED
    BY <2>1, <2>2, <2>3
<1> QED
  BY <1>2, <1>3

LEMMA InvAgent ==
    ASSUME IInv, TypeOK', NEW p \in Polls,
           \/ FetchCommands(p)
           \/ \E x \in held[p] : (\E ok \in BOOLEAN : CompleteCommand(p, x, ok)) \/ ReportLost(p, x)
    PROVE  IInv'
<1> USE DEF IInv, TypeOK, taskVars, rowVars
<1>1. CASE FetchCommands(p)
  BY <1>1 DEF FetchCommands, Commands, Claimed, Claimant, OneExecution, Untouched, Commanded,
     DueAutomatic, SentAtMostOnce, ApproveFirst, OutcomeIsReal, Quarantines
<1>2. ASSUME NEW x \in held[p], NEW ok \in BOOLEAN, CompleteCommand(p, x, ok) PROVE IInv'
  <2> USE <1>2 DEF CompleteCommand
  <2>1. x \in Quarantines /\ x \in Actions /\ x \notin Webhooks
    BY DEF Commanded, Quarantines, Webhooks
  <2>2. /\ \A y \in Actions \ {x} : status'[y] = status[y]
        /\ UNCHANGED <<decidedBy, authorised, sending, sends>>
    BY <2>1
  <2>3. \A e \in sending : e.action \in Actions \ {x}
    BY <2>1 DEF Execution, Webhooks
  <2>4. Claimed' /\ OneExecution'
    BY <2>2, <2>3 DEF Claimed, Claimant, OneExecution
  <2>5. Untouched' /\ Commanded' /\ DueAutomatic'
    BY <2>1 DEF Untouched, Commanded, DueAutomatic
  <2>6. SentAtMostOnce' /\ ApproveFirst' /\ OutcomeIsReal'
    BY <2>1 DEF SentAtMostOnce, ApproveFirst, OutcomeIsReal, Webhooks
  <2> QED
    BY <2>4, <2>5, <2>6
<1>3. ASSUME NEW x \in held[p], ReportLost(p, x) PROVE IInv'
  BY <1>3 DEF ReportLost, Claimed, Claimant, OneExecution, Untouched, Commanded,
     DueAutomatic, SentAtMostOnce, ApproveFirst, OutcomeIsReal
<1> QED
  BY <1>1, <1>2, <1>3

LEMMA InvStep == IInv /\ [Next]_vars => IInv'
<1> SUFFICES ASSUME IInv, [Next]_vars PROVE IInv'
    OBVIOUS
<1>0. TypeOK /\ TypeOK'
  BY TypeStep DEF IInv
<1> USE <1>0 DEF rowVars, taskVars
<1>1. ASSUME NEW a \in Alerts, Raiser(a) PROVE IInv'
  <2>1. DueAutomatic'
    BY <1>1 DEF Raiser, RaiseAlert, SuggestNotification, SuggestQuarantine, WorkerDies, IInv, DueAutomatic
  <2>2. CASE RaiseAlert(a) \/ WorkerDies(a)
    BY <2>1, <2>2, InvUntouchedStep DEF RaiseAlert, WorkerDies
  <2>3. CASE SuggestNotification(a)
    BY <2>1, <2>3, InvInsert DEF SuggestNotification, Fresh
  <2>4. CASE SuggestQuarantine(a)
    BY <2>1, <2>4, InvInsert DEF SuggestQuarantine, Fresh
  <2> QED
    BY <1>1, <2>2, <2>3, <2>4 DEF Raiser
<1>2. ASSUME NEW a \in Alerts, ChangeStatus(a) PROVE IInv'
  BY <1>2, InvUntouchedStep DEF ChangeStatus, IInv, DueAutomatic
<1>3. ASSUME NEW n \in Runs, Policy(n) PROVE IInv'
  <2>1. CASE StartRun(n)
    <3>1. DueAutomatic'
      BY <2>1 DEF StartRun, IInv, DueAutomatic, TypeOK
    <3> QED
      BY <2>1, <3>1, InvUntouchedStep DEF StartRun
  <2>2. CASE OfferOne(n)
    <3>1. DueAutomatic'
      BY <2>2 DEF OfferOne, IInv, DueAutomatic, TypeOK, RunState
    <3>2. PICK a \in run[n].unoffered : \E x \in Fresh(a, "WEBHOOK_NOTIFICATION") : Insert(x)
      BY <2>2 DEF OfferOne
    <3> QED
      BY <2>2, <3>1, <3>2, InvInsert DEF OfferOne, Fresh
  <2>3. CASE ReadDue(n)
    <3>1. ASSUME NEW B \in Batch(Due, TakeDue),
                 run' = [run EXCEPT ![n] = [pc |-> "claim", unoffered |-> {}, due |-> B, quiet |-> FALSE]]
          PROVE  DueAutomatic'
      <4>1. \A x \in B : About[x] \in AutoSend
        BY DEF Batch, Due
      <4> QED
        BY <3>1, <4>1 DEF IInv, DueAutomatic, TypeOK
    <3>2. ASSUME run' = [run EXCEPT ![n] = IdleRun] PROVE DueAutomatic'
      BY <3>2 DEF IInv, DueAutomatic, TypeOK, IdleRun
    <3>3. DueAutomatic'
      BY <2>3, <3>1, <3>2, Zenon DEF ReadDue
    <3> QED
      BY <2>3, <3>3, InvUntouchedStep DEF ReadDue
  <2>4. CASE ClaimDue(n)
    <3>1. PICK x \in run[n].due :
             /\ Claim(n, x, "policy") \/ ClaimLost(x)
             /\ run' = [run EXCEPT ![n].due = @ \ {x}]
      BY <2>4 DEF ClaimDue
    <3>2. x \in Webhooks /\ About[x] \in AutoSend
      BY DEF TypeOK, RunState, IInv, DueAutomatic
    <3>3. DueAutomatic'
      BY <3>1 DEF IInv, DueAutomatic, TypeOK, RunState
    <3>4. n \in Tasks /\ n \notin Requests
      BY ConstantsAssumption DEF Tasks
    <3> QED
      BY <2>4, <3>1, <3>2, <3>3, <3>4, InvClaim DEF ClaimDue
  <2>5. CASE EndRun(n)
    <3>1. DueAutomatic'
      BY <2>5 DEF EndRun, IInv, DueAutomatic, TypeOK, IdleRun
    <3> QED
      BY <2>5, <3>1, InvUntouchedStep DEF EndRun
  <2> QED
    BY <1>3, <2>1, <2>2, <2>3, <2>4, <2>5 DEF Policy
<1>4. ASSUME NEW e \in sending, Execute(e) PROVE IInv'
  BY <1>4, InvSend, InvRecord DEF Execute
<1>5. ASSUME NEW r \in Requests, NEW x \in Actions, NEW op \in {"approve", "reject"}, ReadRow(r, x, op)
      PROVE  IInv'
  BY <1>5, InvUntouchedStep DEF ReadRow, IInv, DueAutomatic
<1>6. ASSUME NEW d \in inFlight, Decide(d) PROVE IInv'
  <2>1. CASE ApproveNotification(d)
    <3>1. d.task \in Tasks /\ d.task \in Requests /\ d.action \in Webhooks
      BY <2>1 DEF ApproveNotification, TypeOK, Decision, Tasks
    <3>2. Claim(d.task, d.action, "admin") \/ ClaimLost(d.action)
      BY <2>1 DEF ApproveNotification
    <3>3. DueAutomatic' /\ UNCHANGED <<decidedBy, held, sends>>
      BY <2>1 DEF ApproveNotification, IInv, DueAutomatic
    <3> QED
      BY <3>1, <3>2, <3>3, InvClaim
  <2> QED
    BY <1>6, <2>1, InvDecide DEF Decide
<1>7. CASE BackendRestart
  BY <1>7 DEF BackendRestart, IdleRun, IInv, Claimed, OneExecution, Untouched, Commanded, DueAutomatic,
     SentAtMostOnce, ApproveFirst, OutcomeIsReal
<1>8. CASE QuietHours
  BY <1>8, InvUntouchedStep DEF QuietHours, IInv, DueAutomatic
<1>9. ASSUME NEW z \in recent, GrowOld(z) PROVE IInv'
  BY <1>9, InvUntouchedStep DEF GrowOld, IInv, DueAutomatic
<1>10. CASE AgentNext
  BY <1>10, InvAgent DEF AgentNext
<1>11. CASE UNCHANGED vars
  BY <1>11, InvUntouchedStep DEF vars, IInv, DueAutomatic
<1> QED
  BY <1>1, <1>2, <1>3, <1>4, <1>5, <1>6, <1>7, <1>8, <1>9, <1>10, <1>11 DEF Next, BackendNext

LEMMA InvAlways == Spec => []IInv
BY InvInit, InvStep, PTL DEF Spec

\* However many policy runs and admin requests race for a row, its
\* notification goes out at most once.
THEOREM NotificationSentAtMostOnce == Spec => []SentAtMostOnce
<1>1. IInv => SentAtMostOnce
  BY DEF IInv
<1> QED
  BY <1>1, InvAlways, PTL

\* Nothing is sent, and no file command handed out, on nobody's authority;
\* the policy's authority covers only the alert types chosen for it.
THEOREM NothingUnapproved == Spec => []ApproveFirst
<1>1. IInv => ApproveFirst
  BY DEF IInv
<1> QED
  BY <1>1, InvAlways, PTL

\* A recorded outcome belongs to the one send that happened, and the row names
\* who claimed it.
THEOREM OutcomesAreReal == Spec => []OutcomeIsReal
<1>1. IInv => OutcomeIsReal
  BY DEF IInv
<1> QED
  BY <1>1, InvAlways, PTL
(***************************************************************************)
(* The refinement: a claim of a notification is its first authorisation, a *)
(* send its first firing, and every other step stutters.                   *)
(***************************************************************************)
byMap    == [x \in Webhooks |-> authorised[x]]
firedMap == [x \in Webhooks |-> sends[x]]

LEMMA RefinesClaim ==
    ASSUME IInv, NEW t \in Tasks, NEW x \in Webhooks, NEW who \in {"admin", "policy"},
           who = "policy" => About[x] \in AutoSend,
           Claim(t, x, who) \/ ClaimLost(x), sends' = sends
    PROVE  [Authority!Next]_<<byMap, firedMap>>
<1>1. CASE ClaimLost(x)
  BY <1>1 DEF ClaimLost, byMap, firedMap
<1>2. CASE Claim(t, x, who)
  <2>1. authorised[x] = {} /\ x \in Actions
    BY <1>2 DEF Claim, IInv, Untouched, Webhooks
  <2>2. authorised' = [authorised EXCEPT ![x] = {who}]
    BY <1>2, <2>1 DEF Claim
  <2>3. byMap[x] = {} /\ byMap' = [byMap EXCEPT ![x] = {who}] /\ UNCHANGED firedMap
    BY <2>1, <2>2 DEF byMap, firedMap, IInv, TypeOK, Webhooks
  <2>4. Authority!Authorise(x, who)
    BY <2>3 DEF Authority!Authorise, byMap, firedMap
  <2> QED
    BY <2>4 DEF Authority!Next
<1> QED
  BY <1>1, <1>2

LEMMA RefinesStep == IInv /\ [Next]_vars => [Authority!Next]_<<byMap, firedMap>>
<1> SUFFICES ASSUME IInv, [Next]_vars PROVE [Authority!Next]_<<byMap, firedMap>>
    OBVIOUS
<1>1. ASSUME UNCHANGED <<authorised, sends>> PROVE UNCHANGED <<byMap, firedMap>>
  BY <1>1 DEF byMap, firedMap
<1>2. ASSUME NEW n \in Runs, ClaimDue(n) PROVE [Authority!Next]_<<byMap, firedMap>>
  <2>1. PICK x \in run[n].due : Claim(n, x, "policy") \/ ClaimLost(x)
    BY <1>2 DEF ClaimDue
  <2>2. x \in Webhooks /\ About[x] \in AutoSend /\ n \in Tasks
    BY DEF IInv, TypeOK, RunState, DueAutomatic, Tasks
  <2>3. sends' = sends
    BY <1>2 DEF ClaimDue
  <2> QED
    BY <2>1, <2>2, <2>3, RefinesClaim
<1>3. ASSUME NEW d \in inFlight, ApproveNotification(d) PROVE [Authority!Next]_<<byMap, firedMap>>
  <2>1. d.task \in Tasks /\ d.action \in Webhooks
    BY <1>3 DEF ApproveNotification, IInv, TypeOK, Decision, Tasks
  <2>2. (Claim(d.task, d.action, "admin") \/ ClaimLost(d.action)) /\ sends' = sends
    BY <1>3 DEF ApproveNotification
  <2> QED
    BY <2>1, <2>2, RefinesClaim
<1>4. ASSUME NEW d \in inFlight, ApproveQuarantine(d) PROVE UNCHANGED <<byMap, firedMap>>
  BY <1>4 DEF ApproveQuarantine, IInv, TypeOK, Decision, Quarantines, Webhooks, byMap, firedMap
<1>5. ASSUME NEW e \in sending, Send(e) PROVE [Authority!Next]_<<byMap, firedMap>>
  <2>1. e.action \in Webhooks /\ e.action \in Actions
    BY DEF IInv, TypeOK, Execution, Webhooks
  <2>2. sends[e.action] = 0 /\ authorised[e.action] # {}
    BY <1>5 DEF Send, IInv, Claimed
  <2>3. /\ byMap[e.action] # {} /\ firedMap[e.action] = 0
        /\ firedMap' = [firedMap EXCEPT ![e.action] = 1] /\ UNCHANGED byMap
    BY <1>5, <2>1, <2>2 DEF Send, byMap, firedMap, IInv, TypeOK, Webhooks, rowVars
  <2>4. Authority!Fire(e.action)
    BY <2>3 DEF Authority!Fire, byMap, firedMap
  <2> QED
    BY <2>1, <2>4 DEF Authority!Next
<1>6. CASE \/ \E a \in Alerts : Raiser(a) \/ ChangeStatus(a)
           \/ \E n \in Runs : StartRun(n) \/ OfferOne(n) \/ ReadDue(n) \/ EndRun(n)
           \/ \E e \in sending : Record(e)
           \/ \E r \in Requests, x \in Actions, op \in {"approve", "reject"} : ReadRow(r, x, op)
           \/ \E d \in inFlight : Reject(d)
           \/ BackendRestart \/ QuietHours \/ (\E z \in recent \cap MayAge : GrowOld(z))
           \/ AgentNext \/ UNCHANGED vars
  <2>1. UNCHANGED <<authorised, sends>>
    BY <1>6 DEF Raiser, RaiseAlert, SuggestNotification, SuggestQuarantine, WorkerDies, ChangeStatus,
       StartRun, OfferOne, ReadDue, EndRun, Record, ReadRow, Reject, BackendRestart, QuietHours, GrowOld,
       AgentNext, FetchCommands, CompleteCommand, ReportLost, vars, rowVars
  <2> QED
    BY <1>1, <2>1
<1> QED
  BY <1>2, <1>3, <1>4, <1>5, <1>6 DEF Next, BackendNext, Policy, Execute, Decide

\* The response-action machinery implements NotificationAuthority: every
\* notification is authorised at most once, by someone entitled to, and fires
\* at most once, after that.
THEOREM ImplementsAuthority == Spec => AuthorityKept
<1>1. Init => Authority!Init
  BY DEF Init, Authority!Init, Webhooks
<1>2. IInv /\ [Next]_vars => [Authority!Next]_<<byMap, firedMap>>
  BY RefinesStep
<1> QED
  BY <1>1, <1>2, InvAlways, PTL DEF Spec, AuthorityKept, Authority!Spec, byMap, firedMap
=============================================================================
