------------------------ MODULE ResponseLoop_proofs ------------------------
(***************************************************************************)
(* Proofs about ResponseLoop: what the backend and the agent keep together *)
(* when a file is quarantined, for every set of files, folder names, rows  *)
(* and polls.  The backend's own invariant is that of                      *)
(* ResponseActions_proofs; a restart of the agent keeps it too.            *)
(***************************************************************************)
EXTENDS ResponseLoop, ResponseActions_proofs

LEMMA RestartKeepsIInv == ASSUME IInv, AgentRestarts PROVE IInv'
<1> USE DEF AgentRestarts, Agent!AgentRestart
<1>1. TypeOK'
  BY ConstantsAssumption DEF IInv, TypeOK
<1>2. (Claimed /\ OneExecution /\ Untouched /\ DueAutomatic)'
  BY DEF IInv, Claimed, Claimant, OneExecution, Untouched, DueAutomatic
<1>3. (Commanded /\ SentAtMostOnce /\ ApproveFirst /\ OutcomeIsReal)'
  BY DEF IInv, Commanded, SentAtMostOnce, ApproveFirst, OutcomeIsReal
<1> QED
  BY <1>1, <1>2, <1>3 DEF IInv

\* To the backend every other step of the loop is one of its own, or none.
LEMMA LoopStepIsStep ==
    ASSUME [LoopNext]_loopVars PROVE [Next]_vars \/ AgentRestarts
<1>1. CASE BackendStep
  BY <1>1 DEF BackendStep, Next
<1>2. ASSUME NEW p \in Polls, PollFetches(p) PROVE Next
  BY <1>2 DEF PollFetches, Next, AgentNext
<1>3. ASSUME NEW p \in Polls, AgentWorks(p) PROVE UNCHANGED vars
  BY <1>3 DEF AgentWorks, backendOnly, vars, Agent!LocalStep, Agent!BeginCommand, Agent!FindName, Agent!Rename
<1>4. ASSUME NEW p \in Polls, NEW x \in Actions, PollReports(p, x) PROVE Next
  <2>1. x \in held[p]
    BY <1>4 DEF PollReports, CompleteCommand
  <2>2. CompleteCommand(p, x, TRUE) \/ CompleteCommand(p, x, FALSE)
    <3>1. CASE Agent!Succeeded(p)
      BY <1>4, <3>1 DEF PollReports, CompleteCommand
    <3>2. CASE ~Agent!Succeeded(p)
      BY <1>4, <3>2 DEF PollReports, CompleteCommand
    <3> QED
      BY <3>1, <3>2
  <2>3. \E ok \in BOOLEAN : CompleteCommand(p, x, ok)
    BY <2>2
  <2> QED
    BY <2>1, <2>3 DEF Next, AgentNext
<1>5. ASSUME NEW p \in Polls, NEW x \in Actions, PollReportLost(p, x) PROVE Next
  BY <1>5 DEF PollReportLost, ReportLost, Next, AgentNext
<1>6. ASSUME NEW f \in Files, UserRemoves(f) PROVE UNCHANGED vars
  BY <1>6 DEF UserRemoves, Agent!FileVanishes, backendOnly, vars
<1>7. CASE UNCHANGED loopVars
  BY <1>7 DEF loopVars
<1> QED
  BY <1>1, <1>2, <1>3, <1>4, <1>5, <1>6, <1>7 DEF LoopNext

LEMMA LoopKeepsIInv == IInv /\ [LoopNext]_loopVars => IInv'
BY LoopStepIsStep, InvStep, RestartKeepsIInv

(***************************************************************************)
(* The loop's invariant.  A move is of a command its poll still holds, and *)
(* so of one that an administrator approved; the moves of a poll are all   *)
(* of one command and cover its paths, so that when they all end well every *)
(* path has been moved.                                                    *)
(***************************************************************************)
LoopTypeOK ==
    /\ inPlace \subseteq Files /\ moved \subseteq Files
    /\ folder \in [Names -> Files \cup {NoFile}]
    /\ moves \subseteq Agent!Move

MovesHeld == \A m \in moves : m.command \in held[m.poll] /\ m.file \in PathsOf[m.command]

OneCommand == \A m, n \in moves : m.poll = n.poll => m.command = n.command

AllPaths == \A m \in moves : \A f \in PathsOf[m.command] : \E n \in moves : n.poll = m.poll /\ n.file = f

OkMoved == \A m \in moves : m.step = "ok" => m.file \in moved

NameChosen == \A m \in moves : m.step = "rename" => m.name \in Names

MovesOK == MovesHeld /\ OneCommand /\ AllPaths /\ OkMoved /\ NameChosen

LInv == IInv /\ LoopTypeOK /\ MovesOK /\ QuarantineKept

LEMMA LoopInvInit == LoopInit => LInv
<1> SUFFICES ASSUME LoopInit PROVE LInv
    OBVIOUS
<1> USE DEF LoopInit, Agent!AgentInit
<1>1. IInv
  BY InvInit
<1>2. LoopTypeOK /\ MovesOK
  BY DEF LoopTypeOK, MovesOK, MovesHeld, OneCommand, AllPaths, OkMoved, NameChosen
<1>3. QuarantineKept
  BY DEF Init, QuarantineKept, MovedOnApproval, ExecutedMeansMoved, OnePlace, Agent!OnePlace, Quarantines
<1> QED
  BY <1>1, <1>2, <1>3 DEF LInv

(***************************************************************************)
(* What a step of the backend does to the rows of quarantines.             *)
(***************************************************************************)
Grows == \A x \in Actions : authorised[x] \subseteq authorised'[x]

NoneExecuted == \A x \in Quarantines : status'[x] = "EXECUTED" => status[x] = "EXECUTED"

LEMMA BackendRows == ASSUME IInv, BackendNext PROVE Grows /\ NoneExecuted /\ held' = held
<1> USE DEF IInv, TypeOK, rowVars, taskVars
<1>1. ASSUME NEW a \in Alerts, Raiser(a) \/ ChangeStatus(a) PROVE Grows /\ NoneExecuted /\ held' = held
  BY <1>1 DEF Raiser, RaiseAlert, SuggestNotification, SuggestQuarantine, WorkerDies, ChangeStatus, Fresh, Insert,
     Grows, NoneExecuted, Quarantines
<1>2. ASSUME NEW n \in Runs, StartRun(n) \/ OfferOne(n) \/ ReadDue(n) \/ EndRun(n)
      PROVE  Grows /\ NoneExecuted /\ held' = held
  BY <1>2 DEF StartRun, OfferOne, ReadDue, EndRun, Fresh, Insert, Grows, NoneExecuted, Quarantines
<1>3. ASSUME NEW t, NEW x \in Webhooks, NEW who, Claim(t, x, who) \/ ClaimLost(x) PROVE Grows /\ NoneExecuted
  BY <1>3 DEF Claim, ClaimLost, Grows, NoneExecuted, Quarantines, Webhooks
<1>4. ASSUME NEW n \in Runs, ClaimDue(n) PROVE Grows /\ NoneExecuted /\ held' = held
  <2>1. PICK x \in run[n].due : Claim(n, x, "policy") \/ ClaimLost(x)
    BY <1>4 DEF ClaimDue
  <2>2. x \in Webhooks
    BY DEF RunState
  <2> QED
    BY <1>3, <1>4, <2>1, <2>2 DEF ClaimDue
<1>5. ASSUME NEW e \in sending, Send(e) \/ Record(e) PROVE Grows /\ NoneExecuted /\ held' = held
  <2>1. e.action \in Webhooks /\ e.action \notin Quarantines
    BY DEF Execution, Webhooks, Quarantines
  <2> QED
    BY <1>5, <2>1 DEF Send, Record, Grows, NoneExecuted, Quarantines
<1>6. ASSUME NEW r \in Requests, NEW x \in Actions, NEW op \in {"approve", "reject"}, ReadRow(r, x, op)
      PROVE  Grows /\ NoneExecuted /\ held' = held
  BY <1>6 DEF ReadRow, Grows, NoneExecuted
<1>7. ASSUME NEW d \in inFlight, ApproveNotification(d) PROVE Grows /\ NoneExecuted /\ held' = held
  <2>1. d.action \in Webhooks /\ (Claim(d.task, d.action, "admin") \/ ClaimLost(d.action)) /\ held' = held
    BY <1>7 DEF ApproveNotification
  <2> QED
    BY <1>3, <2>1
<1>8. ASSUME NEW d \in inFlight, ApproveQuarantine(d) \/ Reject(d) PROVE Grows /\ NoneExecuted /\ held' = held
  BY <1>8 DEF ApproveQuarantine, Reject, Decision, Grows, NoneExecuted, Quarantines
<1>9. CASE BackendRestart \/ QuietHours \/ \E z \in recent \cap MayAge : GrowOld(z)
  BY <1>9 DEF BackendRestart, QuietHours, GrowOld, Grows, NoneExecuted
<1> QED
  BY <1>1, <1>2, <1>4, <1>5, <1>6, <1>7, <1>8, <1>9 DEF BackendNext, Policy, Execute, Decide

\* The agent's files and moves rest, and the polls keep what their moves are of.
LEMMA BackendKeepsLoop ==
    ASSUME LInv, Grows, NoneExecuted, UNCHANGED <<inPlace, folder, moves, moved>>,
           \A m \in moves : held[m.poll] \subseteq held'[m.poll]
    PROVE  (LoopTypeOK /\ MovesOK /\ QuarantineKept)'
<1> USE DEF LInv
<1>1. LoopTypeOK' /\ MovesOK'
  BY DEF LoopTypeOK, MovesOK, MovesHeld, OneCommand, AllPaths, OkMoved, NameChosen
<1>2. MovedOnApproval'
  BY DEF QuarantineKept, MovedOnApproval, Grows, Quarantines
<1>3. ExecutedMeansMoved' /\ OnePlace'
  BY DEF QuarantineKept, ExecutedMeansMoved, OnePlace, Agent!OnePlace, NoneExecuted
<1> QED
  BY <1>1, <1>2, <1>3 DEF QuarantineKept

LEMMA FetchKeepsLoop ==
    ASSUME LInv, NEW p \in Polls, PollFetches(p) PROVE (LoopTypeOK /\ MovesOK /\ QuarantineKept)'
<1> USE DEF PollFetches, FetchCommands, rowVars
<1>1. Grows /\ NoneExecuted
  BY DEF Grows, NoneExecuted
<1>2. \A m \in moves : held[m.poll] \subseteq held'[m.poll]
  <2> SUFFICES ASSUME NEW m \in moves PROVE held[m.poll] \subseteq held'[m.poll]
      OBVIOUS
  <2>1. m.command \in held[m.poll] /\ m.poll \in Polls
    BY DEF LInv, LoopTypeOK, MovesOK, MovesHeld, Agent!Move
  <2>2. m.poll # p
    BY <2>1
  <2> QED
    BY <2>1, <2>2 DEF LInv, IInv, TypeOK
<1> QED
  BY <1>1, <1>2, BackendKeepsLoop

(***************************************************************************)
(* The agent's own steps.                                                  *)
(***************************************************************************)
LEMMA BeginKeepsLoop ==
    ASSUME LInv, NEW p \in Polls, NEW c \in Quarantines, Agent!BeginCommand(p, c), UNCHANGED backendOnly
    PROVE  (LoopTypeOK /\ MovesOK /\ QuarantineKept)'
<1> DEFINE new == {[poll |-> p, command |-> c, file |-> f, step |-> "mkdir", name |-> NoFile] : f \in PathsOf[c]}
<1>1. /\ c \in held[p] /\ moves' = moves \cup new
      /\ UNCHANGED <<held, inPlace, folder, moved, status, authorised>>
      /\ \A m \in moves : m.poll # p
  BY DEF Agent!BeginCommand, Agent!MovesOf, backendOnly
<1>2. \A m \in new : /\ m \in Agent!Move /\ m.poll = p /\ m.command = c /\ m.file \in PathsOf[c]
                     /\ m.step = "mkdir"
  BY LoopAssumption DEF Agent!Move
<1>3. ASSUME NEW f \in PathsOf[c] PROVE \E n \in new : n.poll = p /\ n.file = f
  <2>1. [poll |-> p, command |-> c, file |-> f, step |-> "mkdir", name |-> NoFile] \in new
    OBVIOUS
  <2> QED
    BY ONLY <2>1
<1> HIDE DEF new
<1>4. LoopTypeOK'
  BY <1>1, <1>2 DEF LInv, LoopTypeOK
<1>5. MovesHeld' /\ OneCommand' /\ OkMoved' /\ NameChosen'
  BY <1>1, <1>2 DEF LInv, MovesOK, MovesHeld, OneCommand, OkMoved, NameChosen
<1>6. AllPaths'
  BY <1>1, <1>2, <1>3 DEF LInv, MovesOK, AllPaths
<1>7. QuarantineKept'
  BY <1>1 DEF LInv, QuarantineKept, MovedOnApproval, ExecutedMeansMoved, OnePlace, Agent!OnePlace
<1> QED
  BY <1>4, <1>5, <1>6, <1>7 DEF MovesOK

\* One move of a poll goes on: n takes the place of m, for the same file.
LEMMA MoveGoesOn ==
    ASSUME LInv, NEW m \in moves, NEW n \in Agent!Move,
           n.poll = m.poll, n.command = m.command, n.file = m.file,
           n.step = "ok" => m.file \in moved', n.step = "rename" => n.name \in Names,
           moves' = (moves \ {m}) \cup {n}, held' = held, moved \subseteq moved'
    PROVE  MovesOK' /\ moves' \subseteq Agent!Move
<1> USE DEF LInv
<1>1. MovesHeld' /\ OneCommand' /\ OkMoved' /\ NameChosen'
  BY DEF MovesOK, MovesHeld, OneCommand, OkMoved, NameChosen
<1>2. AllPaths'
  <2> SUFFICES ASSUME NEW k \in moves', NEW f \in PathsOf[k.command]
               PROVE  \E i \in moves' : i.poll = k.poll /\ i.file = f
      BY DEF AllPaths
  <2>1. PICK j \in moves : j.poll = k.poll /\ j.command = k.command
    OBVIOUS
  <2>2. PICK i \in moves : i.poll = j.poll /\ i.file = f
    BY <2>1 DEF MovesOK, AllPaths
  <2>3. CASE i = m
    BY <2>1, <2>2, <2>3
  <2>4. CASE i # m
    BY <2>1, <2>2, <2>4
  <2> QED
    BY <2>3, <2>4
<1>3. moves' \subseteq Agent!Move
  BY DEF LoopTypeOK
<1> QED
  BY <1>1, <1>2, <1>3 DEF MovesOK

LEMMA FindNameKeepsLoop ==
    ASSUME LInv, NEW m \in moves, Agent!FindName(m), UNCHANGED backendOnly
    PROVE  (LoopTypeOK /\ MovesOK /\ QuarantineKept)'
<1> USE DEF LInv, Agent!FindName
<1>1. PICK k \in DOMAIN Candidates[m.file] :
         moves' = (moves \ {m}) \cup {Agent!Trying(m, Candidates[m.file][k])}
  OBVIOUS
<1>2. m \in Agent!Move
  BY DEF LoopTypeOK
<1>3. Candidates[m.file][k] \in Names
  BY <1>2, LoopAssumption DEF Agent!Move
<1> DEFINE s == Candidates[m.file][k]
           n == Agent!Trying(m, s)
<1>4. /\ n \in Agent!Move /\ n.poll = m.poll /\ n.command = m.command /\ n.file = m.file
      /\ n.step = "rename" /\ n.name \in Names
  BY <1>2, <1>3 DEF Agent!Trying, Agent!Move
<1> HIDE DEF n
<1>5. MovesOK' /\ moves' \subseteq Agent!Move
  BY <1>1, <1>4, MoveGoesOn DEF n
<1>6. LoopTypeOK'
  BY <1>5 DEF LoopTypeOK
<1>7. QuarantineKept'
  BY DEF QuarantineKept, MovedOnApproval, ExecutedMeansMoved, OnePlace, Agent!OnePlace, backendOnly
<1> QED
  BY <1>5, <1>6, <1>7

LEMMA RenameKeepsLoop ==
    ASSUME LInv, NEW m \in moves, Agent!Rename(m), UNCHANGED backendOnly
    PROVE  (LoopTypeOK /\ MovesOK /\ QuarantineKept)'
<1> USE DEF LInv
<1>1. m \in Agent!Move /\ m.step = "rename" /\ m.name \in Names /\ m.file \in PathsOf[m.command]
  BY DEF LoopTypeOK, MovesOK, NameChosen, MovesHeld, Agent!Rename
<1>2. /\ [m EXCEPT !.step = "ok"] \in Agent!Move /\ [m EXCEPT !.step = "failed"] \in Agent!Move
      /\ \A r \in {"ok", "failed"} : LET n == [m EXCEPT !.step = r] IN
            n.poll = m.poll /\ n.command = m.command /\ n.file = m.file /\ n.step = r
  BY <1>1 DEF Agent!Move
<1>3. CASE Agent!RenameLands(m)
  <2>0. m.file \in inPlace
    BY <1>3 DEF Agent!RenameLands
  <2>1. /\ folder' = [folder EXCEPT ![m.name] = m.file] /\ inPlace' = inPlace \ {m.file}
        /\ moved' = moved \cup {m.file} /\ moves' = (moves \ {m}) \cup {[m EXCEPT !.step = "ok"]}
        /\ held' = held /\ status' = status /\ authorised' = authorised
    BY <1>3 DEF Agent!RenameLands, Agent!Rename, backendOnly
  <2>2. MovesOK' /\ moves' \subseteq Agent!Move
    BY <1>2, <2>1, MoveGoesOn
  <2>3. LoopTypeOK'
    BY <1>1, <2>0, <2>1, <2>2 DEF LoopTypeOK
  <2>4. MovedOnApproval'
    <3>1. m.command \in Quarantines /\ m.command \in Actions /\ m.poll \in Polls
      BY <1>1 DEF Agent!Move, Quarantines
    <3>2. m.command \in held[m.poll]
      BY DEF MovesOK, MovesHeld
    <3>3. "admin" \in authorised[m.command]
      BY <3>1, <3>2 DEF IInv, ApproveFirst
    <3> QED
      BY <1>1, <2>1, <3>1, <3>3 DEF QuarantineKept, MovedOnApproval
  <2>5. ExecutedMeansMoved'
    BY <2>1 DEF QuarantineKept, ExecutedMeansMoved
  <2>6. OnePlace'
    <3>1. \A s \in Names : folder'[s] = IF s = m.name THEN m.file ELSE folder[s]
      BY <1>1, <2>1 DEF LoopTypeOK
    <3>2. \A s \in Names : folder[s] # m.file
      BY <2>0, LoopAssumption DEF QuarantineKept, OnePlace, Agent!OnePlace, LoopTypeOK
    <3>3. \A s \in Names : folder'[s] # NoFile => folder'[s] \in moved' \ inPlace'
      BY <2>1, <3>1 DEF QuarantineKept, OnePlace, Agent!OnePlace
    <3>4. \A s, t \in Names : folder'[s] = folder'[t] /\ folder'[s] # NoFile => s = t
      BY <3>1, <3>2 DEF QuarantineKept, OnePlace, Agent!OnePlace
    <3> QED
      BY <3>3, <3>4 DEF OnePlace, Agent!OnePlace
  <2> QED
    BY <2>2, <2>3, <2>4, <2>5, <2>6 DEF QuarantineKept
<1>4. CASE Agent!RenameFails(m)
  <2>1. /\ moves' = (moves \ {m}) \cup {[m EXCEPT !.step = "failed"]}
        /\ UNCHANGED <<held, status, authorised, folder, inPlace, moved>>
    BY <1>4 DEF Agent!RenameFails, Agent!Rename, backendOnly
  <2>2. MovesOK' /\ moves' \subseteq Agent!Move
    BY <1>2, <2>1, MoveGoesOn
  <2>3. LoopTypeOK'
    BY <2>1, <2>2 DEF LoopTypeOK
  <2>4. QuarantineKept'
    BY <2>1 DEF QuarantineKept, MovedOnApproval, ExecutedMeansMoved, OnePlace, Agent!OnePlace
  <2> QED
    BY <2>2, <2>3, <2>4
<1> QED
  BY <1>3, <1>4 DEF Agent!Rename

(***************************************************************************)
(* A report ends the moves of its poll, whatever becomes of the request.   *)
(***************************************************************************)
LEMMA ReportKeepsMoves ==
    ASSUME LInv, NEW p \in Polls, NEW x, Agent!Report(p, x),
           \A q \in Polls : q # p => held'[q] = held[q]
    PROVE  LoopTypeOK' /\ MovesOK' /\ OnePlace'
<1> USE DEF LInv, Agent!Report, Agent!MovesOf
<1>1. LoopTypeOK' /\ OnePlace'
  BY DEF LoopTypeOK, QuarantineKept, OnePlace, Agent!OnePlace
<1>2. \A m \in moves' : m \in moves /\ m.poll \in Polls /\ m.poll # p
  BY DEF LoopTypeOK, Agent!Move
<1>3. MovesHeld' /\ OneCommand' /\ OkMoved' /\ NameChosen'
  BY <1>2 DEF MovesOK, MovesHeld, OneCommand, OkMoved, NameChosen
<1>4. AllPaths'
  BY <1>2 DEF MovesOK, AllPaths
<1> QED
  BY <1>1, <1>3, <1>4 DEF MovesOK

LEMMA PollReportKeepsLoop ==
    ASSUME LInv, NEW p \in Polls, NEW x \in Actions, PollReports(p, x)
    PROVE  (LoopTypeOK /\ MovesOK /\ QuarantineKept)'
<1> USE DEF LInv
<1> DEFINE ok == Agent!Succeeded(p)
<1>1. /\ status' = [status EXCEPT ![x] = IF ok THEN "EXECUTED" ELSE "FAILED"]
      /\ held' = [held EXCEPT ![p] = @ \ {x}] /\ authorised' = authorised /\ moved' = moved
  BY DEF PollReports, CompleteCommand, Agent!Report
<1>2. LoopTypeOK' /\ MovesOK' /\ OnePlace'
  BY <1>1, ReportKeepsMoves DEF PollReports, IInv, TypeOK
<1>3. ok => PathsOf[x] \subseteq moved
  <2> SUFFICES ASSUME ok, NEW f \in PathsOf[x] PROVE f \in moved
      OBVIOUS
  <2>1. PICK m \in moves : m.poll = p /\ m.command = x
    BY DEF PollReports, Agent!Report, Agent!MovesOf
  <2>2. PICK n \in moves : n.poll = p /\ n.file = f
    BY <2>1 DEF MovesOK, AllPaths
  <2>3. n.step = "ok"
    BY <2>2 DEF Agent!Succeeded, Agent!MovesOf
  <2> QED
    BY <2>2, <2>3 DEF MovesOK, OkMoved
<1> HIDE DEF ok
<1>4. ExecutedMeansMoved'
  BY <1>1, <1>3 DEF QuarantineKept, ExecutedMeansMoved, Quarantines, IInv, TypeOK
<1>5. MovedOnApproval'
  BY <1>1 DEF QuarantineKept, MovedOnApproval
<1> QED
  BY <1>2, <1>4, <1>5 DEF QuarantineKept

LEMMA LostReportKeepsLoop ==
    ASSUME LInv, NEW p \in Polls, NEW x \in Actions, PollReportLost(p, x)
    PROVE  (LoopTypeOK /\ MovesOK /\ QuarantineKept)'
<1> USE DEF LInv, PollReportLost, ReportLost
<1>1. \A q \in Polls : q # p => held'[q] = held[q]
  BY DEF IInv, TypeOK
<1>2. LoopTypeOK' /\ MovesOK' /\ OnePlace'
  BY <1>1, ReportKeepsMoves
<1>3. ExecutedMeansMoved' /\ MovedOnApproval'
  BY DEF Agent!Report, rowVars, QuarantineKept, ExecutedMeansMoved, MovedOnApproval
<1> QED
  BY <1>2, <1>3 DEF QuarantineKept

LEMMA OthersKeepLoop ==
    ASSUME LInv, AgentRestarts \/ (\E f \in Files : UserRemoves(f)) \/ UNCHANGED loopVars
    PROVE  (LoopTypeOK /\ MovesOK /\ QuarantineKept)'
<1> USE DEF LInv
<1>1. CASE AgentRestarts
  BY <1>1 DEF AgentRestarts, Agent!AgentRestart, LoopTypeOK, MovesOK, MovesHeld, OneCommand, AllPaths,
     OkMoved, NameChosen, QuarantineKept, MovedOnApproval, ExecutedMeansMoved, OnePlace, Agent!OnePlace
<1>2. ASSUME NEW f \in Files, UserRemoves(f) PROVE (LoopTypeOK /\ MovesOK /\ QuarantineKept)'
  BY <1>2 DEF UserRemoves, Agent!FileVanishes, backendOnly, LoopTypeOK, MovesOK, MovesHeld, OneCommand,
     AllPaths, OkMoved, NameChosen, QuarantineKept, MovedOnApproval, ExecutedMeansMoved, OnePlace, Agent!OnePlace
<1>3. CASE UNCHANGED loopVars
  BY <1>3 DEF loopVars, vars, LoopTypeOK, MovesOK, MovesHeld, OneCommand,
     AllPaths, OkMoved, NameChosen, QuarantineKept, MovedOnApproval, ExecutedMeansMoved, OnePlace, Agent!OnePlace
<1> QED
  BY <1>1, <1>2, <1>3

LEMMA LoopInvStep == LInv /\ [LoopNext]_loopVars => LInv'
<1> SUFFICES ASSUME LInv, [LoopNext]_loopVars PROVE LInv'
    OBVIOUS
<1>1. IInv'
  BY LoopKeepsIInv DEF LInv
<1>2. CASE BackendStep
  <2>1. Grows /\ NoneExecuted /\ held' = held
    BY <1>2, BackendRows DEF LInv, BackendStep
  <2> QED
    BY <1>1, <1>2, <2>1, BackendKeepsLoop DEF LInv, BackendStep
<1>3. ASSUME NEW p \in Polls, PollFetches(p) PROVE LInv'
  BY <1>1, <1>3, FetchKeepsLoop DEF LInv
<1>4. ASSUME NEW p \in Polls, AgentWorks(p) PROVE LInv'
  <2>1. ASSUME NEW c \in Quarantines, Agent!BeginCommand(p, c) PROVE LInv'
    BY <1>1, <1>4, <2>1, BeginKeepsLoop DEF LInv, AgentWorks
  <2>2. ASSUME NEW m \in moves, Agent!FindName(m) \/ Agent!Rename(m) PROVE LInv'
    BY <1>1, <1>4, <2>2, FindNameKeepsLoop, RenameKeepsLoop DEF LInv, AgentWorks
  <2> QED
    BY <1>4, <2>1, <2>2 DEF AgentWorks, Agent!LocalStep, Agent!MovesOf
<1>5. ASSUME NEW p \in Polls, NEW x \in Actions, PollReports(p, x) PROVE LInv'
  BY <1>1, <1>5, PollReportKeepsLoop DEF LInv
<1>6. ASSUME NEW p \in Polls, NEW x \in Actions, PollReportLost(p, x) PROVE LInv'
  BY <1>1, <1>6, LostReportKeepsLoop DEF LInv
<1>7. CASE AgentRestarts \/ (\E f \in Files : UserRemoves(f)) \/ UNCHANGED loopVars
  BY <1>1, <1>7, OthersKeepLoop DEF LInv
<1> QED
  BY <1>2, <1>3, <1>4, <1>5, <1>6, <1>7 DEF LoopNext

\* Approve-first holds for the files themselves: the agent moves no file out of
\* its place for a command that no administrator approved, reports a command as
\* executed only when every path of it was moved, and leaves no file in two
\* places, whatever the polls, requests and restarts that overlap.
THEOREM QuarantineSound == LoopSpec => []QuarantineKept
<1>1. LInv => QuarantineKept
  BY DEF LInv
<1> QED
  BY LoopInvInit, LoopInvStep, <1>1, PTL DEF LoopSpec
=============================================================================
