---------------------------- MODULE ResponseLoop ----------------------------
(***************************************************************************)
(* The approve-first loop end to end: the backend of ResponseActions and   *)
(* the agent of Quarantine, which share the rows and what the polls hold.  *)
(* A request of the agent is one step of both: the backend's handler and   *)
(* the agent's part in it.                                                 *)
(***************************************************************************)
EXTENDS ResponseActions, Sequences

CONSTANTS Files, PathsOf, Names, NoFile, Candidates

ASSUME LoopAssumption ==
    /\ PathsOf \in [Quarantines -> (SUBSET Files) \ {{}}]
    /\ Candidates \in [Files -> Seq(Names)]
    /\ NoFile \notin Files

VARIABLES inPlace, folder, moves, moved

Agent == INSTANCE Quarantine WITH Commands <- Quarantines

loopVars == <<vars, inPlace, folder, moves, moved>>
backendOnly == <<alert, raising, status, decidedBy, recent, quiet, run, inFlight, sending,
                 sends, authorised, faults>>

LoopInit == Init /\ Agent!AgentInit

BackendStep == BackendNext /\ UNCHANGED <<inPlace, folder, moves, moved>>

PollFetches(p) == FetchCommands(p) /\ UNCHANGED <<inPlace, folder, moves, moved>>

PollReports(p, x) == CompleteCommand(p, x, Agent!Succeeded(p)) /\ Agent!Report(p, x)

PollReportLost(p, x) == ReportLost(p, x) /\ Agent!Report(p, x)

AgentWorks(p) == Agent!LocalStep(p) /\ UNCHANGED backendOnly

UserRemoves(f) == Agent!FileVanishes(f) /\ UNCHANGED backendOnly

AgentRestarts ==
    /\ faults < MaxFaults
    /\ Agent!AgentRestart
    /\ faults' = faults + 1
    /\ UNCHANGED <<alert, raising, status, decidedBy, recent, quiet, run, inFlight, sending,
                   sends, authorised>>

LoopNext ==
    \/ BackendStep
    \/ \E p \in Polls : PollFetches(p) \/ AgentWorks(p)
    \/ \E p \in Polls, x \in Actions : PollReports(p, x) \/ PollReportLost(p, x)
    \/ \E f \in Files : UserRemoves(f)
    \/ AgentRestarts

LoopSpec == LoopInit /\ [][LoopNext]_loopVars

\* The agent's timer fires, its file operations return, and its reports are
\* answered; the backend's handlers run on.
LoopFairSpec ==
    /\ LoopSpec
    /\ \A p \in Polls : WF_loopVars(PollFetches(p)) /\ WF_loopVars(AgentWorks(p))
    /\ \A p \in Polls : WF_loopVars(\E x \in Actions : PollReports(p, x))

-----------------------------------------------------------------------------
\* No file is moved for a command that no admin approved.
MovedOnApproval ==
    \A f \in moved : \E x \in Quarantines : f \in PathsOf[x] /\ "admin" \in authorised[x]

\* EXECUTED is reported only for a command whose every path was moved.
ExecutedMeansMoved ==
    \A x \in Quarantines : status[x] = "EXECUTED" => PathsOf[x] \subseteq moved

\* A command whose every path was moved is not reported as FAILED.
FailedMeansLeft ==
    \A x \in Quarantines : status[x] = "FAILED" => ~(PathsOf[x] \subseteq moved)

\* Moving a file into quarantine overwrites nothing that is there.
NothingOverwritten == Agent!NothingOverwritten

\* A file is under the watched root or in quarantine, never in both.
OnePlace == Agent!OnePlace

\* A file is moved on approval only, a command is reported as executed only when
\* every path of it was moved, and no file is in two places.
QuarantineKept == MovedOnApproval /\ ExecutedMeansMoved /\ OnePlace

\* An approved quarantine is carried out or reported as failed, also when the
\* agent restarts or its report is lost: the row stays APPROVED, so it is
\* fetched again.
ApprovedSettles ==
    \A x \in Quarantines : (status[x] = "APPROVED") ~> (status[x] # "APPROVED")
=============================================================================
