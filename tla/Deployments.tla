----------------------------- MODULE Deployments -----------------------------
(***************************************************************************)
(* Installing an agent on another machine.  A deployment is a row in the   *)
(* database, and two entries in the backend's memory: the administrator    *)
(* credentials and the install options.  The password must not outlive its *)
(* one use, so an agent's sync takes it out of memory when it collects the *)
(* job.  Four handlers interleave at their awaits:                         *)
(*                                                                         *)
(*   POST /deployments              check the address, create, hold;       *)
(*   GET  /deployments              fail the rows nobody can collect;      *)
(*   GET  /agent-sync               take the oldest jobs, mark, answer;    *)
(*   POST .../deployments/:id/result  record the outcome;                  *)
(*                                                                         *)
(* and the agent runs one installer per job it was given.                  *)
(***************************************************************************)
EXTENDS Naturals, Sequences, FiniteSets

CONSTANTS
    Ids,        \* deployments that may be created
    Target,     \* [Ids -> addresses], the machine each installs on
    Creators,   \* POST /deployments that may be in flight together
    DeployPages,      \* GET /deployments that may be in flight together
    Syncs,      \* GET /agent-sync that may be in flight together
    Take,       \* findMany's take: jobs per sync
    MaxRestarts, MaxLosses, MaxCrashes \* bounds on the faults of a behaviour

ASSUME DeploymentsAssumption == Take \in Nat \ {0}

VARIABLES
    jobStatus,     \* Deployment.status, "ABSENT" before the row exists
    message,    \* Deployment.message: "none", "uncollected" or "reported"
    order,      \* the rows by createdAt
    creds,      \* deployments in deployCredentials' map
    options,    \* deployments in pendingInstallOptions
    post,       \* each POST's progress and the deployment it creates
    deployPage,       \* each GET's progress and the rows it is about to fail
    sync,       \* each sync's progress: jobs to come, jobs it gives the agent
    install,    \* the agent's installer of each deployment
    result,     \* what the installer answered
    handed,     \* history: how often a response carried the credentials
    deployFaults      \* how often each fault has happened

dbVars  == <<jobStatus, message, order>>
memVars == <<creds, options>>
deployVars == <<jobStatus, message, order, creds, options, post, deployPage, sync, install,
          result, handed, deployFaults>>

Unsettled == {"PENDING", "RUNNING"}
IdlePost  == [pc |-> "idle"]
IdlePage  == [pc |-> "idle", rows |-> {}]
IdleSync  == [pc |-> "idle", jobs |-> {}, given |-> {}, asker |-> "waiting"]

DeployInit ==
    /\ jobStatus = [d \in Ids |-> "ABSENT"]
    /\ message = [d \in Ids |-> "none"]
    /\ order = <<>>
    /\ creds = {} /\ options = {}
    /\ post = [r \in Creators |-> IdlePost]
    /\ deployPage = [g \in DeployPages |-> IdlePage]
    /\ sync = [s \in Syncs |-> IdleSync]
    /\ install = [d \in Ids |-> "none"]
    /\ result = [d \in Ids |-> "none"]
    /\ handed = [d \in Ids |-> 0]
    /\ deployFaults = [restarts |-> 0, losses |-> 0, crashes |-> 0]

(***************************************************************************)
(* POST /deployments.                                                      *)
(***************************************************************************)

UnderWay(address) == \E d \in Ids : Target[d] = address /\ jobStatus[d] \in Unsettled

CheckAddress(r, d) ==
    /\ post[r].pc = "idle"
    /\ jobStatus[d] = "ABSENT" /\ \A q \in Creators : post[q].pc # "idle" => post[q].id # d
    /\ ~UnderWay(Target[d])
    /\ post' = [post EXCEPT ![r] = [pc |-> "create", id |-> d]]
    /\ UNCHANGED <<dbVars, memVars, deployPage, sync, install, result, handed, deployFaults>>

CreateRow(r) ==
    /\ post[r].pc = "create"
    /\ jobStatus' = [jobStatus EXCEPT ![post[r].id] = "PENDING"]
    /\ order' = Append(order, post[r].id)
    /\ post' = [post EXCEPT ![r].pc = "hold"]
    /\ UNCHANGED <<message, memVars, deployPage, sync, install, result, handed, deployFaults>>

HoldCredentials(r) ==
    /\ post[r].pc = "hold"
    /\ creds' = creds \cup {post[r].id}
    /\ post' = [post EXCEPT ![r].pc = "options"]
    /\ UNCHANGED <<dbVars, options, deployPage, sync, install, result, handed, deployFaults>>

\* The argument of pendingInstallOptions.set awaits the setting first.
SetInstallOptions(r) ==
    /\ post[r].pc = "options"
    /\ options' = options \cup {post[r].id}
    /\ post' = [post EXCEPT ![r] = IdlePost]
    /\ UNCHANGED <<dbVars, creds, deployPage, sync, install, result, handed, deployFaults>>

ContinueCreate(r) == CreateRow(r) \/ HoldCredentials(r) \/ SetInstallOptions(r)

\* The credentials' ten minutes are over.
CredentialsExpire(d) ==
    /\ d \in creds
    /\ creds' = creds \ {d}
    /\ UNCHANGED <<dbVars, options, post, deployPage, sync, install, result, handed, deployFaults>>

(***************************************************************************)
(* GET /deployments: expireUncollected.                                    *)
(***************************************************************************)
ReadPending(g) ==
    /\ deployPage[g].pc = "idle"
    /\ deployPage' = [deployPage EXCEPT ![g] = [pc |-> "filter", rows |-> {d \in Ids : jobStatus[d] = "PENDING"}]]
    /\ UNCHANGED <<dbVars, memVars, post, sync, install, result, handed, deployFaults>>

\* Mutant of Dead: a job whose options are still held can still be collected.
DeadWithoutOptions(g) == deployPage[g].rows \ (creds \cup options)

Dead(g) == deployPage[g].rows \ creds

PickDead(g) ==
    /\ deployPage[g].pc = "filter"
    /\ deployPage' = [deployPage EXCEPT ![g] = IF Dead(g) = {} THEN IdlePage ELSE [pc |-> "fail", rows |-> Dead(g)]]
    /\ UNCHANGED <<dbVars, memVars, post, sync, install, result, handed, deployFaults>>

\* updateMany by id: the status is not looked at again.
FailDead(g) ==
    /\ deployPage[g].pc = "fail"
    /\ jobStatus' = [d \in Ids |-> IF d \in deployPage[g].rows THEN "FAILED" ELSE jobStatus[d]]
    /\ message' = [d \in Ids |-> IF d \in deployPage[g].rows THEN "uncollected" ELSE message[d]]
    /\ deployPage' = [deployPage EXCEPT ![g].pc = "forget"]
    /\ UNCHANGED <<order, memVars, post, sync, install, result, handed, deployFaults>>

Forget(g) ==
    /\ deployPage[g].pc = "forget"
    /\ creds' = creds \ deployPage[g].rows
    /\ options' = options \ deployPage[g].rows
    /\ deployPage' = [deployPage EXCEPT ![g] = IdlePage]
    /\ UNCHANGED <<dbVars, post, sync, install, result, handed, deployFaults>>

(***************************************************************************)
(* GET /agent-sync, as far as deployments go.                              *)
(***************************************************************************)
Older(c, d) == \E i, j \in DOMAIN order : i < j /\ order[i] = c /\ order[j] = d

OldestPending ==
    LET pending == {d \in Ids : jobStatus[d] = "PENDING"}
    IN  {d \in pending : Cardinality({c \in pending : Older(c, d)}) < Take}

ReadJobs(s) ==
    /\ sync[s].pc = "idle" /\ OldestPending # {}
    /\ sync' = [sync EXCEPT ![s] = [pc |-> "take", jobs |-> OldestPending, given |-> {}, asker |-> "waiting"]]
    /\ UNCHANGED <<dbVars, memVars, post, deployPage, install, result, handed, deployFaults>>

NextJob(s, d) ==
    /\ sync[s].pc = "take"
    /\ d \in sync[s].jobs /\ \A c \in sync[s].jobs : ~Older(c, d)

Given(y, d) == [pc |-> "mark", jobs |-> y.jobs, given |-> y.given \cup {d}, asker |-> y.asker]

\* Mutant of TakeJob: the credentials stay for the next sync.
TakeAndKeep(s, d) ==
    /\ NextJob(s, d)
    /\ sync' = IF d \in creds \cap options
               THEN [sync EXCEPT ![s] = Given(@, d)]
               ELSE [sync EXCEPT ![s].jobs = @ \ {d}]
    /\ UNCHANGED <<dbVars, memVars, post, deployPage, install, result, handed, deployFaults>>

\* takeCredentials removes them whether or not the options are there as well.
TakeJob(s, d) ==
    /\ NextJob(s, d)
    /\ creds' = creds \ {d}
    /\ IF d \in creds \cap options
       THEN /\ options' = options \ {d}
            /\ sync' = [sync EXCEPT ![s] = Given(@, d)]
       ELSE /\ sync' = [sync EXCEPT ![s].jobs = @ \ {d}]
            /\ UNCHANGED options
    /\ UNCHANGED <<dbVars, post, deployPage, install, result, handed, deployFaults>>

Marked(y, d) == [pc |-> "take", jobs |-> y.jobs \ {d}, given |-> y.given, asker |-> y.asker]

\* The job that is given and has not been passed by.
MarkRunning(s, d) ==
    /\ sync[s].pc = "mark" /\ d \in sync[s].jobs \cap sync[s].given
    /\ jobStatus' = [jobStatus EXCEPT ![d] = "RUNNING"]
    /\ sync' = [sync EXCEPT ![s] = Marked(@, d)]
    /\ UNCHANGED <<message, order, memVars, post, deployPage, install, result, handed, deployFaults>>

Answered(s) == sync[s].pc = "take" /\ sync[s].jobs = {}

\* runDeployments starts what it is not already installing.
Answer(s) ==
    /\ Answered(s) /\ sync[s].asker = "waiting"
    /\ handed' = [d \in Ids |-> IF d \in sync[s].given THEN handed[d] + 1 ELSE handed[d]]
    /\ install' = [d \in Ids |-> IF d \in sync[s].given /\ install[d] \notin {"running", "report", "retry"}
                                 THEN "running" ELSE install[d]]
    /\ sync' = [sync EXCEPT ![s] = IdleSync]
    /\ UNCHANGED <<dbVars, memVars, post, deployPage, result, deployFaults>>

\* The agent that asked is gone, or the answer does not reach it.
AnswerLost(s) ==
    /\ Answered(s)
    /\ \/ sync[s].asker = "gone" /\ UNCHANGED deployFaults
       \/ sync[s].asker = "waiting" /\ deployFaults.losses < MaxLosses /\ deployFaults' = [deployFaults EXCEPT !.losses = @ + 1]
    /\ sync' = [sync EXCEPT ![s] = IdleSync]
    /\ UNCHANGED <<dbVars, memVars, post, deployPage, install, result, handed>>

(***************************************************************************)
(* The agent: deployOne for each job it was given.  completeDeployment is  *)
(* inside the try, so its failure is reported like the installer's; a      *)
(* second failure is an unhandled rejection and ends the process.          *)
(***************************************************************************)
InstallerEnds(d) ==
    /\ install[d] = "running"
    /\ \E answer \in {"ok", "failed"} : result' = [result EXCEPT ![d] = answer]
    /\ install' = [install EXCEPT ![d] = "report"]
    /\ UNCHANGED <<dbVars, memVars, post, deployPage, sync, handed, deployFaults>>

\* Mutant of OutcomeRecorded: any answer is taken for success.
RecordedAny(d) == "SUCCEEDED"

OutcomeRecorded(d) == IF install[d] = "report" /\ result[d] = "ok" THEN "SUCCEEDED" ELSE "FAILED"

\* POST /agent-sync/deployments/:id/result writes whatever the row's status.
RecordResult(d) ==
    /\ jobStatus' = [jobStatus EXCEPT ![d] = OutcomeRecorded(d)]
    /\ message' = [message EXCEPT ![d] = "reported"]

Report(d) ==
    /\ install[d] \in {"report", "retry"}
    /\ RecordResult(d)
    /\ install' = [install EXCEPT ![d] = "done"]
    /\ UNCHANGED <<order, memVars, post, deployPage, sync, result, handed, deployFaults>>

\* The request or its answer is lost and completeDeployment throws.
ReportThrows(d) ==
    /\ install[d] = "report" /\ deployFaults.losses < MaxLosses
    /\ RecordResult(d) \/ UNCHANGED <<jobStatus, message>>
    /\ install' = [install EXCEPT ![d] = "retry"]
    /\ deployFaults' = [deployFaults EXCEPT !.losses = @ + 1]
    /\ UNCHANGED <<order, memVars, post, deployPage, sync, result, handed>>

\* The agent's process ends and comes back with nothing in flight.
AgentGone ==
    /\ install' = [d \in Ids |-> IF install[d] \in {"running", "report", "retry"} THEN "gone" ELSE install[d]]
    /\ sync' = [s \in Syncs |-> IF sync[s].pc = "idle" THEN IdleSync ELSE [sync[s] EXCEPT !.asker = "gone"]]

RetryThrows(d) ==
    /\ install[d] = "retry" /\ deployFaults.losses < MaxLosses
    /\ AgentGone
    /\ deployFaults' = [deployFaults EXCEPT !.losses = @ + 1]
    /\ UNCHANGED <<dbVars, memVars, post, deployPage, result, handed>>

AgentCrash ==
    /\ deployFaults.crashes < MaxCrashes
    /\ AgentGone
    /\ deployFaults' = [deployFaults EXCEPT !.crashes = @ + 1]
    /\ UNCHANGED <<dbVars, memVars, post, deployPage, result, handed>>

\* The backend restarts: the maps and every handler in flight are gone.
DeployRestart ==
    /\ deployFaults.restarts < MaxRestarts
    /\ creds' = {} /\ options' = {}
    /\ post' = [r \in Creators |-> IdlePost]
    /\ deployPage' = [g \in DeployPages |-> IdlePage]
    /\ sync' = [s \in Syncs |-> IdleSync]
    /\ deployFaults' = [deployFaults EXCEPT !.restarts = @ + 1]
    /\ UNCHANGED <<dbVars, install, result, handed>>

-----------------------------------------------------------------------------
Create(r) == (\E d \in Ids : CheckAddress(r, d)) \/ ContinueCreate(r)
Listing(g) == ReadPending(g) \/ PickDead(g) \/ FailDead(g) \/ Forget(g)
Syncing(s) == ReadJobs(s) \/ Answer(s) \/ \E d \in Ids : TakeJob(s, d) \/ MarkRunning(s, d)
Installing(d) == InstallerEnds(d) \/ Report(d)
Failing(d) == CredentialsExpire(d) \/ ReportThrows(d) \/ RetryThrows(d)

DeployNext ==
    \/ \E r \in Creators : Create(r)
    \/ \E g \in DeployPages : Listing(g)
    \/ \E s \in Syncs : Syncing(s) \/ AnswerLost(s)
    \/ \E d \in Ids : Installing(d) \/ Failing(d)
    \/ AgentCrash
    \/ DeployRestart

DeploySpec == DeployInit /\ [][DeployNext]_deployVars

(***************************************************************************)
(* Fairness.  Handlers run on, the agent asks every ten seconds, and the   *)
(* page a deployment is started from reads the list every four.  Creating  *)
(* one is up to its user.                                                  *)
(***************************************************************************)
DeployFairSpec ==
    /\ DeploySpec
    /\ \A r \in Creators : WF_deployVars(ContinueCreate(r))
    /\ \A g \in DeployPages : WF_deployVars(Listing(g))
    /\ \A s \in Syncs : WF_deployVars(Syncing(s) \/ AnswerLost(s))
    /\ \A d \in Ids : WF_deployVars(Installing(d))

-----------------------------------------------------------------------------
PostState == {IdlePost} \cup [pc : {"create", "hold", "options"}, id : Ids]
ListingState == [pc : {"idle", "filter", "fail", "forget"}, rows : SUBSET Ids]
SyncState == [pc : {"idle", "take", "mark"}, jobs : SUBSET Ids, given : SUBSET Ids, asker : {"waiting", "gone"}]

\* Every variable holds values of its type.
DeployTypeOK ==
    /\ jobStatus \in [Ids -> {"ABSENT", "PENDING", "RUNNING", "SUCCEEDED", "FAILED"}]
    /\ message \in [Ids -> {"none", "uncollected", "reported"}]
    /\ order \in Seq(Ids)
    /\ creds \subseteq Ids /\ options \subseteq Ids
    /\ post \in [Creators -> PostState]
    /\ deployPage \in [DeployPages -> ListingState]
    /\ sync \in [Syncs -> SyncState]
    /\ install \in [Ids -> {"none", "running", "report", "retry", "done", "gone"}]
    /\ result \in [Ids -> {"none", "ok", "failed"}]
    /\ handed \in [Ids -> Nat]

\* The password leaves the backend at most once, however many syncs overlap,
\* and once it has left the backend holds neither it nor the enroll token.
PasswordLeavesOnce ==
    \A d \in Ids :
        /\ handed[d] <= 1
        /\ handed[d] = 1 => d \notin creds \cup options

\* A deployment that reads SUCCEEDED was collected, and its installer said so.
SucceededIsReal ==
    \A d \in Ids : jobStatus[d] = "SUCCEEDED" => handed[d] = 1 /\ result[d] = "ok"

\* One installer at a time on a machine (POST /deployments: "two installs
\* racing on one target end with a service half-configured by each").
OneInstaller ==
    \A c, d \in Ids :
        Target[c] = Target[d] /\ install[c] = "running" /\ install[d] = "running" => c = d

\* "No agent collected this in time, so the credentials were discarded" is
\* said only of deployments no agent has collected.
UncollectedIsTrue == \A d \in Ids : message[d] = "uncollected" => handed[d] = 0

\* The outcome recorded last is the installer's answer.
OutcomeReported ==
    \A d \in Ids : install[d] = "done" /\ result[d] = "ok" => jobStatus[d] = "SUCCEEDED"

\* A deployment an agent may collect does not sit at PENDING for ever, even
\* behind rows whose credentials are gone.
PendingSettles == \A d \in Ids : (jobStatus[d] = "PENDING") ~> (jobStatus[d] # "PENDING")

\* A collected deployment comes to an outcome, and frees its address.
RunningSettles == \A d \in Ids : (jobStatus[d] = "RUNNING") ~> (jobStatus[d] \in {"SUCCEEDED", "FAILED"})

\* A deployment comes to an end, collected or not, with or without a result.
DeploymentsSettle == PendingSettles /\ RunningSettles
=============================================================================
