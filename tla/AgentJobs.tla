------------------------------ MODULE AgentJobs ------------------------------
(***************************************************************************)
(* Work the backend queues for an agent, which alone can reach the network *)
(* in question: connection tests of a share, and sweeps of a network for   *)
(* machines.  A job is a row; every sync hands the agent those that are    *)
(* PENDING, and the agent works on each once at a time.  What the agent    *)
(* reports may be lost, or its answer.  A job nobody works on is given up  *)
(* by whoever looks at it once it is old.  A sync takes the three oldest    *)
(* sweeps; there are no more here.                                         *)
(*                                                                         *)
(* Reading a row and writing it are steps of their own where the code      *)
(* awaits in between.  What a sweep finds is <<attempt, machine>>.         *)
(***************************************************************************)
EXTENDS Integers, Sequences, FiniteSets, SequencesExt

CONSTANTS
    Jobs,
    Machines,   \* machines there may be on the network
    MaxAttempts, MaxLostReports, MaxDeaths \* bounds of a behaviour

ASSUME AgentJobsAssumption == MaxAttempts \in Nat /\ MaxLostReports \in Nat /\ MaxDeaths \in Nat /\ IsFiniteSet(Jobs)

VARIABLES
    jobKind,   \* "test" or "sweep", for good
    row,       \* [status, old, hosts] of each job, status "none" before it is asked for
    offers,    \* answers to syncs on their way: sets of jobs
    work,      \* the attempts the agent made: [job, pc, found, verdict]
    report,    \* each attempt's POST at the backend: "none", "arrived", "checked" or "answered"
    looking,   \* jobs the dashboard has read as given up and will write so
    outlasted, \* history: tests settled while another writer had read them as pending
    lostReports, deaths

jobVars == <<jobKind, row, offers, work, report, looking, outlasted, lostReports, deaths>>

NoRow == [status |-> "none", old |-> FALSE, hosts |-> {}]
Open == {"PENDING", "RUNNING"}
Over == {"SUCCEEDED", "FAILED"}

JobsInit ==
    /\ jobKind \in [Jobs -> {"test", "sweep"}]
    /\ row = [j \in Jobs |-> NoRow]
    /\ offers = {} /\ work = <<>> /\ report = <<>>
    /\ looking = {} /\ outlasted = {}
    /\ lostReports = 0 /\ deaths = 0

----------------------------------------------------------------------------
(* The dashboard: it asks for a job, then looks how it is doing. *)

AgentRests == UNCHANGED <<jobKind, work, report, lostReports, deaths>>
AskFor(j) ==
    /\ row[j].status = "none"
    /\ row' = [row EXCEPT ![j].status = "PENDING"]
    /\ UNCHANGED <<offers, looking, outlasted>> /\ AgentRests

\* Longer ago than CONNECTION_TEST_TIMEOUT_MS or SCAN_GIVE_UP_MS.
GrowsOld(j) ==
    /\ row[j].status # "none" /\ ~row[j].old
    /\ row' = [row EXCEPT ![j].old = TRUE]
    /\ UNCHANGED <<offers, looking, outlasted>> /\ AgentRests

\* Whoever else has read the test as pending and is about to write it.
Reported(j) == {i \in DOMAIN work : report[i] = "checked" /\ work[i].job = j}
Outlasts(j, others) == outlasted' = IF others THEN outlasted \cup {j} ELSE outlasted

GivenUp(j) == [row EXCEPT ![j].status = "FAILED"]
\* A test is read, and written as failed afterwards.
LookAtTest(j) ==
    /\ jobKind[j] = "test" /\ row[j].status = "PENDING" /\ row[j].old
    /\ looking' = looking \cup {j}
    /\ UNCHANGED <<row, offers, outlasted>> /\ AgentRests
GiveUpTest(j) ==
    /\ j \in looking /\ looking' = looking \ {j}
    /\ row' = GivenUp(j)
    /\ Outlasts(j, Reported(j) # {})
    /\ UNCHANGED offers /\ AgentRests

\* Sweeps are given up by one statement, whatever was last heard of them.
StuckPending(j) == row[j].status = "PENDING"
Stuck(j) == row[j].status \in Open
ExpireStuckScans(j) ==
    /\ jobKind[j] = "sweep" /\ Stuck(j) /\ row[j].old
    /\ row' = GivenUp(j)
    /\ UNCHANGED <<offers, looking, outlasted>> /\ AgentRests

----------------------------------------------------------------------------
(* The agent: syncs hand it the jobs, each runs by itself. *)

SyncHandsOver ==
    /\ LET pending == {j \in Jobs : row[j].status = "PENDING"}
       IN pending # {} /\ offers' = offers \cup {pending}
    /\ UNCHANGED <<jobKind, row, work, report, looking, outlasted, lostReports, deaths>>

Busy == {work[i].job : i \in {k \in DOMAIN work : work[k].pc # "over"}}
TakenUp(offer) == offer \ Busy
\* A sweep says first that it has started.
FirstStep(j) == IF jobKind[j] = "sweep" THEN "starts" ELSE "tries"
Attempt(j) == [job |-> j, pc |-> FirstStep(j), found |-> {}, verdict |-> FALSE]
OfferArrives(offer) ==
    /\ offer \in offers /\ offers' = offers \ {offer}
    /\ Len(work) + Cardinality(TakenUp(offer)) <= MaxAttempts
    /\ \/ TakenUp(offer) = {} /\ UNCHANGED <<work, report>>
       \/ LET jobs == SetToSeq(TakenUp(offer)) IN
            /\ jobs # <<>>
            /\ work' = work \o [n \in DOMAIN jobs |-> Attempt(jobs[n])]
            /\ report' = report \o [n \in DOMAIN jobs |-> "none"]
    /\ UNCHANGED <<jobKind, row, looking, outlasted, lostReports, deaths>>

Goes(i, pc) == work' = [work EXCEPT ![i].pc = pc]
Tells(y, ok, found) == [job |-> y.job, pc |-> "tells", found |-> found, verdict |-> ok]
Tries(i) ==
    /\ work[i].pc = "tries"
    /\ \E found \in SUBSET Machines, ok \in BOOLEAN :
         /\ work' = [work EXCEPT ![i] = Tells(@, ok, IF ok THEN {<<i, m>> : m \in found} ELSE {})]
         /\ jobKind[work[i].job] = "test" => found = {}
    /\ UNCHANGED <<jobKind, row, offers, report, looking, outlasted, lostReports, deaths>>

Posts(i) ==
    /\ work[i].pc \in {"starts", "tells"} /\ report[i] = "none"
    /\ report' = [report EXCEPT ![i] = "arrived"]
    /\ UNCHANGED <<jobKind, row, offers, work, looking, outlasted, lostReports, deaths>>

\* The answer came: a refusal is only logged.
Answered(i) ==
    /\ report[i] = "answered" /\ report' = [report EXCEPT ![i] = "none"]
    /\ Goes(i, IF work[i].pc = "starts" THEN "tries" ELSE "over")
    /\ UNCHANGED <<jobKind, row, offers, looking, outlasted, lostReports, deaths>>

\* It did not: the attempt reports failure instead, and when that is lost too,
\* nobody handles the rejection and the agent's process ends.
Dead == [i \in DOMAIN work |-> [work[i] EXCEPT !.pc = "over"]]
Unanswered(i) ==
    /\ report[i] \in {"arrived", "answered"} /\ work[i].pc # "over"
    /\ lostReports < MaxLostReports /\ lostReports' = lostReports + 1
    /\ report' = [report EXCEPT ![i] = "none"]
    /\ work' = IF work[i].pc = "tells" /\ ~work[i].verdict THEN Dead
               ELSE [work EXCEPT ![i] = Tells(@, FALSE, {})]
    /\ UNCHANGED <<jobKind, row, offers, looking, outlasted, deaths>>

AgentDies ==
    /\ deaths < MaxDeaths /\ deaths' = deaths + 1 /\ Busy # {}
    /\ work' = Dead
    /\ UNCHANGED <<jobKind, row, offers, report, looking, outlasted, lostReports>>

----------------------------------------------------------------------------
(* The backend stores what an attempt reports. *)

Stores(i, newRow) ==
    /\ row' = [row EXCEPT ![work[i].job] = newRow]
    /\ report' = [report EXCEPT ![i] = "answered"]
    /\ UNCHANGED <<jobKind, offers, work, looking, lostReports, deaths>>
Verdict(i) == IF work[i].verdict THEN "SUCCEEDED" ELSE "FAILED"

\* A test that is settled is not settled again.
SettleableAlways(j) == TRUE
Settleable(j) == row[j].status = "PENDING"
ChecksTest(i) ==
    /\ report[i] = "arrived" /\ jobKind[work[i].job] = "test"
    /\ report' = [report EXCEPT ![i] = IF Settleable(work[i].job) THEN "checked" ELSE "answered"]
    /\ UNCHANGED <<jobKind, row, offers, work, looking, outlasted, lostReports, deaths>>
StoresTest(i) ==
    /\ report[i] = "checked"
    /\ Stores(i, [row[work[i].job] EXCEPT !.status = Verdict(i)])
    /\ Outlasts(work[i].job, work[i].job \in looking \/ Reported(work[i].job) # {i})

\* A sweep that has started, even one that was over or given up already.
StoresStart(i) ==
    /\ report[i] = "arrived" /\ work[i].pc = "starts"
    /\ Stores(i, [row[work[i].job] EXCEPT !.status = "RUNNING"]) /\ UNCHANGED outlasted
HostsBesides(old, new) == old \cup new
HostsAfter(old, new) == new
StoresSweep(i) ==
    /\ report[i] = "arrived" /\ work[i].pc = "tells" /\ jobKind[work[i].job] = "sweep"
    /\ LET r == row[work[i].job]
       IN  Stores(i, [status |-> Verdict(i), old |-> r.old, hosts |-> HostsAfter(r.hosts, work[i].found)])
    /\ UNCHANGED outlasted
StoresReport(i) == ChecksTest(i) \/ StoresTest(i) \/ StoresStart(i) \/ StoresSweep(i)

AttemptStep(i) == Tries(i) \/ Posts(i) \/ Answered(i) \/ StoresReport(i)
JobsNext ==
    \/ \E j \in Jobs : AskFor(j) \/ GrowsOld(j) \/ LookAtTest(j) \/ GiveUpTest(j) \/ ExpireStuckScans(j)
    \/ SyncHandsOver \/ AgentDies
    \/ \E offer \in offers : OfferArrives(offer)
    \/ \E i \in DOMAIN work : AttemptStep(i) \/ Unanswered(i)

\* Time passes, the page that asked polls, and the backend answers.
JobsFairness ==
    /\ \A j \in Jobs : WF_jobVars(GrowsOld(j)) /\ WF_jobVars(LookAtTest(j))
                       /\ WF_jobVars(GiveUpTest(j)) /\ WF_jobVars(ExpireStuckScans(j))
JobsSpec == JobsInit /\ [][JobsNext]_jobVars

----------------------------------------------------------------------------
(* Properties. *)

Finds == Nat \X Machines
JobRow == [status : {"none"} \cup Open \cup Over, old : BOOLEAN, hosts : SUBSET Finds]
WorkState == [job : Jobs, pc : {"starts", "tries", "tells", "over"}, found : SUBSET Finds, verdict : BOOLEAN]

\* Rows and attempts are of their kind; only sweeps start, run and have hosts, and
\* the agent never works on one job twice at the same time.
JobsTypeOK ==
    /\ jobKind \in [Jobs -> {"test", "sweep"}] /\ row \in [Jobs -> JobRow]
    /\ offers \subseteq SUBSET Jobs /\ looking \subseteq Jobs /\ outlasted \subseteq Jobs
    /\ work \in Seq(WorkState)
    /\ report \in Seq({"none", "arrived", "checked", "answered"}) /\ Len(report) = Len(work)
    /\ \A j \in Jobs : jobKind[j] = "test" => row[j].status # "RUNNING" /\ row[j].hosts = {}
    /\ \A i \in DOMAIN work : jobKind[work[i].job] = "test" => work[i].pc # "starts" /\ work[i].found = {}
    /\ \A i, k \in DOMAIN work :
         i # k /\ work[i].pc # "over" /\ work[k].pc # "over" => work[i].job # work[k].job

\* What a sweep found is all of one attempt, never half of one run mixed with
\* half of another, whatever was reported twice, late or after an answer was lost.
SweepNotMixed ==
    \A j \in Jobs : \A h, k \in row[j].hosts : h[1] = k[1]

\* The outcome of a test stays what it was first, unless two writers had both
\* read it as pending: a report that comes again or late does not turn it over.
TestOutcomeStays ==
    [][\A j \in Jobs : jobKind[j] = "test" /\ row[j].status \in Over =>
          row'[j].status = row[j].status \/ j \in outlasted']_jobVars

\* A job that was asked for is settled, also when the agent dies over it.
JobsSettle == \A j \in Jobs : row[j].status \in Open ~> row[j].status \in Over
=============================================================================
