--------------------------- MODULE Agents_proofs ---------------------------
(***************************************************************************)
(* Proofs about what agents are asked to do and run, and what is made of   *)
(* what they report: AgentJobs, for every finite set of jobs, every        *)
(* network and every number of attempts, losses and deaths; Sources, for   *)
(* every finite set of shares and any number of agents, administrators,    *)
(* answers and loops; AlertRules, for every set of events, readers,        *)
(* requests, agents, sweeps and administrators, and every window; and      *)
(* Attribution, for any people, files, log and windows.                    *)
(***************************************************************************)
EXTENDS AgentJobs, Sources, AlertRules, Attribution, FiniteSetTheorems, SequenceTheorems,
        WellFoundedInduction, TLAPS

\* SetToSeq lists every element of a finite set once.
LEMMA SetToSeqLists ==
    ASSUME NEW S, IsFiniteSet(S)
    PROVE  /\ SetToSeq(S) \in Seq(S)
           /\ \A m, n \in DOMAIN SetToSeq(S) : SetToSeq(S)[m] = SetToSeq(S)[n] => m = n
           /\ \A x \in S : \E n \in DOMAIN SetToSeq(S) : SetToSeq(S)[n] = x
<1>1. Cardinality(S) \in Nat /\ ExistsBijection(1..Cardinality(S), S)
  BY FS_CardinalityType
<1>2. PICK f \in [1..Cardinality(S) -> S] : IsInjective(f)
  BY <1>1 DEF ExistsBijection, Bijection, Injection, IsInjective
<1>3. SetToSeq(S) \in [1..Cardinality(S) -> S] /\ IsInjective(SetToSeq(S))
  BY <1>2 DEF SetToSeq
<1>4. SetToSeq(S) \in Seq(S)
  BY <1>1, <1>3, SeqDef
<1>5. SetToSeq(S) \in Surjection(1..Cardinality(S), S)
  <2>1. SetToSeq(S) \in Injection(1..Cardinality(S), S)
    BY <1>3 DEF IsInjective, Injection
  <2>2. Cardinality(1..Cardinality(S)) = Cardinality(S)
    BY <1>1, FS_Interval
  <2> QED
    BY <2>1, <2>2, FS_Injection
<1>6. \A x \in S : \E n \in DOMAIN SetToSeq(S) : SetToSeq(S)[n] = x
  BY <1>3, <1>5 DEF Surjection
<1> QED
  BY <1>3, <1>4, <1>6 DEF IsInjective

LEMMA TypeInit == JobsInit => JobsTypeOK
BY DEF JobsInit, JobsTypeOK, NoRow, JobRow

\* What the steps make of an attempt's and of a job's record is again one.
LEMMA WorkRecords ==
    ASSUME NEW y \in WorkState
    PROVE  /\ \A pc \in {"starts", "tries", "tells", "over"} : [y EXCEPT !.pc = pc] \in WorkState
           /\ \A ok \in BOOLEAN, found \in SUBSET Finds : Tells(y, ok, found) \in WorkState
BY DEF WorkState, Tells

LEMMA RowRecords ==
    ASSUME NEW r \in JobRow
    PROVE  /\ \A st \in {"none"} \cup Open \cup Over : [r EXCEPT !.status = st] \in JobRow
           /\ [r EXCEPT !.old = TRUE] \in JobRow
           /\ \A st \in Over, hosts \in SUBSET Finds : [status |-> st, old |-> r.old, hosts |-> hosts] \in JobRow
BY DEF JobRow

\* Replacing one attempt by another record leaves a sequence of attempts.
LEMMA ReplaceWork ==
    ASSUME work \in Seq(WorkState), NEW i \in DOMAIN work, NEW y \in WorkState
    PROVE  /\ [work EXCEPT ![i] = y] \in Seq(WorkState) /\ Len([work EXCEPT ![i] = y]) = Len(work)
           /\ DOMAIN [work EXCEPT ![i] = y] = DOMAIN work
OBVIOUS

\* An offer that arrives adds one attempt for each of its jobs that the agent is
\* not working on, and no other.
LEMMA TakenUpOnce ==
    ASSUME JobsTypeOK, NEW offer \in offers, OfferArrives(offer)
    PROVE  /\ work' \in Seq(WorkState) /\ Len(work') >= Len(work)
           /\ report' \in Seq({"none", "arrived", "checked", "answered"}) /\ Len(report') = Len(work')
           /\ \A i \in DOMAIN work : i \in DOMAIN work' /\ work'[i] = work[i] /\ report'[i] = report[i]
           /\ \A i \in DOMAIN work' \ DOMAIN work :
                 /\ work'[i].job \in offer \ Busy /\ work'[i] = Attempt(work'[i].job) /\ report'[i] = "none"
                 /\ \A k \in DOMAIN work' \ DOMAIN work : work'[i].job = work'[k].job => i = k
<1> USE DEF JobsTypeOK
<1> DEFINE jobs == SetToSeq(TakenUp(offer))
           new == [n \in DOMAIN jobs |-> Attempt(jobs[n])]
           none == [n \in DOMAIN jobs |-> "none"]
<1>1. CASE UNCHANGED <<work, report>>
  BY <1>1
<1>2. CASE work' = work \o new /\ report' = report \o none
  <2>1. TakenUp(offer) \subseteq Jobs /\ IsFiniteSet(TakenUp(offer))
    BY FS_Subset, AgentJobsAssumption DEF TakenUp
  <2>2. jobs \in Seq(TakenUp(offer)) /\ \A m, n \in DOMAIN jobs : jobs[m] = jobs[n] => m = n
    BY <2>1, SetToSeqLists
  <2> HIDE DEF jobs
  <2>3. \A j \in TakenUp(offer) : Attempt(j) \in WorkState /\ Attempt(j).job = j
    BY <2>1 DEF Attempt, FirstStep, WorkState
  <2>4. new \in Seq(WorkState) /\ Len(new) = Len(jobs) /\ none \in Seq({"none", "arrived", "checked", "answered"}) /\ Len(none) = Len(jobs)
    <3>1. new \in [1..Len(jobs) -> WorkState] /\ none \in [1..Len(jobs) -> {"none", "arrived", "checked", "answered"}]
      BY <2>2, <2>3
    <3> QED
      BY <2>2, <3>1, SeqDef
  <2>5. /\ work' \in Seq(WorkState) /\ Len(work') = Len(work) + Len(jobs)
        /\ report' \in Seq({"none", "arrived", "checked", "answered"}) /\ Len(report') = Len(work')
    BY <1>2, <2>4
  <2>6. \A i \in DOMAIN work : i \in DOMAIN work' /\ work'[i] = work[i] /\ report'[i] = report[i]
    BY <1>2, <2>4
  <2>7. \A i \in DOMAIN work' \ DOMAIN work :
           /\ i - Len(work) \in DOMAIN jobs
           /\ work'[i] = Attempt(jobs[i - Len(work)]) /\ report'[i] = "none"
    BY <1>2, <2>2, <2>4
  <2> QED
    BY <2>2, <2>3, <2>5, <2>6, <2>7 DEF TakenUp
<1> QED
  BY <1>1, <1>2 DEF OfferArrives
\* Every step keeps every variable in its type, and the agent off a job it is
\* working on.
LEMMA TypeStep == JobsTypeOK /\ [JobsNext]_jobVars => JobsTypeOK'
<1> SUFFICES ASSUME JobsTypeOK, [JobsNext]_jobVars PROVE JobsTypeOK'
    OBVIOUS
<1> USE DEF JobsTypeOK, AgentRests
<1>0. /\ \A k \in DOMAIN work : work[k] \in WorkState
      /\ \A k \in DOMAIN work : work[k].job \in Jobs /\ work[k].found \in SUBSET Finds /\ work[k].verdict \in BOOLEAN
      /\ \A k \in Jobs : row[k] \in JobRow
  <2>1. \A k \in DOMAIN work : work[k] \in WorkState
    OBVIOUS
  <2> QED
    BY <2>1 DEF WorkState
<1>1. ASSUME NEW j \in Jobs, AskFor(j) PROVE JobsTypeOK'
  <2>1. row' \in [Jobs -> JobRow] /\ \A k \in Jobs : row'[k].hosts = row[k].hosts /\ row'[k].status \in {row[k].status, "PENDING"}
    <3>1. [row[j] EXCEPT !.status = "PENDING"] \in JobRow
      BY <1>0, RowRecords DEF Open
    <3>2. row' = [row EXCEPT ![j] = [row[j] EXCEPT !.status = "PENDING"]]
      BY <1>1 DEF AskFor
    <3> QED
      BY <1>0, <3>1, <3>2 DEF JobRow
  <2> QED
    BY <1>1, <2>1 DEF AskFor
<1>2. ASSUME NEW j \in Jobs, GrowsOld(j) PROVE JobsTypeOK'
  <2>1. row' \in [Jobs -> JobRow] /\ \A k \in Jobs : row'[k].hosts = row[k].hosts /\ row'[k].status = row[k].status
    <3>1. [row[j] EXCEPT !.old = TRUE] \in JobRow
      BY <1>0, RowRecords
    <3>2. row' = [row EXCEPT ![j] = [row[j] EXCEPT !.old = TRUE]]
      BY <1>2 DEF GrowsOld
    <3> QED
      BY <1>0, <3>1, <3>2 DEF JobRow
  <2> QED
    BY <1>2, <2>1 DEF GrowsOld
<1>3. ASSUME NEW j \in Jobs, LookAtTest(j) PROVE JobsTypeOK'
  BY <1>3 DEF LookAtTest
<1>4. ASSUME NEW j \in Jobs, GiveUpTest(j) \/ ExpireStuckScans(j) PROVE JobsTypeOK'
  <2>1. row' = [row EXCEPT ![j].status = "FAILED"]
    BY <1>4 DEF GiveUpTest, ExpireStuckScans, GivenUp
  <2>2. row' \in [Jobs -> JobRow] /\ \A k \in Jobs : row'[k].hosts = row[k].hosts /\ row'[k].status \in {row[k].status, "FAILED"}
    BY <2>1, RowRecords DEF Over, JobRow
  <2>3. UNCHANGED <<jobKind, work, report, offers>> /\ looking' \subseteq Jobs /\ outlasted' \subseteq Jobs
    BY <1>4 DEF GiveUpTest, ExpireStuckScans, Outlasts
  <2> QED
    BY ONLY JobsTypeOK, <2>2, <2>3 DEF JobsTypeOK
<1>5. CASE SyncHandsOver
  BY <1>5 DEF SyncHandsOver
<1>6. ASSUME NEW offer \in offers, OfferArrives(offer) PROVE JobsTypeOK'
  <2>1. \A i \in DOMAIN work' \ DOMAIN work :
           /\ work'[i].job \in Jobs /\ work'[i].job \notin Busy /\ work'[i].found = {}
           /\ jobKind[work'[i].job] = "test" => work'[i].pc # "starts"
    BY <1>6, TakenUpOnce DEF Attempt, FirstStep
  <2>2. \A i, k \in DOMAIN work' :
           i # k /\ work'[i].pc # "over" /\ work'[k].pc # "over" => work'[i].job # work'[k].job
    <3>1. ASSUME NEW i \in DOMAIN work', NEW k \in DOMAIN work' \ DOMAIN work, i # k, work'[i].pc # "over"
          PROVE  work'[i].job # work'[k].job
      <4>1. CASE i \in DOMAIN work
        BY <1>6, <2>1, <3>1, <4>1, TakenUpOnce DEF Busy
      <4>2. CASE i \notin DOMAIN work
        BY <1>6, <3>1, <4>2, TakenUpOnce
      <4> QED
        BY <4>1, <4>2
    <3>2. ASSUME NEW i \in DOMAIN work, NEW k \in DOMAIN work, i # k, work'[i].pc # "over", work'[k].pc # "over"
          PROVE  work'[i].job # work'[k].job
      BY <1>6, <3>2, TakenUpOnce
    <3> QED
      BY <3>1, <3>2
  <2>3. \A i \in DOMAIN work' : jobKind[work'[i].job] = "test" => work'[i].pc # "starts" /\ work'[i].found = {}
    BY <1>6, <2>1, TakenUpOnce
  <2> QED
    BY <1>6, <2>2, <2>3, TakenUpOnce DEF OfferArrives
<1>7. ASSUME NEW i \in DOMAIN work, Tries(i) PROVE JobsTypeOK'
  <2>1. PICK ok \in BOOLEAN, found \in SUBSET Finds :
           work' = [work EXCEPT ![i] = Tells(work[i], ok, found)] /\ (jobKind[work[i].job] = "test" => found = {})
    <3>1. PICK hosts \in SUBSET Machines, ok \in BOOLEAN :
             /\ work' = [work EXCEPT ![i] = Tells(work[i], ok, IF ok THEN {<<i, m>> : m \in hosts} ELSE {})]
             /\ jobKind[work[i].job] = "test" => hosts = {}
      BY <1>7 DEF Tries
    <3>2. {<<i, m>> : m \in hosts} \in SUBSET Finds /\ (hosts = {} => {<<i, m>> : m \in hosts} = {})
      BY DEF Finds
    <3>3. CASE ok
      BY <3>1, <3>2, <3>3
    <3>4. CASE ~ok
      BY <3>1, <3>4
    <3> QED
      BY <3>3, <3>4
  <2>2. Tells(work[i], ok, found) \in WorkState
    BY <1>0, WorkRecords
  <2>3. \A k \in DOMAIN work : /\ work'[k].job = work[k].job
                               /\ k # i => work'[k] = work[k]
    BY <2>1, <2>2 DEF Tells
  <2>4. work'[i].pc = "tells" /\ work'[i].found = found /\ work[i].pc # "over"
    BY <1>7, <2>1, <2>2 DEF Tells, Tries
  <2>5. work' \in Seq(WorkState) /\ Len(work') = Len(work) /\ DOMAIN work' = DOMAIN work
    BY <2>1, <2>2, ReplaceWork
  <2>6. UNCHANGED <<jobKind, row, offers, looking, outlasted, report>>
    BY <1>7 DEF Tries
  <2> QED
    BY <2>1, <2>3, <2>4, <2>5, <2>6
<1>8. ASSUME NEW i \in DOMAIN work, Posts(i) PROVE JobsTypeOK'
  BY <1>8 DEF Posts
<1>9. ASSUME NEW i \in DOMAIN work, Answered(i) PROVE JobsTypeOK'
  <2>1. PICK pc \in {"tries", "over"} :
           work' = [work EXCEPT ![i] = [work[i] EXCEPT !.pc = pc]] /\ (pc = "tries" => work[i].pc = "starts")
    BY <1>9 DEF Answered, Goes
  <2>2. [work[i] EXCEPT !.pc = pc] \in WorkState
    BY <1>0, WorkRecords
  <2>3. \A k \in DOMAIN work : /\ work'[k].job = work[k].job /\ work'[k].found = work[k].found
                               /\ work'[k].pc \in {work[k].pc, "tries", "over"}
                               /\ work'[k].pc = "tries" => work[k].pc # "over"
    BY <2>1, <2>2 DEF WorkState
  <2> QED
    BY <1>9, <2>1, <2>2, <2>3, ReplaceWork DEF Answered
<1>10. ASSUME NEW i \in DOMAIN work, Unanswered(i) PROVE JobsTypeOK'
  <2>1. CASE work' = Dead
    <3>1. \A k \in DOMAIN work : [work[k] EXCEPT !.pc = "over"] \in WorkState
      BY <1>0, WorkRecords
    <3>2. Dead \in Seq(WorkState) /\ Len(Dead) = Len(work) /\ DOMAIN Dead = DOMAIN work
      BY <3>1 DEF Dead
    <3>3. \A k \in DOMAIN work : Dead[k].pc = "over" /\ Dead[k].job = work[k].job /\ Dead[k].found = work[k].found
      BY <1>0 DEF Dead, WorkState
    <3>4. UNCHANGED <<jobKind, row, offers, looking, outlasted>> /\ report' = [report EXCEPT ![i] = "none"]
      BY <1>10 DEF Unanswered
    <3> QED
      BY <2>1, <3>2, <3>3, <3>4
  <2>2. CASE work' = [work EXCEPT ![i] = Tells(work[i], FALSE, {})]
    <3>1. Tells(work[i], FALSE, {}) \in WorkState
      BY <1>0, WorkRecords
    <3>2. \A k \in DOMAIN work : /\ work'[k].job = work[k].job
                                 /\ k # i => work'[k] = work[k]
      BY <2>2, <3>1 DEF Tells
    <3>3. work'[i].pc = "tells" /\ work'[i].found = {} /\ work[i].pc # "over"
      BY <1>10, <2>2, <3>1 DEF Tells, Unanswered
    <3>4. UNCHANGED <<jobKind, row, offers, looking, outlasted>> /\ report' = [report EXCEPT ![i] = "none"]
      BY <1>10 DEF Unanswered
    <3>5. work' \in Seq(WorkState) /\ Len(work') = Len(work) /\ DOMAIN work' = DOMAIN work
      BY <2>2, <3>1, ReplaceWork
    <3>6. report' \in Seq({"none", "arrived", "checked", "answered"}) /\ Len(report') = Len(report)
      BY <3>4
    <3>7. \A k, m \in DOMAIN work' :
             k # m /\ work'[k].pc # "over" /\ work'[m].pc # "over" => work'[k].job # work'[m].job
      BY <3>2, <3>3, <3>5
    <3>8. \A k \in DOMAIN work' : jobKind[work'[k].job] = "test" => work'[k].pc # "starts" /\ work'[k].found = {}
      BY <3>2, <3>3, <3>5
    <3> QED
      BY <3>4, <3>5, <3>6, <3>7, <3>8
  <2> QED
    BY <1>10, <2>1, <2>2 DEF Unanswered
<1>11. CASE AgentDies
  <2>1. \A k \in DOMAIN work : [work[k] EXCEPT !.pc = "over"] \in WorkState
    BY <1>0, WorkRecords
  <2>2. Dead \in Seq(WorkState) /\ Len(Dead) = Len(work) /\ DOMAIN Dead = DOMAIN work
    BY <2>1 DEF Dead
  <2>3. \A k \in DOMAIN work : Dead[k].pc = "over" /\ Dead[k].job = work[k].job /\ Dead[k].found = work[k].found
    BY <1>0 DEF Dead, WorkState
  <2> QED
    BY <1>11, <2>2, <2>3 DEF AgentDies
<1>12. ASSUME NEW i \in DOMAIN work, ChecksTest(i) PROVE JobsTypeOK'
  BY <1>12 DEF ChecksTest
<1>13. ASSUME NEW i \in DOMAIN work, StoresTest(i) PROVE JobsTypeOK'
  <2>1. [row[work[i].job] EXCEPT !.status = Verdict(i)] \in JobRow /\ Verdict(i) \in Over /\ work[i].job \in Jobs
    BY <1>0, RowRecords DEF Verdict, Over, WorkState
  <2>2. \A k \in Jobs : row'[k].hosts = row[k].hosts /\ row'[k].status \in {row[k].status} \cup Over
    BY <1>13, <2>1 DEF StoresTest, Stores, JobRow
  <2> QED
    BY <1>13, <2>1, <2>2 DEF StoresTest, Stores, Outlasts, Over
<1>14. ASSUME NEW i \in DOMAIN work, StoresStart(i) PROVE JobsTypeOK'
  <2>1. [row[work[i].job] EXCEPT !.status = "RUNNING"] \in JobRow /\ work[i].job \in Jobs
    BY <1>0, RowRecords DEF Open, WorkState
  <2>2. /\ \A k \in Jobs : row'[k].hosts = row[k].hosts /\ row'[k].status \in {row[k].status, "RUNNING"}
        /\ \A k \in Jobs \ {work[i].job} : row'[k].status = row[k].status
    BY <1>14, <2>1 DEF StoresStart, Stores, JobRow
  <2> QED
    BY <1>14, <2>1, <2>2 DEF StoresStart, Stores
<1>15. ASSUME NEW i \in DOMAIN work, StoresSweep(i) PROVE JobsTypeOK'
  <2>1. /\ [status |-> Verdict(i), old |-> row[work[i].job].old, hosts |-> work[i].found] \in JobRow
        /\ Verdict(i) \in Over /\ work[i].job \in Jobs
    BY <1>0, RowRecords DEF Verdict, Over, WorkState
  <2> QED
    BY <1>15, <2>1 DEF StoresSweep, Stores, HostsAfter
<1>16. CASE UNCHANGED jobVars
  BY <1>16 DEF jobVars
<1> QED
  BY <1>1, <1>2, <1>3, <1>4, <1>5, <1>6, <1>7, <1>8, <1>9, <1>10, <1>11, <1>12, <1>13, <1>14, <1>15, <1>16
     DEF JobsNext, AttemptStep, StoresReport

\* Every variable holds values of its type in every reachable state, and the
\* agent never works on one job twice at the same time.
THEOREM TypeCorrect == JobsSpec => []JobsTypeOK
BY TypeInit, TypeStep, PTL DEF JobsSpec
-----------------------------------------------------------------------------
(***************************************************************************)
(* The inductive invariant: what an attempt found is its own; and a test   *)
(* that is settled while somebody is still about to settle it, having read *)
(* it as pending, is one of the outlasted.                                 *)
(***************************************************************************)
FoundIsOwn == \A i \in DOMAIN work : \A h \in work[i].found : h[1] = i

OutlastedAreKnown ==
    \A j \in Jobs : jobKind[j] = "test" /\ row[j].status \in Over =>
        /\ j \in looking => j \in outlasted
        /\ \A i \in DOMAIN work : report[i] = "checked" /\ work[i].job = j => j \in outlasted

OnlyTestsChecked ==
    /\ \A j \in looking : jobKind[j] = "test"
    /\ \A i \in DOMAIN work : report[i] = "checked" => jobKind[work[i].job] = "test"

JobsIInv == JobsTypeOK /\ FoundIsOwn /\ SweepNotMixed /\ OnlyTestsChecked /\ OutlastedAreKnown
LEMMA IInvInit == JobsInit => JobsIInv
BY TypeInit DEF JobsInit, JobsIInv, FoundIsOwn, SweepNotMixed, OnlyTestsChecked, OutlastedAreKnown, NoRow, Over

\* A step that leaves rows, reports and who looks alone, and gives no attempt
\* anything it did not find.
LEMMA WorkOnly ==
    ASSUME JobsIInv, UNCHANGED <<jobKind, row, looking, outlasted>>,
           \A i \in DOMAIN work' : report'[i] = "checked" =>
               i \in DOMAIN work /\ report[i] = "checked" /\ work'[i].job = work[i].job,
           \A i \in DOMAIN work' : \A h \in work'[i].found : h[1] = i
    PROVE  FoundIsOwn' /\ SweepNotMixed' /\ OnlyTestsChecked' /\ OutlastedAreKnown'
BY DEF JobsIInv, FoundIsOwn, SweepNotMixed, OnlyTestsChecked, OutlastedAreKnown

LEMMA IInvStep == JobsIInv /\ [JobsNext]_jobVars => JobsIInv'
<1> SUFFICES ASSUME JobsIInv, [JobsNext]_jobVars PROVE JobsIInv'
    OBVIOUS
<1> DEFINE Rest == FoundIsOwn /\ SweepNotMixed /\ OnlyTestsChecked /\ OutlastedAreKnown
<1>0. JobsTypeOK /\ JobsTypeOK' /\ Rest
  BY TypeStep DEF JobsIInv
<1> SUFFICES Rest'
    BY <1>0 DEF JobsIInv
<1>a. /\ \A k \in DOMAIN work : work[k] \in WorkState /\ work[k].job \in Jobs
      /\ \A k \in Jobs : row[k] \in JobRow
      /\ DOMAIN report = DOMAIN work /\ \A k \in DOMAIN work : report[k] \in {"none", "arrived", "checked", "answered"}
  <2>1. \A k \in DOMAIN work : work[k] \in WorkState
    BY <1>0 DEF JobsTypeOK
  <2> QED
    BY <1>0, <2>1 DEF JobsTypeOK, WorkState
<1> USE DEF AgentRests, FoundIsOwn, SweepNotMixed, OnlyTestsChecked, OutlastedAreKnown
<1>1. ASSUME NEW j \in Jobs, AskFor(j) PROVE Rest'
  <2>1. /\ \A k \in Jobs : row'[k].hosts = row[k].hosts
        /\ \A k \in Jobs : row'[k].status \in Over => row[k].status \in Over
    BY <1>0, <1>a, <1>1 DEF AskFor, Over, JobRow, JobsTypeOK
  <2> QED
    BY <1>0, <1>1, <2>1 DEF AskFor
<1>2. ASSUME NEW j \in Jobs, GrowsOld(j) PROVE Rest'
  <2>1. \A k \in Jobs : row'[k].hosts = row[k].hosts /\ row'[k].status = row[k].status
    BY <1>0, <1>a, <1>2 DEF GrowsOld, JobRow, JobsTypeOK
  <2> QED
    BY <1>0, <1>2, <2>1 DEF GrowsOld
<1>3. ASSUME NEW j \in Jobs, LookAtTest(j) PROVE Rest'
  BY <1>0, <1>3 DEF LookAtTest, Over
<1>4. ASSUME NEW j \in Jobs, GiveUpTest(j) PROVE Rest'
  <2>1. /\ \A k \in Jobs : row'[k].hosts = row[k].hosts
        /\ \A k \in Jobs \ {j} : row'[k].status = row[k].status
    BY <1>0, <1>a, <1>4 DEF GiveUpTest, GivenUp, JobRow, JobsTypeOK
  <2>2. \A i \in DOMAIN work : report[i] = "checked" /\ work[i].job = j => j \in outlasted'
    BY <1>4 DEF GiveUpTest, Outlasts, Reported
  <2>3. outlasted \subseteq outlasted' /\ looking' = looking \ {j} /\ UNCHANGED <<jobKind, work, report>>
    BY <1>4 DEF GiveUpTest, Outlasts
  <2> QED
    BY <1>0, <2>1, <2>2, <2>3
<1>5. ASSUME NEW j \in Jobs, ExpireStuckScans(j) PROVE Rest'
  <2>1. /\ \A k \in Jobs : row'[k].hosts = row[k].hosts
        /\ \A k \in Jobs \ {j} : row'[k].status = row[k].status
    BY <1>0, <1>a, <1>5 DEF ExpireStuckScans, GivenUp, JobRow, JobsTypeOK
  <2> QED
    BY <1>0, <1>5, <2>1 DEF ExpireStuckScans
<1>6. CASE SyncHandsOver
  BY <1>0, <1>6, WorkOnly DEF SyncHandsOver, JobsIInv
<1>7. ASSUME NEW offer \in offers, OfferArrives(offer) PROVE Rest'
  <2>1. \A k \in DOMAIN work' \ DOMAIN work : work'[k].found = {} /\ report'[k] = "none"
    BY <1>0, <1>7, TakenUpOnce DEF Attempt
  <2>2. \A k \in DOMAIN work : work'[k] = work[k] /\ report'[k] = report[k]
    BY <1>0, <1>7, TakenUpOnce
  <2> QED
    BY <1>0, <1>7, <2>1, <2>2, WorkOnly DEF OfferArrives
<1>8. ASSUME NEW i \in DOMAIN work, Tries(i) PROVE Rest'
  <2>1. PICK found \in SUBSET Finds, ok \in BOOLEAN : work' = [work EXCEPT ![i] = Tells(work[i], ok, found)] /\ \A h \in found : h[1] = i
    <3>1. PICK hosts \in SUBSET Machines, ok \in BOOLEAN :
             work' = [work EXCEPT ![i] = Tells(work[i], ok, IF ok THEN {<<i, m>> : m \in hosts} ELSE {})]
      BY <1>8 DEF Tries
    <3>2. {<<i, m>> : m \in hosts} \in SUBSET Finds /\ {} \in SUBSET Finds
      BY <1>0 DEF Finds, JobsTypeOK
    <3>3. \A h \in {<<i, m>> : m \in hosts} : h[1] = i
      OBVIOUS
    <3>4. CASE ok
      <4>1. work' = [work EXCEPT ![i] = Tells(work[i], ok, {<<i, m>> : m \in hosts})]
        BY <3>1, <3>4
      <4> QED
        BY <3>2, <3>3, <4>1
    <3>5. CASE ~ok
      BY <3>1, <3>2, <3>5
    <3> QED
      BY <3>4, <3>5
  <2>2. DOMAIN work' = DOMAIN work /\ \A k \in DOMAIN work : work'[k].job = work[k].job /\ (k # i => work'[k] = work[k])
    BY <1>0, <2>1 DEF Tells, JobsTypeOK
  <2>3. work'[i].found = found
    BY <1>0, <2>1 DEF Tells, JobsTypeOK
  <2> QED
    BY <1>0, <1>8, <2>1, <2>2, <2>3, WorkOnly DEF Tries
<1>9. ASSUME NEW i \in DOMAIN work, Posts(i) PROVE Rest'
  <2>1. \A k \in DOMAIN work : report'[k] = "checked" => report[k] = "checked"
    BY <1>0, <1>a, <1>9 DEF Posts, JobsTypeOK
  <2> QED
    BY <1>0, <1>9, <2>1, WorkOnly DEF Posts
<1>10. ASSUME NEW i \in DOMAIN work, Answered(i) PROVE Rest'
  <2>1. PICK pc : work' = [work EXCEPT ![i] = [work[i] EXCEPT !.pc = pc]]
    BY <1>10 DEF Answered, Goes
  <2>2. DOMAIN work' = DOMAIN work /\ \A k \in DOMAIN work : work'[k].job = work[k].job /\ work'[k].found = work[k].found
    BY <1>0, <1>a, <2>1 DEF WorkState, JobsTypeOK
  <2>3. \A k \in DOMAIN work : report'[k] = "checked" => report[k] = "checked"
    BY <1>0, <1>a, <1>10 DEF Answered, JobsTypeOK
  <2> QED
    BY <1>0, <1>10, <2>2, <2>3, WorkOnly DEF Answered
<1>11. ASSUME NEW i \in DOMAIN work, Unanswered(i) PROVE Rest'
  <2>1. \A k \in DOMAIN work : report'[k] = "checked" => report[k] = "checked"
    BY <1>0, <1>a, <1>11 DEF Unanswered, JobsTypeOK
  <2>2. /\ DOMAIN work' = DOMAIN work
        /\ \A k \in DOMAIN work : work'[k].job = work[k].job /\ work'[k].found \in {work[k].found, {}}
    <3>1. CASE work' = Dead
      BY <1>a, <3>1 DEF Dead, WorkState
    <3>2. CASE work' = [work EXCEPT ![i] = Tells(work[i], FALSE, {})]
      BY <1>0, <1>a, <3>2 DEF Tells, JobsTypeOK
    <3> QED
      BY <1>11, <3>1, <3>2 DEF Unanswered
  <2>3. UNCHANGED <<jobKind, row, looking, outlasted>>
    BY ONLY <1>11 DEF Unanswered, AgentRests
  <2>4. \A k \in DOMAIN work' : report'[k] = "checked" =>
           k \in DOMAIN work /\ report[k] = "checked" /\ work'[k].job = work[k].job
    BY ONLY <2>1, <2>2
  <2>5. \A k \in DOMAIN work' : \A h \in work'[k].found : h[1] = k
    BY ONLY <1>0, <2>2 DEF FoundIsOwn
  <2> HIDE DEF FoundIsOwn, SweepNotMixed, OnlyTestsChecked, OutlastedAreKnown
  <2> QED
    BY ONLY JobsIInv, <2>3, <2>4, <2>5, WorkOnly
<1>12. CASE AgentDies
  <2>1. DOMAIN work' = DOMAIN work /\ \A k \in DOMAIN work : work'[k].job = work[k].job /\ work'[k].found = work[k].found
    BY <1>a, <1>12 DEF AgentDies, Dead, WorkState
  <2> QED
    BY <1>0, <1>12, <2>1, WorkOnly DEF AgentDies
<1>13. ASSUME NEW i \in DOMAIN work, ChecksTest(i) PROVE Rest'
  <2>1. \A k \in DOMAIN work : report'[k] = "checked" => report[k] = "checked" \/ (k = i /\ row[work[i].job].status = "PENDING")
    BY <1>0, <1>a, <1>13 DEF ChecksTest, Settleable, JobsTypeOK
  <2>2. jobKind[work[i].job] = "test" /\ UNCHANGED <<jobKind, row, offers, work, looking, outlasted>>
    BY <1>13 DEF ChecksTest
  <2> QED
    BY <1>0, <2>1, <2>2 DEF Over
<1>14. ASSUME NEW i \in DOMAIN work, StoresTest(i) PROVE Rest'
  <2>1. /\ \A k \in Jobs : row'[k].hosts = row[k].hosts
        /\ \A k \in Jobs \ {work[i].job} : row'[k].status = row[k].status
    BY <1>0, <1>a, <1>14 DEF StoresTest, Stores, JobRow, JobsTypeOK
  <2>2. /\ work[i].job \in looking => work[i].job \in outlasted'
        /\ \A k \in DOMAIN work \ {i} : report[k] = "checked" /\ work[k].job = work[i].job => work[i].job \in outlasted'
        /\ outlasted \subseteq outlasted'
    BY <1>14 DEF StoresTest, Outlasts, Reported
  <2>3. \A k \in DOMAIN work : report'[k] = "checked" => report[k] = "checked" /\ k # i
    BY <1>0, <1>a, <1>14 DEF StoresTest, Stores, JobsTypeOK
  <2> QED
    BY <1>0, <1>14, <2>1, <2>2, <2>3 DEF StoresTest, Stores
<1>15. ASSUME NEW i \in DOMAIN work, StoresStart(i) PROVE Rest'
  <2>1. /\ \A k \in Jobs : row'[k].hosts = row[k].hosts
        /\ \A k \in Jobs : row'[k].status \in Over => row[k].status \in Over
    BY <1>0, <1>a, <1>15 DEF StoresStart, Stores, Over, JobRow, JobsTypeOK
  <2>2. \A k \in DOMAIN work : report'[k] = "checked" => report[k] = "checked"
    BY <1>0, <1>a, <1>15 DEF StoresStart, Stores, JobsTypeOK
  <2> QED
    BY <1>0, <1>15, <2>1, <2>2 DEF StoresStart, Stores
<1>16. ASSUME NEW i \in DOMAIN work, StoresSweep(i) PROVE Rest'
  <2>1. /\ \A k \in Jobs \ {work[i].job} : row'[k] = row[k]
        /\ row'[work[i].job].hosts = work[i].found /\ jobKind[work[i].job] = "sweep"
    BY <1>0, <1>a, <1>16 DEF StoresSweep, Stores, HostsAfter, JobsTypeOK
  <2>2. \A k \in DOMAIN work : report'[k] = "checked" => report[k] = "checked"
    BY <1>0, <1>a, <1>16 DEF StoresSweep, Stores, JobsTypeOK
  <2> QED
    BY <1>0, <1>16, <2>1, <2>2 DEF StoresSweep, Stores
<1>17. CASE UNCHANGED jobVars
  BY <1>0, <1>17 DEF jobVars
<1> QED
  BY <1>1, <1>2, <1>3, <1>4, <1>5, <1>6, <1>7, <1>8, <1>9, <1>10, <1>11, <1>12, <1>13, <1>14, <1>15, <1>16, <1>17
     DEF JobsNext, AttemptStep, StoresReport

LEMMA IInvAlways == JobsSpec => []JobsIInv
BY IInvInit, IInvStep, PTL DEF JobsSpec

\* The machines a sweep shows were all found by one attempt, whatever was
\* reported twice, late or after an answer was lost.
THEOREM SweepsNotMixed == JobsSpec => []SweepNotMixed
<1>1. JobsIInv => SweepNotMixed
  BY DEF JobsIInv
<1> QED
  BY <1>1, IInvAlways, PTL
\* A test that is settled keeps its outcome in every step, but for those two
\* writers of which had both read it as pending.
LEMMA OutcomeKept ==
    ASSUME JobsIInv, [JobsNext]_jobVars, NEW j \in Jobs, jobKind[j] = "test", row[j].status \in Over
    PROVE  row'[j].status = row[j].status \/ j \in outlasted'
<1>0. JobsTypeOK
  BY DEF JobsIInv
<1>1. \A k \in Jobs : row[k] \in JobRow
  BY <1>0 DEF JobsTypeOK
<1>2. \A i \in DOMAIN work : work[i].job \in Jobs
  <2>1. \A i \in DOMAIN work : work[i] \in WorkState
    BY <1>0 DEF JobsTypeOK
  <2> QED
    BY <2>1 DEF WorkState
<1>3. CASE row' = row
  BY <1>3
<1>4. ASSUME NEW k \in Jobs, AskFor(k) \/ GrowsOld(k) \/ ExpireStuckScans(k)
      PROVE  row'[j].status = row[j].status
  BY <1>0, <1>1, <1>4 DEF AskFor, GrowsOld, ExpireStuckScans, GivenUp, Over, JobRow, JobsTypeOK
<1>5. ASSUME NEW k \in Jobs, GiveUpTest(k)
      PROVE  row'[j].status = row[j].status \/ j \in outlasted'
  <2>1. CASE k = j
    BY <1>5, <2>1 DEF GiveUpTest, Outlasts, JobsIInv, OutlastedAreKnown
  <2>2. CASE k # j
    BY <1>0, <1>5, <2>2 DEF GiveUpTest, GivenUp, JobsTypeOK
  <2> QED
    BY <2>1, <2>2
<1>6. ASSUME NEW i \in DOMAIN work, StoresTest(i)
      PROVE  row'[j].status = row[j].status \/ j \in outlasted'
  <2>1. CASE work[i].job = j
    BY <1>6, <2>1 DEF StoresTest, Outlasts, JobsIInv, OutlastedAreKnown
  <2>2. CASE work[i].job # j
    BY <1>0, <1>2, <1>6, <2>2 DEF StoresTest, Stores, JobsTypeOK
  <2> QED
    BY <2>1, <2>2
<1>7. ASSUME NEW i \in DOMAIN work, StoresStart(i) \/ StoresSweep(i)
      PROVE  row'[j].status = row[j].status
  <2>1. work[i].job # j
    BY <1>0, <1>7 DEF StoresStart, StoresSweep, JobsTypeOK
  <2> QED
    BY <1>0, <1>2, <1>7, <2>1 DEF StoresStart, StoresSweep, Stores, JobsTypeOK
<1> QED
  BY <1>3, <1>4, <1>5, <1>6, <1>7
     DEF JobsNext, AttemptStep, StoresReport, LookAtTest, SyncHandsOver, AgentDies, OfferArrives, Tries, Posts,
         Answered, Unanswered, ChecksTest, AgentRests, jobVars

\* What a test came to is not turned over by a report that comes again or late,
\* unless it and another writer had both read the test as pending.
THEOREM OutcomeStays == JobsSpec => TestOutcomeStays
<1>1. JobsIInv /\ [JobsNext]_jobVars =>
        [\A j \in Jobs : jobKind[j] = "test" /\ row[j].status \in Over =>
            row'[j].status = row[j].status \/ j \in outlasted']_jobVars
  BY OutcomeKept
<1> QED
  BY <1>1, IInvAlways, PTL DEF JobsSpec, TestOutcomeStays
-----------------------------------------------------------------------------
(***************************************************************************)
(* Sources.                                                                *)
(*                                                                         *)
(* The limiter: its queue holds each loop that waits, once, in the order   *)
(* they came, and there is a queue only where every slot is taken.  The    *)
(* map of an agent: what it points to is a loop of that agent and share;   *)
(* only so does an answer that drops or changes a share stop the loop that *)
(* is alive.  The rows: as long as no two requests overlapped, the one     *)
(* under way has read the host the server still has.                       *)
(***************************************************************************)
Keys == Hosts \X ShareFolders
SourceRow == [there : {TRUE}, enabled : BOOLEAN, agent : Collectors, folder : ShareFolders,
              label : Hosts, interval : Intervals]
EditState ==
    [op : {"none"}]
    \cup [op : {"create", "share"}, share : Shares, folder : ShareFolders, agent : Collectors,
          interval : Intervals, host : Hosts]
    \cup [op : {"host"}, to : Hosts, host : Hosts]
    \cup [op : {"toggle"}, share : Shares, on : BOOLEAN]
    \cup [op : {"server"}, on : BOOLEAN]
    \cup [op : {"delete"}, share : Shares]
    \cup [op : {"deleteAll"}, shares : SUBSET Shares]
RowsSound ==
    /\ server \in [there : BOOLEAN, enabled : BOOLEAN, host : Hosts]
    /\ source \in [Shares -> {Spec0} \cup SourceRow]
    /\ edit \in [Admins -> EditState] /\ crossedEdits \in BOOLEAN
\* While no two requests overlapped, there is one at most, and it knows the host.
EditsSound ==
    ~crossedEdits => /\ \A d, e \in Admins : edit[d] # NoEdit /\ edit[e] # NoEdit => d = e
                     /\ \A d \in Admins : edit[d].op \in {"create", "share", "host"} => edit[d].host = server.host

Answer == [key : Keys, interval : Intervals]
Answers == UNION {[D -> Answer] : D \in SUBSET Shares}
Loop == [agent : Collectors, share : Shares, key : Keys, interval : Intervals, stopped : BOOLEAN,
         at : {"asks", "waits", "walks", "posts", "sleeps", "ended"}]
LoopsSound ==
    /\ loops \in Seq(Loop)
    /\ running \in [Collectors -> [Shares -> Nat]]
    /\ \A a \in Collectors, s \in Shares : running[a][s] # 0 =>
          /\ running[a][s] \in DOMAIN loops
          /\ loops[running[a][s]].agent = a /\ loops[running[a][s]].share = s

LimiterOf(a) ==
    /\ waiting[a] \in Seq(Nat)
    /\ \A i \in DOMAIN waiting[a] : /\ waiting[a][i] \in DOMAIN loops
                                    /\ loops[waiting[a][i]].agent = a /\ loops[waiting[a][i]].at = "waits"
    /\ \A i, j \in DOMAIN waiting[a] : waiting[a][i] = waiting[a][j] => i = j
    /\ \A l \in DOMAIN loops : loops[l].agent = a /\ loops[l].at = "waits" =>
          \E i \in DOMAIN waiting[a] : waiting[a][i] = l
    /\ active[a] = Cardinality(WalksOf(a)) /\ active[a] \in 0..MaxScans
    /\ waiting[a] # <<>> => active[a] = MaxScans
LimiterSound == \A a \in Collectors : LimiterOf(a)

SourcesIInv ==
    /\ RowsSound /\ EditsSound /\ LabelsInStep
    /\ answers \in [Collectors -> Seq(Answers)]
    /\ LoopsSound /\ OneLiveLoop
    /\ waiting \in [Collectors -> Seq(Nat)] /\ active \in [Collectors -> Nat] /\ LimiterSound
LEMMA SourcesIInvInit == SourcesInit => SourcesIInv
<1> SUFFICES ASSUME SourcesInit PROVE SourcesIInv
  OBVIOUS
<1> USE DEF SourcesInit
<1>1. RowsSound /\ EditsSound /\ LabelsInStep
  <2>1. SharesThere = {}
    BY DEF SharesThere, Spec0
  <2>2. \A d \in Admins : edit[d] = NoEdit /\ edit[d].op = "none"
    BY DEF NoEdit
  <2>3. RowsSound
    BY DEF RowsSound, NoEdit, EditState
  <2> QED
    BY <2>1, <2>2, <2>3 DEF EditsSound, LabelsInStep
<1>2. answers \in [Collectors -> Seq(Answers)]
  OBVIOUS
<1>3. LoopsSound /\ OneLiveLoop
  BY DEF LoopsSound, OneLiveLoop
<1>4. waiting \in [Collectors -> Seq(Nat)] /\ active \in [Collectors -> Nat] /\ LimiterSound
  <2>1. \A a \in Collectors : waiting[a] = <<>> /\ active[a] = 0 /\ WalksOf(a) = {}
    BY DEF WalksOf
  <2>2. Cardinality({}) = 0 /\ 0 \in 0..MaxScans
    BY FS_EmptySet, SourcesAssumption
  <2>3. LimiterSound
    <3>1. loops = <<>> /\ DOMAIN loops = {} /\ <<>> \in Seq(Nat) /\ DOMAIN <<>> = {}
      OBVIOUS
    <3> QED
      BY ONLY <2>1, <2>2, <3>1 DEF LimiterSound, LimiterOf
  <2> QED
    BY <2>3
<1> QED
  BY <1>1, <1>2, <1>3, <1>4 DEF SourcesIInv

-----------------------------------------------------------------------------
\* The rows, as requests read and write them.
LEMMA ReadsRowStep ==
    ASSUME SourcesIInv, NEW d \in Admins, NEW e \in EditState, ReadsRow(d, e),
           e.op \in {"create", "share", "host"} => e.host = server.host
    PROVE  RowsSound' /\ EditsSound' /\ LabelsInStep'
<1>1. /\ edit[d] = NoEdit /\ edit' = [edit EXCEPT ![d] = e] /\ UNCHANGED <<server, source>>
      /\ crossedEdits' = (crossedEdits \/ \E y \in Admins : edit[y] # NoEdit)
  BY DEF ReadsRow
<1>2. RowsSound'
  BY <1>1 DEF SourcesIInv, RowsSound
<1>3. EditsSound'
  <2> SUFFICES ASSUME ~crossedEdits'
               PROVE  /\ \A b, c \in Admins : edit'[b] # NoEdit /\ edit'[c] # NoEdit => b = c
                      /\ \A c \in Admins : edit'[c].op \in {"create", "share", "host"} => edit'[c].host = server'.host
    BY DEF EditsSound
  <2>1. edit'[d] = e /\ \A c \in Admins \ {d} : edit'[c] = NoEdit
    BY <1>1 DEF SourcesIInv, RowsSound
  <2>2. NoEdit.op = "none"
    BY DEF NoEdit
  <2> QED
    BY <1>1, <2>1, <2>2
<1>4. LabelsInStep'
  BY <1>1 DEF SourcesIInv, LabelsInStep, SharesThere
<1> QED
  BY <1>2, <1>3, <1>4

LEMMA ReadsStep == ASSUME SourcesIInv, NEW d \in Admins, AdminReads(d) PROVE RowsSound' /\ EditsSound' /\ LabelsInStep'
<1>1. PICK h \in Hosts : h = server.host
  BY DEF SourcesIInv, RowsSound
<1>2. ASSUME NEW s \in Shares, NEW f \in ShareFolders, NEW a \in Collectors, NEW i \in Intervals,
             ReadForCreate(d, s, f, a, i) \/ ReadForShare(d, s, f, a, i)
      PROVE  RowsSound' /\ EditsSound' /\ LabelsInStep'
  <2>1. PICK op \in {"create", "share"} :
           ReadsRow(d, [op |-> op, share |-> s, folder |-> f, agent |-> a, interval |-> i, host |-> h])
    BY <1>1, <1>2 DEF ReadForCreate, ReadForShare
  <2>2. PICK e : e = [op |-> op, share |-> s, folder |-> f, agent |-> a, interval |-> i, host |-> h]
    OBVIOUS
  <2>3. e \in EditState /\ e.host = h
    BY <2>2 DEF EditState
  <2> QED
    BY <1>1, <2>1, <2>2, <2>3, ReadsRowStep
<1>3. ASSUME NEW to \in Hosts, ReadForHost(d, to) PROVE RowsSound' /\ EditsSound' /\ LabelsInStep'
  <2>1. PICK e : e = [op |-> "host", to |-> to, host |-> h]
    OBVIOUS
  <2>2. e \in EditState /\ e.host = h
    BY <2>1 DEF EditState
  <2>3. ReadsRow(d, e)
    BY <1>1, <1>3, <2>1 DEF ReadForHost
  <2> QED
    BY <1>1, <2>2, <2>3, ReadsRowStep
<1>4. ASSUME NEW e \in EditState, e.op \in {"toggle", "server", "delete", "deleteAll"}, ReadsRow(d, e)
      PROVE  RowsSound' /\ EditsSound' /\ LabelsInStep'
  BY <1>4, ReadsRowStep
<1>5. ASSUME NEW s \in Shares, NEW on \in BOOLEAN, ReadForToggle(d, s, on) \/ ReadForDelete(d, s) \/ ReadForServer(d, on)
      PROVE  RowsSound' /\ EditsSound' /\ LabelsInStep'
  <2>1. PICK e : /\ ReadsRow(d, e)
                 /\ e \in {[op |-> "toggle", share |-> s, on |-> on], [op |-> "delete", share |-> s], [op |-> "server", on |-> on]}
    BY <1>5 DEF ReadForToggle, ReadForDelete, ReadForServer
  <2>2. e \in EditState /\ e.op \in {"toggle", "server", "delete", "deleteAll"}
    BY <2>1 DEF EditState
  <2> QED
    BY <1>4, <2>1, <2>2
<1>6. ASSUME ReadForDeleteAll(d) PROVE RowsSound' /\ EditsSound' /\ LabelsInStep'
  <2>1. PICK e : e = [op |-> "deleteAll", shares |-> SharesThere]
    OBVIOUS
  <2>2. e \in EditState /\ e.op = "deleteAll"
    BY <2>1 DEF EditState, SharesThere
  <2> QED
    BY <1>4, <1>6, <2>1, <2>2 DEF ReadForDeleteAll
<1>7. ASSUME NEW on \in BOOLEAN, ReadForServer(d, on) PROVE RowsSound' /\ EditsSound' /\ LabelsInStep'
  <2>1. PICK e : e = [op |-> "server", on |-> on]
    OBVIOUS
  <2>2. e \in EditState /\ e.op = "server"
    BY <2>1 DEF EditState
  <2> QED
    BY <1>4, <1>7, <2>1, <2>2 DEF ReadForServer
<1>8. ASSUME NEW s \in Shares, ReadForDelete(d, s) PROVE RowsSound' /\ EditsSound' /\ LabelsInStep'
  BY <1>5, <1>8
<1> QED
  BY <1>2, <1>3, <1>5, <1>6, <1>7, <1>8 DEF AdminReads

\* The kinds of rows a request may hold.
LEMMA EditFields ==
    ASSUME NEW e \in EditState
    PROVE  /\ e.op \in {"create", "share"} => /\ e.share \in Shares /\ e.folder \in ShareFolders /\ e.agent \in Collectors
                                              /\ e.interval \in Intervals /\ e.host \in Hosts
           /\ e.op = "host" => e.to \in Hosts /\ e.host \in Hosts
           /\ e.op = "toggle" => e.share \in Shares /\ e.on \in BOOLEAN
           /\ e.op = "server" => e.on \in BOOLEAN
           /\ e.op = "delete" => e.share \in Shares
BY DEF EditState

LEMMA RowType ==
    ASSUME NEW e \in EditState, e.op \in {"create", "share"}, NEW on \in BOOLEAN
    PROVE  Row(e, on) \in SourceRow /\ Row(e, on).label = e.host /\ Row(e, on).there
BY EditFields DEF Row, SourceRow

\* A request writes one row, under the label it has read, all labels together,
\* or none; a server is deleted with all its shares.
LEMMA WriteStep ==
    ASSUME SourcesIInv, NEW d \in Admins, edit[d] # NoEdit, AdminWrites(d)
    PROVE  RowsSound' /\ EditsSound' /\ LabelsInStep'
<1>1. PICK e \in EditState : e = edit[d]
  BY DEF SourcesIInv, RowsSound
<1>2. /\ edit' = [edit EXCEPT ![d] = NoEdit] /\ crossedEdits' = crossedEdits
      /\ server \in [there : BOOLEAN, enabled : BOOLEAN, host : Hosts]
      /\ source \in [Shares -> {Spec0} \cup SourceRow]
      /\ edit \in [Admins -> EditState] /\ crossedEdits \in BOOLEAN
  BY DEF AdminWrites, SourcesIInv, RowsSound
<1>3. EditsSound'
  <2>1. ~crossedEdits => \A c \in Admins : edit'[c] = NoEdit
    BY <1>2 DEF SourcesIInv, EditsSound
  <2>2. NoEdit.op = "none"
    BY DEF NoEdit
  <2> QED
    BY <1>2, <2>1, <2>2 DEF EditsSound
<1>4. ~crossedEdits /\ e.op \in {"create", "share", "host"} => e.host = server.host
  BY <1>1 DEF SourcesIInv, EditsSound
<1>5. edit' \in [Admins -> EditState]
  BY <1>2 DEF NoEdit, EditState
<1>6. /\ \A s \in Shares : source[s].there => source[s] \in SourceRow /\ server.there
      /\ ~crossedEdits => \A s \in Shares : source[s].there => source[s].label = server.host
      /\ Spec0.there = FALSE
  BY <1>2 DEF SourcesIInv, LabelsInStep, SharesThere, Spec0
\* What is to be shown of the rows.
<1> DEFINE Written == /\ server' \in [there : BOOLEAN, enabled : BOOLEAN, host : Hosts]
                      /\ source' \in [Shares -> {Spec0} \cup SourceRow]
                      /\ \A s \in Shares : source'[s].there =>
                            server'.there /\ (~crossedEdits => source'[s].label = server'.host)
<1>7. ASSUME UNCHANGED <<server, source>> PROVE Written
  BY <1>2, <1>6, <1>7
<1>8. ASSUME NEW k \in Shares, NEW made \in {Spec0} \cup SourceRow, source' = [source EXCEPT ![k] = made], server' = server,
             made.there => server.there /\ (~crossedEdits => made.label = server.host)
      PROVE  Written
  <2>1. source'[k] = made /\ \A s \in Shares \ {k} : source'[s] = source[s]
    BY <1>2, <1>8
  <2>2. source' \in [Shares -> {Spec0} \cup SourceRow]
    BY <1>2, <1>8
  <2> QED
    BY <1>2, <1>6, <1>8, <2>1, <2>2
<1>9. ASSUME e.op = "create" /\ WritesCreate(e) /\ ~UNCHANGED <<server, source>>
      PROVE  Written
  <2>1. source' = [source EXCEPT ![e.share] = Row(e, TRUE)] /\ server' = server /\ server.there
    BY <1>9 DEF WritesCreate
  <2>2. PICK made \in SourceRow : made = Row(e, TRUE) /\ made.label = e.host
    BY <1>9, RowType
  <2> QED
    BY <1>4, <1>8, <1>9, <2>1, <2>2, EditFields
<1>10. ASSUME e.op = "share" /\ WritesShare(e) /\ ~UNCHANGED <<server, source>>
      PROVE  Written
  <2>1. e.share \in Shares /\ source[e.share].there /\ server' = server
    BY <1>10, EditFields DEF WritesShare
  <2>2. PICK on \in BOOLEAN : on = source[e.share].enabled
    BY <1>6, <2>1 DEF SourceRow
  <2>3. PICK made \in SourceRow : made = Row(e, on) /\ made.label = e.host
    BY <1>10, RowType
  <2>4. source' = [source EXCEPT ![e.share] = made]
    BY <1>2, <1>10, <2>1, <2>2, <2>3 DEF WritesShare
  <2> QED
    BY <1>4, <1>6, <1>8, <1>10, <2>1, <2>3, <2>4
<1>11. ASSUME e.op = "toggle" /\ WritesToggle(e) /\ ~UNCHANGED <<server, source>>
      PROVE  Written
  <2>1. e.share \in Shares /\ source[e.share].there /\ server' = server /\ e.on \in BOOLEAN
    BY <1>11, EditFields DEF WritesToggle
  <2>2. PICK made : made = [source[e.share] EXCEPT !.enabled = e.on]
    OBVIOUS
  <2>3. made \in SourceRow /\ made.label = source[e.share].label
    BY <1>6, <2>1, <2>2 DEF SourceRow
  <2>4. source' = [source EXCEPT ![e.share] = made]
    BY <1>2, <1>11, <2>1, <2>2 DEF WritesToggle
  <2> QED
    BY <1>6, <1>8, <2>1, <2>3, <2>4
<1>12. ASSUME e.op = "delete" /\ WritesDelete(e)
      PROVE  Written
  <2>1. source' = [source EXCEPT ![e.share] = Spec0] /\ server' = server /\ e.share \in Shares
    BY <1>12, EditFields DEF WritesDelete
  <2> QED
    BY <1>6, <1>8, <2>1
<1>13. ASSUME e.op = "server" /\ WritesServer(e) /\ ~UNCHANGED <<server, source>>
      PROVE  Written
  <2>1. server' = [server EXCEPT !.enabled = e.on] /\ source' = source /\ e.on \in BOOLEAN
    BY <1>13, EditFields DEF WritesServer
  <2>2. server' \in [there : BOOLEAN, enabled : BOOLEAN, host : Hosts] /\ server'.there = server.there /\ server'.host = server.host
    BY <1>2, <2>1
  <2> QED
    BY <1>2, <1>6, <2>1, <2>2
<1>14. ASSUME e.op = "deleteAll" /\ WritesDeleteAll(e) /\ ~UNCHANGED <<server, source>>
      PROVE  Written
  <2>1. source' = [s \in Shares |-> Spec0] /\ server' = [server EXCEPT !.there = FALSE]
    BY <1>14 DEF WritesDeleteAll
  <2> QED
    BY <1>2, <1>6, <2>1
<1>15. ASSUME e.op = "host" /\ WritesHost(e) /\ ~UNCHANGED <<server, source>>
      PROVE  Written
  <2>1. /\ server' = [server EXCEPT !.host = e.to] /\ server.there /\ e.to \in Hosts
        /\ source' = IF Relabels(e) THEN Relabelled(e.to) ELSE source
    BY <1>15, EditFields DEF WritesHost
  <2>2. server' \in [there : BOOLEAN, enabled : BOOLEAN, host : Hosts] /\ server'.there /\ server'.host = e.to
    BY <1>2, <2>1
  <2>3. CASE Relabels(e)
    <3>1. \A s \in Shares : source'[s] = IF source[s].there THEN [source[s] EXCEPT !.label = e.to] ELSE source[s]
      BY <2>1, <2>3 DEF Relabelled
    <3>2. ASSUME NEW s \in Shares
          PROVE  source'[s] \in {Spec0} \cup SourceRow /\ (source'[s].there => source'[s].label = e.to)
      <4>1. CASE source[s].there
        <5>1. PICK made : made = [source[s] EXCEPT !.label = e.to]
          OBVIOUS
        <5>2. made \in SourceRow /\ made.label = e.to
          BY <1>6, <2>1, <4>1, <5>1 DEF SourceRow
        <5> QED
          BY <3>1, <4>1, <5>1, <5>2
      <4>2. CASE ~source[s].there
        BY <1>2, <3>1, <4>2
      <4> QED
        BY <4>1, <4>2
    <3>3. DOMAIN source' = Shares
      BY <2>1, <2>3 DEF Relabelled
    <3>4. source' \in [Shares -> {Spec0} \cup SourceRow]
      <4>1. source' = [s \in Shares |-> source'[s]]
        BY <2>1, <2>3 DEF Relabelled
      <4> HIDE DEF Written
      <4> QED
        BY <3>2, <4>1
    <3> QED
      BY <2>2, <3>2, <3>4
  <2>4. CASE ~Relabels(e)
    <3>1. source' = source /\ e.to = e.host
      BY <2>1, <2>4 DEF Relabels
    <3> QED
      BY <1>2, <1>4, <1>6, <1>15, <2>2, <3>1
  <2> QED
    BY <2>3, <2>4
<1>16. Written => RowsSound' /\ LabelsInStep'
  BY <1>2, <1>5 DEF RowsSound, LabelsInStep, SharesThere
<1>17. \/ e.op = "create" /\ WritesCreate(e)
       \/ e.op = "host" /\ WritesHost(e)
       \/ e.op = "share" /\ WritesShare(e)
       \/ e.op = "toggle" /\ WritesToggle(e)
       \/ e.op = "server" /\ WritesServer(e)
       \/ e.op = "delete" /\ WritesDelete(e)
       \/ e.op = "deleteAll" /\ WritesDeleteAll(e)
  BY <1>1 DEF AdminWrites
<1> HIDE DEF Written
<1> QED
  BY <1>3, <1>7, <1>9, <1>10, <1>11, <1>12, <1>13, <1>14, <1>15, <1>16, <1>17

-----------------------------------------------------------------------------
\* Answers under way.
LEMMA RemovedAt ==
    ASSUME NEW S, NEW q \in Seq(S), NEW i \in DOMAIN q
    PROVE  RemoveAt(q, i) \in Seq(S)
BY DEF RemoveAt

LEMMA AnswerType == ASSUME SourcesIInv, NEW a \in Collectors PROVE AnswerFor(a) \in Answers
<1>1. AssignedTo(a) \in SUBSET Shares
  BY DEF AssignedTo
<1>2. ASSUME NEW s \in AssignedTo(a) PROVE [key |-> KeyOf(s), interval |-> source[s].interval] \in Answer
  <2>1. source[s] \in SourceRow /\ server.host \in Hosts
    BY <1>2 DEF SourcesIInv, RowsSound, AssignedTo, Assigned, Spec0
  <2> QED
    BY <2>1 DEF Answer, Keys, KeyOf, SourceRow
<1>3. AnswerFor(a) \in [AssignedTo(a) -> Answer]
  BY <1>2 DEF AnswerFor
<1> QED
  BY <1>1, <1>3 DEF Answers

LEMMA AnswerFields ==
    ASSUME NEW ans \in Answers
    PROVE  /\ DOMAIN ans \subseteq Shares
           /\ \A s \in DOMAIN ans : ans[s] \in Answer /\ ans[s].key \in Keys /\ ans[s].interval \in Intervals
<1>1. PICK D \in SUBSET Shares : ans \in [D -> Answer]
  BY DEF Answers
<1> QED
  BY <1>1 DEF Answer

LEMMA AnswersStep ==
    ASSUME SourcesIInv, NEW a \in Collectors,
           AsksSync(a) \/ \E i \in DOMAIN answers[a] : SyncLost(a, i) \/ Apply(a, i)
    PROVE  answers' \in [Collectors -> Seq(Answers)]
<1>1. answers[a] \in Seq(Answers)
  BY DEF SourcesIInv
<1>2. PICK q \in Seq(Answers) : answers' = [answers EXCEPT ![a] = q]
  <2>1. CASE AsksSync(a)
    <3>1. Append(answers[a], AnswerFor(a)) \in Seq(Answers)
      BY <1>1, AnswerType
    <3> QED
      BY <2>1, <3>1 DEF AsksSync
  <2>2. CASE \E i \in DOMAIN answers[a] : SyncLost(a, i) \/ Apply(a, i)
    <3>1. PICK i \in DOMAIN answers[a] : answers' = [answers EXCEPT ![a] = RemoveAt(@, i)]
      BY <2>2 DEF SyncLost, Apply
    <3> QED
      BY <1>1, <3>1, RemovedAt
  <2> QED
    BY <2>1, <2>2
<1> QED
  BY <1>2 DEF SourcesIInv

-----------------------------------------------------------------------------
\* The loops and the limiter.  A step that leaves an agent's loops in line and at
\* work, and adds only such that have not asked, leaves its limiter sound.
LEMMA LimiterKept ==
    ASSUME NEW a, LimiterOf(a), waiting'[a] = waiting[a], active'[a] = active[a],
           DOMAIN loops \subseteq DOMAIN loops',
           \A l \in DOMAIN loops' : loops'[l].agent = a =>
              IF l \in DOMAIN loops
              THEN /\ loops[l].agent = a
                   /\ (loops'[l].at = "waits" <=> loops[l].at = "waits")
                   /\ (loops'[l].at \in {"walks", "posts"} <=> loops[l].at \in {"walks", "posts"})
              ELSE loops'[l].at = "asks",
           \A l \in DOMAIN loops : loops[l].agent = a => loops'[l].agent = a
    PROVE  LimiterOf(a)'
<1>1. WalksOf(a)' = WalksOf(a)
  BY DEF WalksOf
<1> QED
  BY <1>1 DEF LimiterOf

\* A step of one loop moves no pointer.
LEMMA LoopsKept ==
    ASSUME LoopsSound, OneLiveLoop, running' = running, DOMAIN loops' = DOMAIN loops, loops' \in Seq(Loop),
           \A l \in DOMAIN loops : /\ loops'[l].agent = loops[l].agent /\ loops'[l].share = loops[l].share
                                   /\ loops'[l].stopped = loops[l].stopped
    PROVE  LoopsSound' /\ OneLiveLoop'
<1>1. LoopsSound'
  BY DEF LoopsSound
<1>2. OneLiveLoop'
  BY DEF OneLiveLoop
<1> QED
  BY <1>1, <1>2

LEMMA LoopPlaced ==
    ASSUME LoopsSound, NEW f, f \in [DOMAIN loops -> Loop]
    PROVE  f \in Seq(Loop)
<1>1. Len(loops) \in Nat /\ DOMAIN loops = 1..Len(loops)
  BY DEF LoopsSound
<1> QED
  BY <1>1, SeqDef

LEMMA LoopFields ==
    ASSUME LoopsSound, NEW l \in DOMAIN loops
    PROVE  /\ loops[l] \in Loop /\ loops[l].agent \in Collectors /\ loops[l].share \in Shares
           /\ \A where \in {"asks", "waits", "walks", "posts", "sleeps", "ended"} :
                 [loops[l] EXCEPT !.at = where] \in Loop
<1>1. PICK made \in Loop : made = loops[l]
  BY DEF LoopsSound
<1>2. made.agent \in Collectors /\ made.share \in Shares
  BY DEF Loop
<1>3. ASSUME NEW where \in {"asks", "waits", "walks", "posts", "sleeps", "ended"}
      PROVE  [made EXCEPT !.at = where] \in Loop
  BY DEF Loop
<1> QED
  BY <1>1, <1>2, <1>3

LEMMA MovedLoop ==
    ASSUME LoopsSound, NEW l \in DOMAIN loops, NEW where \in {"asks", "waits", "walks", "posts", "sleeps", "ended"},
           LoopAt(l, where)
    PROVE  /\ loops' \in Seq(Loop) /\ DOMAIN loops' = DOMAIN loops
           /\ loops'[l].at = where
           /\ \A k \in DOMAIN loops : /\ loops'[k].agent = loops[k].agent /\ loops'[k].share = loops[k].share
                                      /\ loops'[k].stopped = loops[k].stopped
                                      /\ k # l => loops'[k].at = loops[k].at
<1>1. PICK made \in Loop : made = [loops[l] EXCEPT !.at = where] /\ made.at = where /\ made.agent = loops[l].agent
                          /\ made.share = loops[l].share /\ made.stopped = loops[l].stopped
  <2>1. PICK old \in Loop : old = loops[l]
    BY LoopFields
  <2>2. [old EXCEPT !.at = where].at = where /\ [old EXCEPT !.at = where].agent = old.agent
        /\ [old EXCEPT !.at = where].share = old.share /\ [old EXCEPT !.at = where].stopped = old.stopped
    BY DEF Loop
  <2> QED
    BY <2>1, <2>2, LoopFields
<1>2. loops \in [DOMAIN loops -> Loop]
  BY DEF LoopsSound
<1>3. loops' = [loops EXCEPT ![l] = made]
  BY <1>1, <1>2 DEF LoopAt
<1>4. loops' \in [DOMAIN loops -> Loop] /\ loops'[l] = made /\ \A k \in DOMAIN loops \ {l} : loops'[k] = loops[k]
  BY <1>2, <1>3
<1> QED
  BY <1>1, <1>4, LoopPlaced

LEMMA WalksFinite == ASSUME LoopsSound, NEW a PROVE IsFiniteSet(WalksOf(a))
<1>1. Len(loops) \in Nat /\ DOMAIN loops = 1..Len(loops)
  BY DEF LoopsSound
<1>2. IsFiniteSet(DOMAIN loops)
  BY <1>1, FS_Interval
<1>3. WalksOf(a) \subseteq DOMAIN loops
  BY DEF WalksOf
<1> QED
  BY <1>2, <1>3, FS_Subset

\* A loop takes the slot that is free, or the last place in line.
LEMMA AsksStep ==
    ASSUME SourcesIInv, NEW l \in DOMAIN loops, AsksForTurn(l)
    PROVE  /\ LoopsSound' /\ OneLiveLoop' /\ LimiterSound'
           /\ waiting' \in [Collectors -> Seq(Nat)] /\ active' \in [Collectors -> Nat]
<1> USE DEF SourcesIInv
<1>1. PICK a \in Collectors : a = loops[l].agent
  BY LoopFields
<1>2. /\ loops[l].at = "asks" /\ running' = running
      /\ \/ /\ HasRoom(a) /\ active' = [active EXCEPT ![a] = @ + 1] /\ waiting' = waiting /\ LoopAt(l, "walks")
         \/ /\ ~HasRoom(a) /\ waiting' = [waiting EXCEPT ![a] = Append(@, l)] /\ active' = active /\ LoopAt(l, "waits")
  BY <1>1 DEF AsksForTurn, LoopOnly
<1>3. /\ loops' \in Seq(Loop) /\ DOMAIN loops' = DOMAIN loops
      /\ \A k \in DOMAIN loops : /\ loops'[k].agent = loops[k].agent /\ loops'[k].share = loops[k].share
                                 /\ loops'[k].stopped = loops[k].stopped
                                 /\ k # l => loops'[k].at = loops[k].at
  BY <1>2, MovedLoop
<1>4. LoopsSound' /\ OneLiveLoop'
  BY <1>2, <1>3, LoopsKept
<1>5. DOMAIN loops = 1..Len(loops) /\ Len(loops) \in Nat /\ l \in Nat
  BY DEF LoopsSound
<1>6. LimiterOf(a) /\ waiting[a] \in Seq(Nat) /\ active[a] \in Nat /\ MaxScans \in Nat
  BY SourcesAssumption DEF LimiterSound
<1>7. waiting' \in [Collectors -> Seq(Nat)] /\ active' \in [Collectors -> Nat]
  <2>1. active[a] + 1 \in Nat /\ Append(waiting[a], l) \in Seq(Nat)
    BY <1>5, <1>6
  <2>2. /\ active' \in {active, [active EXCEPT ![a] = active[a] + 1]}
        /\ waiting' \in {waiting, [waiting EXCEPT ![a] = Append(waiting[a], l)]}
    BY <1>2
  <2>3. /\ [active EXCEPT ![a] = active[a] + 1] \in [Collectors -> Nat]
        /\ [waiting EXCEPT ![a] = Append(waiting[a], l)] \in [Collectors -> Seq(Nat)]
    BY <2>1
  <2> QED
    BY <2>2, <2>3
<1>8. ASSUME NEW c \in Collectors, c # a PROVE LimiterOf(c)'
  <2>1. waiting'[c] = waiting[c] /\ active'[c] = active[c] /\ LimiterOf(c)
    BY <1>2, <1>8 DEF LimiterSound
  <2>2. \A k \in DOMAIN loops : loops[k].agent = c => k # l
    BY <1>1, <1>8
  <2> QED
    BY ONLY <1>3, <2>1, <2>2, LimiterKept
<1>9. LimiterOf(a)'
  <2>1. CASE HasRoom(a)
    <3>1. /\ active' = [active EXCEPT ![a] = @ + 1] /\ waiting' = waiting /\ loops'[l].at = "walks"
      BY <1>2, <2>1, MovedLoop
    <3>2. active[a] < MaxScans /\ waiting[a] = <<>>
      BY <1>6, <2>1 DEF HasRoom, LimiterOf
    <3>3. WalksOf(a)' = WalksOf(a) \cup {l} /\ l \notin WalksOf(a)
      BY <1>1, <1>2, <1>3, <3>1 DEF WalksOf
    <3>4. Cardinality(WalksOf(a)') = Cardinality(WalksOf(a)) + 1
      BY <3>3, WalksFinite, FS_AddElement
    <3>5. active'[a] = Cardinality(WalksOf(a)') /\ active'[a] \in 0..MaxScans
      BY <1>6, <3>1, <3>2, <3>4 DEF LimiterOf
    <3>6. waiting'[a] = <<>> /\ DOMAIN waiting'[a] = {}
      BY <3>1, <3>2
    <3>7. \A k \in DOMAIN loops : ~(loops[k].agent = a /\ loops[k].at = "waits")
      BY <1>6, <3>2 DEF LimiterOf
    <3>8. \A k \in DOMAIN loops' : ~(loops'[k].agent = a /\ loops'[k].at = "waits")
      BY <1>3, <3>1, <3>7
    <3> QED
      BY <3>5, <3>6, <3>8 DEF LimiterOf
  <2>2. CASE ~HasRoom(a)
    <3>1. waiting'[a] = Append(waiting[a], l) /\ active'[a] = active[a] /\ loops'[l].at = "waits"
      BY <1>2, <2>2, MovedLoop
    <3>2. active[a] = MaxScans
      BY <1>6, <2>2 DEF HasRoom, LimiterOf
    <3>3. WalksOf(a)' = WalksOf(a)
      BY <1>2, <1>3, <3>1 DEF WalksOf
    <3>w. PICK w \in Seq(Nat) : w = waiting[a]
      BY <1>6
    <3>4. PICK q : w = waiting[a] /\ q = waiting'[a] /\ q = Append(w, l)
      BY <3>1, <3>w
    <3>5. PICK n \in Nat : n = Len(w)
      BY <3>4
    <3>6. /\ q \in Seq(Nat) /\ DOMAIN q = 1..(n + 1) /\ DOMAIN w = 1..n
          /\ q[n + 1] = l /\ \A i \in 1..n : q[i] = w[i]
      BY <1>5, <3>4, <3>5
    <3>7. /\ \A i \in 1..n : w[i] \in DOMAIN loops /\ loops[w[i]].agent = a /\ loops[w[i]].at = "waits"
          /\ \A i, j \in 1..n : w[i] = w[j] => i = j
          /\ \A k \in DOMAIN loops : loops[k].agent = a /\ loops[k].at = "waits" => \E i \in 1..n : w[i] = k
      BY <1>6, <3>4, <3>6 DEF LimiterOf
    <3>8. \A i \in DOMAIN q : (i \in 1..n /\ w[i] # l /\ q[i] = w[i]) \/ (i = n + 1 /\ q[i] = l)
      BY <1>2, <3>5, <3>6, <3>7
    <3>9. /\ \A i \in DOMAIN q : q[i] \in DOMAIN loops' /\ loops'[q[i]].agent = a /\ loops'[q[i]].at = "waits"
          /\ \A i, j \in DOMAIN q : q[i] = q[j] => i = j
          /\ \A k \in DOMAIN loops' : loops'[k].agent = a /\ loops'[k].at = "waits" => \E i \in DOMAIN q : q[i] = k
      <4>1. \A i \in DOMAIN q : q[i] \in DOMAIN loops' /\ loops'[q[i]].agent = a /\ loops'[q[i]].at = "waits"
        <5> SUFFICES ASSUME NEW i \in DOMAIN q PROVE q[i] \in DOMAIN loops' /\ loops'[q[i]].agent = a /\ loops'[q[i]].at = "waits"
          OBVIOUS
        <5>1. CASE i \in 1..n /\ w[i] # l /\ q[i] = w[i]
          <6>1. PICK k \in DOMAIN loops : k = q[i] /\ k # l /\ loops[k].agent = a /\ loops[k].at = "waits"
            BY <3>7, <5>1
          <6> QED
            BY <1>3, <6>1
        <5>2. CASE q[i] = l
          BY <1>1, <1>3, <3>1, <5>2
        <5> QED
          BY <3>8, <5>1, <5>2
      <4>2. \A i, j \in DOMAIN q : q[i] = q[j] => i = j
        <5> SUFFICES ASSUME NEW i \in DOMAIN q, NEW j \in DOMAIN q, q[i] = q[j] PROVE i = j
          OBVIOUS
        <5>1. CASE i \in 1..n /\ j \in 1..n
          BY ONLY <3>6, <3>7, <5>1, q[i] = q[j]
        <5>2. CASE i = n + 1 \/ j = n + 1
          BY <3>6, <3>8, <5>2
        <5> QED
          BY <3>8, <5>1, <5>2
      <4>3. ASSUME NEW k \in DOMAIN loops', loops'[k].agent = a, loops'[k].at = "waits" PROVE \E i \in DOMAIN q : q[i] = k
        <5>1. CASE k = l
          <6>1. n + 1 \in DOMAIN q /\ q[n + 1] = k
            BY <3>6, <5>1
          <6> QED
            BY <6>1
        <5>2. CASE k # l
          <6>1. PICK i \in 1..n : w[i] = k
            BY <1>3, <3>7, <4>3, <5>2
          <6>2. i \in DOMAIN q /\ q[i] = k
            BY <3>5, <3>6, <6>1
          <6> QED
            BY <6>2
        <5> QED
          BY <5>1, <5>2
      <4> QED
        BY <4>1, <4>2, <4>3
    <3>10. active'[a] = Cardinality(WalksOf(a)') /\ active'[a] \in 0..MaxScans /\ active'[a] = MaxScans
      BY <1>6, <3>1, <3>2, <3>3 DEF LimiterOf
    <3> QED
      BY <3>4, <3>6, <3>9, <3>10 DEF LimiterOf
  <2> QED
    BY <2>1, <2>2
<1>10. LimiterSound'
  BY <1>8, <1>9 DEF LimiterSound
<1> QED
  BY <1>4, <1>7, <1>10

\* A slot given back is the next one's, or free.
LEMMA GivesStep ==
    ASSUME SourcesIInv, NEW l \in DOMAIN loops, loops[l].at \in {"walks", "posts"}, GivesTurn(l), running' = running
    PROVE  /\ LoopsSound' /\ OneLiveLoop' /\ LimiterSound'
           /\ waiting' \in [Collectors -> Seq(Nat)] /\ active' \in [Collectors -> Nat]
<1> USE DEF SourcesIInv
<1>1. PICK a \in Collectors : a = loops[l].agent
  BY LoopFields
<1>2. /\ active' = [active EXCEPT ![a] = CountAfter(a)]
      /\ waiting' = [waiting EXCEPT ![a] = IF @ = <<>> THEN @ ELSE Tail(@)]
      /\ loops' = [k \in DOMAIN loops |->
            IF k = l THEN [loops[k] EXCEPT !.at = EndsOrSleeps(l)]
            ELSE IF waiting[a] # <<>> /\ k = Head(waiting[a]) THEN [loops[k] EXCEPT !.at = "walks"]
            ELSE loops[k]]
  BY <1>1 DEF GivesTurn
<1>3. PICK done \in {"ended", "sleeps"} : done = EndsOrSleeps(l)
  BY DEF EndsOrSleeps
<1>4. ASSUME NEW k \in DOMAIN loops
      PROVE  /\ loops'[k] \in Loop /\ loops'[k].agent = loops[k].agent /\ loops'[k].share = loops[k].share
             /\ loops'[k].stopped = loops[k].stopped
             /\ loops'[k].at = IF k = l THEN done
                               ELSE IF waiting[a] # <<>> /\ k = Head(waiting[a]) THEN "walks" ELSE loops[k].at
  <2>1. PICK old \in Loop : old = loops[k]
    BY LoopFields
  <2>2. ASSUME NEW where \in {"ended", "sleeps", "walks"}
        PROVE  LET new == [old EXCEPT !.at = where] IN
               new \in Loop /\ new.agent = old.agent /\ new.share = old.share /\ new.stopped = old.stopped /\ new.at = where
    BY DEF Loop
  <2>3. loops'[k] = IF k = l THEN [old EXCEPT !.at = done]
                    ELSE IF waiting[a] # <<>> /\ k = Head(waiting[a]) THEN [old EXCEPT !.at = "walks"] ELSE old
    BY <1>2, <1>3, <2>1
  <2>4. PICK made : made = loops'[k]
    OBVIOUS
  <2>5. CASE k = l
    <3>1. done \in {"ended", "sleeps", "walks"} /\ made = [old EXCEPT !.at = done]
      BY <2>3, <2>4, <2>5
    <3>2. made \in Loop /\ made.agent = old.agent /\ made.share = old.share /\ made.stopped = old.stopped /\ made.at = done
      BY ONLY <2>2, <3>1
    <3> QED
      BY <2>1, <2>4, <2>5, <3>2
  <2>6. CASE k # l /\ waiting[a] # <<>> /\ k = Head(waiting[a])
    BY ONLY <2>1, <2>2, <2>3, <2>4, <2>6
  <2>7. CASE k # l /\ ~(waiting[a] # <<>> /\ k = Head(waiting[a]))
    BY ONLY <2>1, <2>3, <2>4, <2>7
  <2> QED
    BY <2>5, <2>6, <2>7
<1>5. DOMAIN loops' = DOMAIN loops /\ loops' \in Seq(Loop)
  <2>1. DOMAIN loops' = DOMAIN loops /\ loops' = [k \in DOMAIN loops |-> loops'[k]]
    BY <1>2
  <2> QED
    BY <1>4, <2>1, LoopPlaced
<1>6. LoopsSound' /\ OneLiveLoop'
  BY <1>4, <1>5, LoopsKept
<1>7. LimiterOf(a) /\ waiting[a] \in Seq(Nat) /\ active[a] \in Nat /\ MaxScans \in Nat
  BY SourcesAssumption DEF LimiterSound
<1>8. IsFiniteSet(WalksOf(a)) /\ l \in WalksOf(a)
  BY <1>1, WalksFinite DEF WalksOf
<1>9. Cardinality(WalksOf(a) \ {l}) = Cardinality(WalksOf(a)) - 1 /\ Cardinality(WalksOf(a)) \in Nat
      /\ Cardinality(WalksOf(a) \ {l}) \in Nat
  BY <1>8, FS_RemoveElement, FS_CardinalityType
<1>10. waiting' \in [Collectors -> Seq(Nat)] /\ active' \in [Collectors -> Nat]
  <2>1. CountAfter(a) \in Nat
    BY <1>7, <1>9 DEF CountAfter, LimiterOf
  <2>2. (IF waiting[a] = <<>> THEN waiting[a] ELSE Tail(waiting[a])) \in Seq(Nat)
    BY <1>7
  <2> QED
    BY <1>2, <2>1, <2>2
<1>11. ASSUME NEW c \in Collectors, c # a PROVE LimiterOf(c)'
  <2>1. waiting'[c] = waiting[c] /\ active'[c] = active[c] /\ LimiterOf(c)
    BY <1>2, <1>11 DEF LimiterSound
  <2>2. waiting[a] # <<>> => Head(waiting[a]) \in DOMAIN loops /\ loops[Head(waiting[a])].agent = a
    BY <1>7 DEF LimiterOf
  <2>3. \A k \in DOMAIN loops : loops[k].agent = c => loops'[k].at = loops[k].at
    BY <1>1, <1>4, <1>11, <2>2
  <2> QED
    BY ONLY <1>4, <1>5, <2>1, <2>3, LimiterKept
<1>12. LimiterOf(a)'
  <2>1. CASE waiting[a] = <<>>
    <3>1. active'[a] = active[a] - 1 /\ waiting'[a] = <<>> /\ DOMAIN waiting'[a] = {}
      BY <1>2, <2>1 DEF CountAfter
    <3>2. \A k \in DOMAIN loops' : loops'[k].agent = loops[k].agent /\ (k # l => loops'[k].at = loops[k].at)
                                   /\ (k = l => loops'[k].at = done)
      BY <1>4, <1>5, <2>1
    <3>3. WalksOf(a)' = WalksOf(a) \ {l}
      BY <1>5, <3>2 DEF WalksOf
    <3>4. active'[a] = Cardinality(WalksOf(a)') /\ active'[a] \in 0..MaxScans
      BY <1>7, <1>9, <3>1, <3>3 DEF LimiterOf
    <3>5. \A k \in DOMAIN loops : ~(loops[k].agent = a /\ loops[k].at = "waits")
      BY <1>7, <2>1 DEF LimiterOf
    <3>6. \A k \in DOMAIN loops' : ~(loops'[k].agent = a /\ loops'[k].at = "waits")
      BY <1>5, <3>2, <3>5
    <3> QED
      BY <3>1, <3>4, <3>6 DEF LimiterOf
  <2>2. CASE waiting[a] # <<>>
    <3>w. PICK w \in Seq(Nat) : w = waiting[a] /\ w # <<>>
      BY <1>7, <2>2
    <3>n. PICK n \in Nat \ {0} : n = Len(w) /\ DOMAIN w = 1..n
      BY <3>w
    <3>1. PICK q : q = waiting'[a] /\ q = Tail(w) /\ w = waiting[a] /\ n = Len(w) /\ DOMAIN w = 1..n
      BY <1>2, <1>7, <2>2, <3>w, <3>n
    <3>2. PICK h : h = Head(waiting[a]) /\ h = w[1] /\ 1 \in 1..n
      BY <3>1, <3>n, <3>w
    <3>9. /\ \A i \in 1..n : w[i] \in DOMAIN loops /\ loops[w[i]].agent = a /\ loops[w[i]].at = "waits"
          /\ \A i, j \in 1..n : w[i] = w[j] => i = j
          /\ \A k \in DOMAIN loops : loops[k].agent = a /\ loops[k].at = "waits" => \E i \in 1..n : w[i] = k
      BY <1>7, <3>1 DEF LimiterOf
    <3>3. h \in DOMAIN loops /\ loops[h].agent = a /\ loops[h].at = "waits" /\ h # l
      <4>1. PICK k : k = w[1] /\ k = h
        BY <3>2
      <4>2. k \in DOMAIN loops /\ loops[k].agent = a /\ loops[k].at = "waits"
        BY ONLY <3>2, <3>9, <4>1
      <4> QED
        BY <4>1, <4>2
    <3>4. active'[a] = active[a] /\ active[a] = MaxScans
      BY <1>2, <1>7, <2>2 DEF CountAfter, LimiterOf
    <3>5. \A k \in DOMAIN loops' : /\ k \in DOMAIN loops /\ loops'[k].agent = loops[k].agent
                                   /\ loops'[k].at = IF k = l THEN done ELSE IF k = h THEN "walks" ELSE loops[k].at
      BY <1>4, <1>5, <2>2, <3>2
    <3>6. WalksOf(a)' = (WalksOf(a) \ {l}) \cup {h} /\ h \notin WalksOf(a) \ {l}
      BY <1>5, <3>3, <3>5 DEF WalksOf
    <3>7. Cardinality(WalksOf(a)') = Cardinality(WalksOf(a))
      <4>1. IsFiniteSet(WalksOf(a) \ {l})
        BY <1>8, FS_Subset
      <4>2. Cardinality((WalksOf(a) \ {l}) \cup {h}) = Cardinality(WalksOf(a) \ {l}) + 1
        BY <3>6, <4>1, FS_AddElement
      <4> QED
        BY <1>9, <3>6, <4>2
    <3>8. q \in Seq(Nat) /\ DOMAIN q = 1..(n - 1) /\ \A i \in 1..(n - 1) : q[i] = w[i + 1] /\ i + 1 \in 1..n /\ i + 1 # 1
      BY <3>1, <3>n, <3>w
    <3>10. ASSUME NEW i \in DOMAIN q
           PROVE  q[i] \in DOMAIN loops' /\ loops'[q[i]].agent = a /\ loops'[q[i]].at = "waits"
      <4>1. PICK k : k = w[i + 1] /\ k = q[i]
        BY <3>8
      <4>2. i + 1 \in 1..n /\ i + 1 # 1
        BY <3>8
      <4>3. k \in DOMAIN loops /\ loops[k].agent = a /\ loops[k].at = "waits" /\ k # h /\ k # l
        <5>1. PICK m \in 1..n : m = i + 1 /\ m # 1 /\ k = w[m]
          BY <4>1, <4>2
        <5>2. k \in DOMAIN loops /\ loops[k].agent = a /\ loops[k].at = "waits"
          BY ONLY <3>9, <5>1
        <5>3. k # h
          BY ONLY <3>2, <3>9, <5>1
        <5> QED
          BY <5>2, <5>3
      <4> QED
        BY <1>5, <3>5, <4>1, <4>3
    <3>11. \A i, j \in DOMAIN q : q[i] = q[j] => i = j
      <4> SUFFICES ASSUME NEW i \in DOMAIN q, NEW j \in DOMAIN q, q[i] = q[j] PROVE i = j
        OBVIOUS
      <4>1. i + 1 \in 1..n /\ j + 1 \in 1..n /\ w[i + 1] = w[j + 1] /\ i \in Int /\ j \in Int
        <5>1. i \in 1..(n - 1) /\ j \in 1..(n - 1)
          BY <3>8
        <5>2. i + 1 \in 1..n /\ q[i] = w[i + 1] /\ i \in Int
          BY ONLY <3>8, <5>1
        <5>3. j + 1 \in 1..n /\ q[j] = w[j + 1] /\ j \in Int
          BY ONLY <3>8, <5>1
        <5> QED
          BY ONLY <5>2, <5>3, q[i] = q[j]
      <4>2. i + 1 = j + 1
        BY <3>9, <4>1
      <4> QED
        BY <4>1, <4>2
    <3>12. ASSUME NEW k \in DOMAIN loops', loops'[k].agent = a, loops'[k].at = "waits"
           PROVE  \E i \in DOMAIN q : q[i] = k
      <4>1. k # l /\ k # h /\ k \in DOMAIN loops /\ loops[k].agent = a /\ loops[k].at = "waits"
        BY <1>3, <3>5, <3>12
      <4>2. PICK i \in 1..n : w[i] = k
        BY <3>9, <4>1
      <4>3. i # 1
        BY <3>2, <4>1, <4>2
      <4>4. i - 1 \in 1..(n - 1) /\ (i - 1) + 1 = i
        BY <4>3
      <4> QED
        BY <3>8, <4>2, <4>4
    <3>13. active'[a] = Cardinality(WalksOf(a)') /\ active'[a] \in 0..MaxScans /\ active'[a] = MaxScans
      BY <1>7, <3>4, <3>7 DEF LimiterOf
    <3> QED
      BY <3>1, <3>8, <3>10, <3>11, <3>12, <3>13 DEF LimiterOf
  <2> QED
    BY <2>1, <2>2
<1>13. LimiterSound'
  BY <1>11, <1>12 DEF LimiterSound
<1> QED
  BY <1>6, <1>10, <1>13

\* A loop that only goes on keeps its place, or has none.
LEMMA MovesStep ==
    ASSUME SourcesIInv, NEW l \in DOMAIN loops, WalkReports(l) \/ TimerFires(l)
    PROVE  /\ LoopsSound' /\ OneLiveLoop' /\ LimiterSound'
           /\ waiting' \in [Collectors -> Seq(Nat)] /\ active' \in [Collectors -> Nat]
<1> USE DEF SourcesIInv
<1>1. PICK where \in {"posts", "asks"} :
         LoopAt(l, where) /\ loops[l].at = IF where = "posts" THEN "walks" ELSE "sleeps"
  BY DEF WalkReports, TimerFires
<1>2. waiting' = waiting /\ active' = active /\ running' = running
  BY DEF WalkReports, TimerFires, LoopOnly
<1>3. /\ loops' \in Seq(Loop) /\ DOMAIN loops' = DOMAIN loops /\ loops'[l].at = where
      /\ \A k \in DOMAIN loops : /\ loops'[k].agent = loops[k].agent /\ loops'[k].share = loops[k].share
                                 /\ loops'[k].stopped = loops[k].stopped
                                 /\ k # l => loops'[k].at = loops[k].at
  BY <1>1, MovedLoop
<1>4. LoopsSound' /\ OneLiveLoop'
  BY <1>2, <1>3, LoopsKept
<1>5. ASSUME NEW c \in Collectors PROVE LimiterOf(c)'
  <2>1. waiting'[c] = waiting[c] /\ active'[c] = active[c] /\ LimiterOf(c)
    BY <1>2 DEF LimiterSound
  <2>2. \A k \in DOMAIN loops : /\ (loops'[k].at = "waits" <=> loops[k].at = "waits")
                                /\ (loops'[k].at \in {"walks", "posts"} <=> loops[k].at \in {"walks", "posts"})
    BY <1>1, <1>3
  <2> QED
    BY ONLY <1>3, <2>1, <2>2, LimiterKept
<1> QED
  BY <1>2, <1>4, <1>5 DEF LimiterSound

LEMMA LoopStepSound ==
    ASSUME SourcesIInv, NEW l \in DOMAIN loops, LoopStep(l)
    PROVE  /\ LoopsSound' /\ OneLiveLoop' /\ LimiterSound'
           /\ waiting' \in [Collectors -> Seq(Nat)] /\ active' \in [Collectors -> Nat]
<1>1. CASE AsksForTurn(l)
  BY <1>1, AsksStep
<1>2. CASE WalkFails(l) \/ ScanCompletes(l)
  <2>1. loops[l].at \in {"walks", "posts"} /\ GivesTurn(l) /\ running' = running
    BY <1>2 DEF WalkFails, ScanCompletes, LoopOnly
  <2> QED
    BY <2>1, GivesStep
<1>3. CASE WalkReports(l) \/ TimerFires(l)
  BY <1>3, MovesStep
<1> QED
  BY <1>1, <1>2, <1>3 DEF LoopStep

-----------------------------------------------------------------------------
\* What an answer makes of the loops there are, and the ones it starts.
LEMMA ReconciledLoops ==
    ASSUME LoopsSound, NEW a \in Collectors, NEW ans \in Answers
    PROVE  /\ Reconciled(a, ans) \in Seq(Loop) /\ DOMAIN Reconciled(a, ans) = DOMAIN loops
           /\ Len(Reconciled(a, ans)) = Len(loops)
           /\ \A l \in DOMAIN loops :
                 LET new == Reconciled(a, ans)[l] IN
                 /\ new.agent = loops[l].agent /\ new.share = loops[l].share
                 /\ (new.at = "waits" <=> loops[l].at = "waits")
                 /\ (new.at \in {"walks", "posts"} <=> loops[l].at \in {"walks", "posts"})
                 /\ ~new.stopped => /\ ~loops[l].stopped
                                    /\ loops[l].agent = a /\ running[a][loops[l].share] = l => loops[l].share \notin ToStop(a, ans)
<1>1. ASSUME NEW l \in DOMAIN loops
      PROVE  LET new == Reconciled(a, ans)[l] IN
             /\ new \in Loop /\ new.agent = loops[l].agent /\ new.share = loops[l].share
             /\ (new.at = "waits" <=> loops[l].at = "waits")
             /\ (new.at \in {"walks", "posts"} <=> loops[l].at \in {"walks", "posts"})
             /\ ~new.stopped => /\ ~loops[l].stopped
                                /\ loops[l].agent = a /\ running[a][loops[l].share] = l => loops[l].share \notin ToStop(a, ans)
  <2>1. PICK old \in Loop : old = loops[l]
    BY LoopFields
  <2>2. PICK s \in Shares : s = old.share
    BY DEF Loop
  <2>3. Reconciled(a, ans)[l] =
          IF old.agent # a \/ running[a][s] # l THEN old
          ELSE IF s \in ToStop(a, ans) THEN [old EXCEPT !.stopped = TRUE, !.at = IF @ = "sleeps" THEN "ended" ELSE @]
          ELSE IF s \in ToRetime(a, ans) THEN [old EXCEPT !.interval = ans[s].interval] ELSE old
    BY <2>1, <2>2 DEF Reconciled
  <2>4. PICK where \in {"asks", "waits", "walks", "posts", "sleeps", "ended"} :
           /\ where = (IF old.at = "sleeps" THEN "ended" ELSE old.at)
           /\ where = "waits" <=> old.at = "waits"
           /\ where \in {"walks", "posts"} <=> old.at \in {"walks", "posts"}
    BY DEF Loop
  <2>5. PICK put : put = [old EXCEPT !.stopped = TRUE]
    OBVIOUS
  <2>6. put \in Loop /\ put.stopped /\ put.agent = old.agent /\ put.share = old.share /\ put.at = old.at
    BY <2>5 DEF Loop
  <2>7. PICK out : out = [put EXCEPT !.at = where]
    OBVIOUS
  <2>8. out \in Loop /\ out.stopped /\ out.agent = old.agent /\ out.share = old.share /\ out.at = where
    BY <2>6, <2>7 DEF Loop
  <2>9. out = [old EXCEPT !.stopped = TRUE, !.at = IF @ = "sleeps" THEN "ended" ELSE @]
    BY <2>4, <2>5, <2>6, <2>7 DEF Loop
  <2>10. ASSUME s \in ToRetime(a, ans)
         PROVE  LET new == [old EXCEPT !.interval = ans[s].interval] IN
                new \in Loop /\ new.agent = old.agent /\ new.share = old.share /\ new.at = old.at /\ new.stopped = old.stopped
    <3>1. PICK i \in Intervals : i = ans[s].interval
      BY <2>10, AnswerFields DEF ToRetime
    <3>2. PICK new : new = [old EXCEPT !.interval = i]
      OBVIOUS
    <3>3. new \in Loop /\ new.agent = old.agent /\ new.share = old.share /\ new.at = old.at /\ new.stopped = old.stopped
      BY <3>2 DEF Loop
    <3> QED
      BY <3>1, <3>2, <3>3
  <2>11. CASE old.agent # a \/ running[a][s] # l
    BY <2>1, <2>2, <2>3, <2>11
  <2>12. CASE old.agent = a /\ running[a][s] = l /\ s \in ToStop(a, ans)
    <3>1. Reconciled(a, ans)[l] = out
      BY <2>3, <2>9, <2>12
    <3> QED
      BY <2>1, <2>2, <2>4, <2>8, <3>1
  <2>13. CASE old.agent = a /\ running[a][s] = l /\ s \notin ToStop(a, ans)
    <3>1. PICK new : new = Reconciled(a, ans)[l]
      OBVIOUS
    <3>2. new \in Loop /\ new.agent = old.agent /\ new.share = old.share /\ new.at = old.at /\ new.stopped = old.stopped
      BY <2>3, <2>10, <2>13, <3>1
    <3> QED
      BY <2>1, <2>2, <2>13, <3>1, <3>2
  <2> QED
    BY <2>11, <2>12, <2>13
<1>2. DOMAIN Reconciled(a, ans) = DOMAIN loops /\ Reconciled(a, ans) = [l \in DOMAIN loops |-> Reconciled(a, ans)[l]]
  BY DEF Reconciled
<1>3. Reconciled(a, ans) \in Seq(Loop)
  BY <1>1, <1>2, LoopPlaced
<1>4. Len(Reconciled(a, ans)) = Len(loops)
  BY <1>2, <1>3 DEF LoopsSound
<1> QED
  BY <1>1, <1>2, <1>3, <1>4

LEMMA ApplyStep ==
    ASSUME SourcesIInv, NEW a \in Collectors, NEW i \in DOMAIN answers[a], Apply(a, i)
    PROVE  /\ LoopsSound' /\ OneLiveLoop' /\ LimiterSound'
           /\ waiting' \in [Collectors -> Seq(Nat)] /\ active' \in [Collectors -> Nat]
<1> USE DEF SourcesIInv
<1>1. PICK ans \in Answers : ans = answers[a][i]
  OBVIOUS
<1>2. PICK begun : begun = ToStart(a, ans)
  OBVIOUS
<1>3. PICK stop : stop = ToStop(a, ans)
  OBVIOUS
<1>4. begun \subseteq DOMAIN ans /\ begun \subseteq Shares /\ IsFiniteSet(begun)
  BY <1>2, AnswerFields, SourcesAssumption, FS_Subset DEF ToStart
<1>5. PICK order \in Seq(begun) :
         /\ order = SetToSeq(begun)
         /\ \A m, k \in DOMAIN order : order[m] = order[k] => m = k
         /\ \A s \in begun : \E k \in DOMAIN order : order[k] = s
  BY <1>4, SetToSeqLists
<1>6. PICK old \in Seq(Loop) : old = Reconciled(a, ans)
  BY ReconciledLoops
<1>7. PICK new : new = [j \in DOMAIN order |-> NewLoop(a, order[j], ans[order[j]])]
  OBVIOUS
<1>8. PICK n \in Nat : n = Len(loops) /\ DOMAIN loops = 1..n
  BY DEF LoopsSound
<1>9. PICK m \in Nat : m = Len(order) /\ DOMAIN order = 1..m
  OBVIOUS
<1>10. /\ loops' = old \o new
       /\ running' = [running EXCEPT ![a] = [s \in Shares |->
              IF s \in begun THEN n + Place(order, s) ELSE IF s \in stop THEN 0 ELSE @[s]]]
       /\ waiting' = waiting /\ active' = active
  BY <1>1, <1>2, <1>3, <1>5, <1>6, <1>7, <1>8 DEF Apply
\* The new loops.
<1>11. ASSUME NEW j \in 1..m
       PROVE  /\ order[j] \in begun /\ order[j] \in Shares /\ new[j] = NewLoop(a, order[j], ans[order[j]])
              /\ new[j] \in Loop /\ new[j].agent = a /\ new[j].share = order[j] /\ new[j].at = "asks"
  <2>1. order[j] \in begun
    BY <1>5, <1>9
  <2>2. PICK s \in Shares : s = order[j] /\ ans[s].key \in Keys /\ ans[s].interval \in Intervals
    BY <1>4, <2>1, AnswerFields
  <2>3. NewLoop(a, s, ans[s]) \in Loop /\ NewLoop(a, s, ans[s]).agent = a /\ NewLoop(a, s, ans[s]).share = s
        /\ NewLoop(a, s, ans[s]).at = "asks"
    BY <2>2 DEF NewLoop, Loop
  <2> QED
    BY <1>7, <1>9, <2>1, <2>2, <2>3
<1>12. new \in Seq(Loop) /\ Len(new) = m
  <2>1. new \in [1..m -> Loop]
    BY <1>7, <1>9, <1>11
  <2> QED
    BY <2>1, SeqDef
<1>13. Len(old) = n /\ DOMAIN old = 1..n
  BY <1>6, <1>8, ReconciledLoops
<1>14. /\ loops' \in Seq(Loop) /\ DOMAIN loops' = 1..(n + m)
       /\ \A l \in 1..n : loops'[l] = old[l]
       /\ \A j \in 1..m : loops'[n + j] = new[j]
  <2>1. PICK both \in Seq(Loop) :
           /\ both = old \o new /\ Len(both) = n + m
           /\ \A i1 \in 1..(n + m) : both[i1] = IF i1 <= n THEN old[i1] ELSE new[i1 - n]
    <3>1. old \in Seq(Loop) /\ new \in Seq(Loop)
      BY <1>12
    <3>2. /\ old \o new \in Seq(Loop) /\ Len(old \o new) = Len(old) + Len(new)
          /\ \A i1 \in 1..Len(old) + Len(new) : (old \o new)[i1] = IF i1 <= Len(old) THEN old[i1] ELSE new[i1 - Len(old)]
      BY ONLY <3>1, ConcatProperties
    <3> QED
      BY <1>12, <1>13, <3>2
  <2>2. DOMAIN both = 1..(n + m)
    BY <2>1
  <2>3. ASSUME NEW l \in 1..n PROVE both[l] = old[l]
    BY <2>1
  <2>4. ASSUME NEW k \in 1..m PROVE both[n + k] = new[k]
    <3>1. n + k \in 1..(n + m) /\ ~(n + k <= n) /\ (n + k) - n = k
      OBVIOUS
    <3> QED
      BY <2>1, <3>1
  <2> QED
    BY <1>10, <2>1, <2>2, <2>3, <2>4
<1>15. ASSUME NEW s \in begun
       PROVE  Place(order, s) \in 1..m /\ order[Place(order, s)] = s
  BY <1>5, <1>9 DEF Place
<1>16. ASSUME NEW l \in 1..n
       PROVE  /\ l \in DOMAIN loops' /\ loops'[l].agent = loops[l].agent /\ loops'[l].share = loops[l].share
              /\ (loops'[l].at = "waits" <=> loops[l].at = "waits")
              /\ (loops'[l].at \in {"walks", "posts"} <=> loops[l].at \in {"walks", "posts"})
              /\ ~loops'[l].stopped => /\ ~loops[l].stopped
                                       /\ loops[l].agent = a /\ running[a][loops[l].share] = l => loops[l].share \notin stop
  <2>1. loops'[l] = Reconciled(a, ans)[l] /\ l \in DOMAIN loops'
    BY <1>6, <1>14
  <2>2. PICK rec : rec = Reconciled(a, ans)[l]
    OBVIOUS
  <2>3. l \in DOMAIN loops
    BY <1>8
  <2>4. /\ rec.agent = loops[l].agent /\ rec.share = loops[l].share
        /\ (rec.at = "waits" <=> loops[l].at = "waits")
        /\ (rec.at \in {"walks", "posts"} <=> loops[l].at \in {"walks", "posts"})
        /\ ~rec.stopped => /\ ~loops[l].stopped
                           /\ loops[l].agent = a /\ running[a][loops[l].share] = l => loops[l].share \notin ToStop(a, ans)
    BY <2>2, <2>3, ReconciledLoops
  <2> QED
    BY <1>3, <2>1, <2>2, <2>4
<1>17. /\ running' \in [Collectors -> [Shares -> Nat]]
       /\ \A c \in Collectors \ {a} : running'[c] = running[c]
       /\ \A s \in Shares : running'[a][s] = IF s \in begun THEN n + Place(order, s)
                                             ELSE IF s \in stop THEN 0 ELSE running[a][s]
  <2>1. running \in [Collectors -> [Shares -> Nat]]
    BY DEF LoopsSound
  <2>2. PICK map : map = [s \in Shares |-> IF s \in begun THEN n + Place(order, s)
                                           ELSE IF s \in stop THEN 0 ELSE running[a][s]]
    OBVIOUS
  <2>3. map \in [Shares -> Nat]
    <3>1. ASSUME NEW s \in Shares PROVE map[s] \in Nat
      <4>1. running[a][s] \in Nat
        BY <2>1
      <4> QED
        BY <1>15, <2>2, <4>1
    <3> QED
      BY <2>2, <3>1
  <2>4. running' = [running EXCEPT ![a] = map]
    BY <1>10, <2>2
  <2> QED
    BY <2>1, <2>2, <2>3, <2>4
<1>18. ASSUME NEW j \in 1..m
       PROVE  n + j \in DOMAIN loops' /\ loops'[n + j].agent = a /\ loops'[n + j].share = order[j] /\ loops'[n + j].at = "asks"
              /\ order[j] \in begun /\ order[j] \in Shares
  <2>1. n + j \in DOMAIN loops'
    BY <1>14
  <2>2. loops'[n + j] = new[j]
    BY <1>14
  <2> QED
    BY <1>11, <2>1, <2>2
<1>19. \A l \in DOMAIN loops' : l \in 1..n \/ \E j \in 1..m : l = n + j
  <2>1. ASSUME NEW l \in 1..(n + m), l \notin 1..n PROVE l - n \in 1..m /\ l = n + (l - n)
    BY <2>1
  <2> QED
    BY <1>14, <2>1
<1>20. LoopsSound'
  <2>1. ASSUME NEW c \in Collectors, NEW s \in Shares, running'[c][s] # 0
        PROVE  /\ running'[c][s] \in DOMAIN loops'
               /\ loops'[running'[c][s]].agent = c /\ loops'[running'[c][s]].share = s
    <3>1. CASE c = a /\ s \in begun
      <4>1. PICK j \in 1..m : j = Place(order, s) /\ order[j] = s
        BY <1>15, <3>1
      <4>2. running'[c][s] = n + j
        BY <1>17, <3>1, <4>1
      <4> QED
        BY <1>18, <3>1, <4>1, <4>2
    <3>2. CASE ~(c = a /\ s \in begun)
      <4>1. PICK l : l = running[c][s] /\ l = running'[c][s] /\ l # 0
        BY <1>17, <2>1, <3>2
      <4>2. \A d \in Collectors, k \in Shares : running[d][k] # 0 =>
               running[d][k] \in DOMAIN loops /\ loops[running[d][k]].agent = d /\ loops[running[d][k]].share = k
        BY DEF LoopsSound
      <4>3. l \in 1..n /\ loops[l].agent = c /\ loops[l].share = s
        <5>1. running[c][s] # 0
          BY <4>1
        <5>2. running[c][s] \in DOMAIN loops /\ loops[running[c][s]].agent = c /\ loops[running[c][s]].share = s
          BY ONLY <4>2, <5>1, c \in Collectors, s \in Shares
        <5> QED
          BY <1>8, <4>1, <5>2
      <4> QED
        BY <1>16, <4>1, <4>3
    <3> QED
      BY <3>1, <3>2
  <2> QED
    BY <1>14, <1>17, <2>1 DEF LoopsSound
<1>21. OneLiveLoop'
  <2> SUFFICES ASSUME NEW l \in DOMAIN loops', ~loops'[l].stopped
               PROVE  running'[loops'[l].agent][loops'[l].share] = l
    BY DEF OneLiveLoop
  <2>1. CASE l \in 1..n
    <3>1. PICK c \in Collectors : c = loops[l].agent
      BY <1>8, <2>1, LoopFields
    <3>2. PICK s \in Shares : s = loops[l].share
      BY <1>8, <2>1, LoopFields
    <3>3. loops'[l].agent = c /\ loops'[l].share = s /\ ~loops[l].stopped /\ (c = a /\ running[a][s] = l => s \notin stop)
      BY <1>16, <2>1, <3>1, <3>2
    <3>4. running[c][s] = l
      BY <1>8, <2>1, <3>1, <3>2, <3>3 DEF OneLiveLoop
    <3>5. CASE c = a
      <4>1. s \notin stop /\ s \in Runs(a)
        BY <2>1, <3>3, <3>4, <3>5 DEF Runs
      <4>2. s \notin begun
        BY <1>2, <1>3, <4>1 DEF ToStart, ToStop
      <4> QED
        BY <1>17, <3>3, <3>4, <3>5, <4>1, <4>2
    <3>6. CASE c # a
      BY <1>17, <3>3, <3>4, <3>6
    <3> QED
      BY <3>5, <3>6
  <2>2. CASE \E j \in 1..m : l = n + j
    <3>1. PICK j \in 1..m : l = n + j
      BY <2>2
    <3>2. PICK s \in Shares : s = order[j] /\ s \in begun
      BY <1>18
    <3>3. loops'[l].agent = a /\ loops'[l].share = s
      BY <1>18, <3>1, <3>2
    <3>4. Place(order, s) = j
      <4>1. PICK k \in 1..m : k = Place(order, s) /\ order[k] = s
        BY <1>15, <3>2
      <4> QED
        BY <1>5, <1>9, <3>2, <4>1
    <3> QED
      BY <1>17, <3>1, <3>2, <3>3, <3>4
  <2> QED
    BY <1>19, <2>1, <2>2
<1>22. LimiterSound'
  <2>1. ASSUME NEW c \in Collectors PROVE LimiterOf(c)'
    <3>1. waiting'[c] = waiting[c] /\ active'[c] = active[c] /\ LimiterOf(c)
      BY <1>10 DEF LimiterSound
    <3>2. DOMAIN loops \subseteq DOMAIN loops' /\ \A l \in DOMAIN loops : loops[l].agent = c => loops'[l].agent = c
      BY <1>8, <1>16
    <3>3. ASSUME NEW l \in DOMAIN loops', loops'[l].agent = c
          PROVE  IF l \in DOMAIN loops
                 THEN /\ loops[l].agent = c
                      /\ (loops'[l].at = "waits" <=> loops[l].at = "waits")
                      /\ (loops'[l].at \in {"walks", "posts"} <=> loops[l].at \in {"walks", "posts"})
                 ELSE loops'[l].at = "asks"
      <4>1. CASE l \in 1..n
        BY <1>8, <1>16, <3>3, <4>1
      <4>2. CASE \E j \in 1..m : l = n + j
        <5>1. PICK j \in 1..m : l = n + j
          BY <4>2
        <5>2. l \notin 1..n
          BY <5>1
        <5> QED
          BY <1>8, <1>18, <5>1, <5>2
      <4> QED
        BY <1>19, <4>1, <4>2
    <3> QED
      BY ONLY <3>1, <3>2, <3>3, LimiterKept
  <2> QED
    BY <2>1 DEF LimiterSound
<1> QED
  BY <1>10, <1>20, <1>21, <1>22

-----------------------------------------------------------------------------
\* Steps that leave the rows, and steps that leave the agents, as they are.
LEMMA RowsKept ==
    ASSUME SourcesIInv, UNCHANGED rowVars
    PROVE  RowsSound' /\ EditsSound' /\ LabelsInStep'
BY DEF SourcesIInv, rowVars, RowsSound, EditsSound, LabelsInStep, SharesThere

LEMMA AgentsKept ==
    ASSUME SourcesIInv, UNCHANGED <<loops, running, active, waiting>>
    PROVE  /\ LoopsSound' /\ OneLiveLoop' /\ LimiterSound'
           /\ waiting' \in [Collectors -> Seq(Nat)] /\ active' \in [Collectors -> Nat]
<1>1. LoopsSound' /\ OneLiveLoop'
  BY DEF SourcesIInv, LoopsSound, OneLiveLoop
<1>2. LimiterSound'
  <2>1. ASSUME NEW a \in Collectors PROVE LimiterOf(a)'
    <3>1. LimiterOf(a)
      BY DEF SourcesIInv, LimiterSound
    <3>2. WalksOf(a)' = WalksOf(a)
      BY DEF WalksOf
    <3> QED
      BY <3>1, <3>2 DEF LimiterOf
  <2> QED
    BY <2>1 DEF LimiterSound
<1> QED
  BY <1>1, <1>2 DEF SourcesIInv

LEMMA SourcesIInvStep == SourcesIInv /\ [SourcesNext]_sourceVars => SourcesIInv'
<1> SUFFICES ASSUME SourcesIInv, [SourcesNext]_sourceVars PROVE SourcesIInv'
  OBVIOUS
<1>1. ASSUME NEW d \in Admins, AdminReads(d) \/ (edit[d] # NoEdit /\ AdminWrites(d)) PROVE SourcesIInv'
  <2>1. RowsSound' /\ EditsSound' /\ LabelsInStep'
    BY <1>1, ReadsStep, WriteStep
  <2>2. UNCHANGED <<answers, agentVars>>
    BY <1>1 DEF AdminReads, AdminWrites, ReadForHost, ReadForServer, ReadForDeleteAll, ReadForDelete, ReadForToggle,
                ReadForCreate, ReadForShare, ReadsRow
  <2>3. answers' \in [Collectors -> Seq(Answers)] /\ UNCHANGED <<loops, running, active, waiting>>
    BY <2>2 DEF SourcesIInv, agentVars
  <2> QED
    BY <2>1, <2>3, AgentsKept DEF SourcesIInv
<1>2. ASSUME NEW a \in Collectors, AsksSync(a) \/ \E i \in DOMAIN answers[a] : SyncLost(a, i) \/ Apply(a, i) PROVE SourcesIInv'
  <2>1. answers' \in [Collectors -> Seq(Answers)]
    BY <1>2, AnswersStep
  <2>2. UNCHANGED rowVars
    BY <1>2 DEF AsksSync, SyncLost, Apply
  <2>3. RowsSound' /\ EditsSound' /\ LabelsInStep'
    BY <2>2, RowsKept
  <2>4. CASE \E i \in DOMAIN answers[a] : Apply(a, i)
    BY <2>1, <2>3, <2>4, ApplyStep DEF SourcesIInv
  <2>5. CASE AsksSync(a) \/ \E i \in DOMAIN answers[a] : SyncLost(a, i)
    <3>1. UNCHANGED <<loops, running, active, waiting>>
      BY <2>5 DEF AsksSync, SyncLost, agentVars
    <3> QED
      BY <2>1, <2>3, <3>1, AgentsKept DEF SourcesIInv
  <2> QED
    BY <1>2, <2>4, <2>5
<1>3. ASSUME NEW l \in DOMAIN loops, LoopStep(l) PROVE SourcesIInv'
  <2>1. UNCHANGED rowVars /\ answers' = answers
    BY <1>3 DEF LoopStep, AsksForTurn, WalkFails, WalkReports, ScanCompletes, TimerFires, LoopOnly
  <2>2. RowsSound' /\ EditsSound' /\ LabelsInStep'
    BY <2>1, RowsKept
  <2> QED
    BY <1>3, <2>1, <2>2, LoopStepSound DEF SourcesIInv
<1>4. CASE UNCHANGED sourceVars
  <2>1. UNCHANGED rowVars /\ answers' = answers /\ UNCHANGED <<loops, running, active, waiting>>
    BY <1>4 DEF sourceVars, rowVars
  <2> QED
    BY <2>1, RowsKept, AgentsKept DEF SourcesIInv
<1> QED
  BY <1>1, <1>2, <1>3, <1>4 DEF SourcesNext

LEMMA SourcesInvariant == SourcesSpec => []SourcesIInv
BY SourcesIInvInit, SourcesIInvStep, PTL DEF SourcesSpec

\* Rows, loops and queues are of their kind, and an agent's limiter counts the
\* walks there are, neither fewer nor more, whatever was stopped meanwhile.
THEOREM SourcesTypeCorrect == SourcesSpec => []SourcesTypeOK
<1>1. SourcesIInv => SourcesTypeOK
  <2> SUFFICES ASSUME SourcesIInv PROVE SourcesTypeOK
    OBVIOUS
  <2> USE DEF SourcesIInv
  <2>1. server.host \in Hosts /\ \A s \in SharesThere : source[s].agent \in Collectors /\ source[s].folder \in ShareFolders
    <3>1. server.host \in Hosts
      BY DEF RowsSound
    <3>2. ASSUME NEW s \in SharesThere PROVE source[s].agent \in Collectors /\ source[s].folder \in ShareFolders
      <4>1. source[s] \in {Spec0} \cup SourceRow /\ source[s].there
        BY <3>2 DEF RowsSound, SharesThere
      <4>2. ~Spec0.there
        BY DEF Spec0
      <4>3. source[s] \in SourceRow
        BY <4>1, <4>2
      <4> QED
        BY <4>3 DEF SourceRow
    <3> QED
      BY <3>1, <3>2
  <2>2. \A l \in DOMAIN loops : loops[l].at \in {"asks", "waits", "walks", "posts", "sleeps", "ended"}
    BY LoopFields DEF Loop
  <2>3. ASSUME NEW a \in Collectors
        PROVE  /\ \A s \in Shares : running[a][s] \in 0..Len(loops)
               /\ active[a] = Cardinality(WalksOf(a))
               /\ \A l \in DOMAIN loops : loops[l].agent = a => (loops[l].at = "waits" <=> l \in ToSet(waiting[a]))
    <3>1. LimiterOf(a) /\ waiting[a] \in Seq(Nat)
      BY DEF LimiterSound
    <3>2. \A l : l \in ToSet(waiting[a]) <=> \E i \in DOMAIN waiting[a] : waiting[a][i] = l
      BY DEF ToSet
    <3>3. ASSUME NEW s \in Shares PROVE running[a][s] \in 0..Len(loops)
      <4>1. running[a][s] \in Nat /\ DOMAIN loops = 1..Len(loops) /\ Len(loops) \in Nat
        BY DEF LoopsSound
      <4>2. running[a][s] # 0 => running[a][s] \in DOMAIN loops
        BY DEF LoopsSound
      <4> QED
        BY <4>1, <4>2
    <3> QED
      BY <3>1, <3>2, <3>3 DEF LimiterOf
  <2> QED
    BY <2>1, <2>2, <2>3 DEF SourcesTypeOK
<1> QED
  BY <1>1, SourcesInvariant, PTL

\* For any number of agents, shares and administrators, and answers that arrive in
\* any order: an agent walks within its limit and lets no slot idle, each share has
\* one loop that goes on, the one the agent can stop, and a label shows its server.
THEOREM SourcesSound == SourcesSpec => []SourcesHold
<1>1. SourcesIInv => SourcesHold
  <2> SUFFICES ASSUME SourcesIInv PROVE SourcesHold
    OBVIOUS
  <2>1. WalksCapped
    <3>1. ASSUME NEW a \in Collectors
          PROVE  Cardinality(WalksOf(a)) <= MaxScans /\ (waiting[a] # <<>> => Cardinality(WalksOf(a)) = MaxScans)
      BY SourcesAssumption DEF SourcesIInv, LimiterSound, LimiterOf
    <3> QED
      BY <3>1 DEF WalksCapped
  <2> QED
    BY <2>1 DEF SourcesIInv, SourcesHold
<1> QED
  BY <1>1, SourcesInvariant, PTL

-----------------------------------------------------------------------------
(***************************************************************************)
(* AlertRules.                                                             *)
(*                                                                         *)
(* What a request or a sweep has read before it raises an alert holds of   *)
(* the alerts there were then, and goes on to hold: an alert keeps its     *)
(* kind, and one that is open and untouched has been so all along.  So an  *)
(* alert about to be raised has, among those its raiser knew, none that is *)
(* open, untouched and as recent as its window; and what a request owes is *)
(* told, or is what it is about to look for.                               *)
(***************************************************************************)
FileRules == {"COPY_TO_REMOVABLE", "RANSOMWARE_RATE", "BULK_FILE_READ"}
Volumes == {ChangeOf[e].volume : e \in Changes}
Subjects == Volumes \cup {"source"} \cup Scanners
AlertRow ==
    [rule : FileRules \cup {"AGENT_SILENT"}, of : Subjects, level : {"MEDIUM", "HIGH", "CRITICAL"}, at : Nat,
     status : {"OPEN", "ACKNOWLEDGED", "RESOLVED"}, acknowledged : BOOLEAN, resolved : BOOLEAN,
     actions : SUBSET {"WEBHOOK_NOTIFICATION", "FILE_QUARANTINE"}, knew : Nat, touched : BOOLEAN]
Owed == [rule : FileRules, of : Subjects, since : Int]
Files == {ChangeOf[e].path : e \in Changes}
AtDevices == [pc : {"devices"}, todo : SUBSET Volumes, since : Int, owes : SUBSET Owed]
PostState ==
    [pc : {"waiting"}] \cup [pc : {"store"}, todo : SUBSET Changes] \cup AtDevices
    \cup [pc : {"copy"}, device : Volumes, knew : Nat, next : AtDevices]
    \cup [pc : {"copied"}, alert : Nat, next : AtDevices]
    \cup [pc : {"rate", "bulk"}, since : Int, owes : SUBSET Owed]
    \cup [pc : {"files"}, since : Int, owes : SUBSET Owed, knew : Nat]
    \cup [pc : {"raise"}, files : SUBSET Files, owes : SUBSET Owed, knew : Nat]
    \cup [pc : {"raised", "noted"}, files : SUBSET Files, alert : Nat, owes : SUBSET Owed]
    \cup [pc : {"done"}, owes : SUBSET Owed] \cup [pc : {"reads"}, user : Readers]
    \cup [pc : {"copying"}, owes : SUBSET Owed, knew : Nat] \cup [pc : {"told"}, alert : Nat, owes : SUBSET Owed]
AtSweep == [pc : {"sweep"}, todo : SUBSET Scanners, seen : [Scanners -> Nat]]
CheckState ==
    [pc : {"waiting"}] \cup AtSweep \cup [pc : {"raise"}, agent : Scanners, knew : Nat, next : AtSweep]
    \cup [pc : {"note", "resolve"}, alert : Nat, next : AtSweep]
DecisionState ==
    [pc : {"waiting"}]
    \cup [pc : {"update"}, status : {"OPEN", "ACKNOWLEDGED", "RESOLVED"}, todo : SUBSET Nat, acknowledged : SUBSET Nat]
RulesTyped ==
    /\ clock \in Nat /\ Stored \subseteq Changes /\ IsFiniteSet(Stored) /\ IsFiniteSet(reads)
    /\ reads \subseteq [user : Readers, file : ReadFiles, at : 0..clock]
    /\ raisedAlerts \in Seq(AlertRow) /\ post \in [Posters -> PostState]
    /\ quiet \in [Scanners -> Nat] /\ check \in [Sweeps -> CheckState] /\ decision \in [Deciders -> DecisionState]

\* Nobody has had a hand in it.
Live(a) == a.status = "OPEN" /\ ~a.touched
Told(o) == \E i \in DOMAIN raisedAlerts :
              raisedAlerts[i].rule = o.rule /\ raisedAlerts[i].of = o.of /\ raisedAlerts[i].at >= o.since
\* What a request owes is told, but for those that are still looked for.
Owes(owes, rule, ofs, since) ==
    \A o \in owes : /\ o.since + Window <= clock
                    /\ Told(o) \/ (o.rule = rule /\ o.of \in ofs /\ o.since = since)
\* Of the alerts it knew, none that is live is recent.
LookedFor(rule, of, knew) ==
    /\ knew <= Len(raisedAlerts)
    /\ \A i \in 1..knew :
          raisedAlerts[i].rule = rule /\ raisedAlerts[i].of = of /\ Live(raisedAlerts[i]) =>
              raisedAlerts[i].at + Window < clock
Quarantinable == \E e \in Stored : ChangeOf[e].kind # "DELETED"

AtDevicesSound(r, more) ==
    r.since + Window <= clock /\ Owes(r.owes, "COPY_TO_REMOVABLE", r.todo \cup more, r.since)
PostSound(r) ==
    /\ r.pc = "devices" => AtDevicesSound(r, {})
    /\ r.pc = "copy" => AtDevicesSound(r.next, {r.device}) /\ LookedFor("COPY_TO_REMOVABLE", r.device, r.knew)
    /\ r.pc = "copied" => AtDevicesSound(r.next, {})
    /\ r.pc = "rate" => r.since + Window <= clock /\ Owes(r.owes, "RANSOMWARE_RATE", {"source"}, r.since)
    /\ r.pc = "bulk" => r.since + Window <= clock /\ Owes(r.owes, "BULK_FILE_READ", {"source"}, r.since)
    /\ r.pc = "files" => Owes(r.owes, "RANSOMWARE_RATE", {"source"}, r.since)
    /\ r.pc = "raise" => \A o \in r.owes : /\ o.since + Window <= clock
                                           /\ Told(o) \/ (o.rule = "RANSOMWARE_RATE" /\ o.of = "source")
    /\ r.pc = "copying" => \A o \in r.owes : /\ o.since + Window <= clock
                                             /\ Told(o) \/ (o.rule = "BULK_FILE_READ" /\ o.of = "source")
    /\ r.pc \in {"files", "raise"} => LookedFor("RANSOMWARE_RATE", "source", r.knew)
    /\ r.pc = "copying" => LookedFor("BULK_FILE_READ", "source", r.knew)
    /\ r.pc \in {"raised", "noted", "told", "done"} => \A o \in r.owes : Told(o)
    /\ r.pc \in {"copied", "raised", "noted", "told"} => r.alert \in DOMAIN raisedAlerts
    /\ r.pc \in {"raise", "raised", "noted"} => (r.files # {} => Quarantinable)
    /\ r.pc \in {"raised", "noted"} => raisedAlerts[r.alert].rule = "RANSOMWARE_RATE"
    /\ r.pc = "noted" => r.files # {} /\ MayQuarantine /\ "WEBHOOK_NOTIFICATION" \in raisedAlerts[r.alert].actions
CheckSound(r) ==
    /\ r.pc = "raise" =>
          /\ r.knew <= Len(raisedAlerts)
          /\ \A i \in 1..r.knew :
                raisedAlerts[i].rule = "AGENT_SILENT" /\ raisedAlerts[i].of = r.agent => ~Live(raisedAlerts[i])
    /\ r.pc \in {"note", "resolve"} => r.alert \in DOMAIN raisedAlerts
DecisionSound(r) ==
    r.pc = "update" => \A i \in r.acknowledged : i \in DOMAIN raisedAlerts /\ raisedAlerts[i].acknowledged
RulesIInv ==
    /\ RulesTyped /\ RulesTypeOK /\ OneAlertPerBurst /\ AlertsAreActionable
    /\ \A p \in Posters : PostSound(post[p])
    /\ \A s \in Sweeps : CheckSound(check[s])
    /\ \A d \in Deciders : DecisionSound(decision[d])

LEMMA RulesIInvInit == AlertRulesInit => RulesIInv
<1> SUFFICES ASSUME AlertRulesInit PROVE RulesIInv
  OBVIOUS
<1> USE DEF AlertRulesInit
<1>1. /\ \A p \in Posters : post[p].pc = "waiting"
      /\ \A s \in Sweeps : check[s].pc = "waiting"
      /\ \A d \in Deciders : decision[d].pc = "waiting"
      /\ DOMAIN raisedAlerts = {} /\ Stored = {}
      /\ IsFiniteSet(Stored) /\ IsFiniteSet(reads)
  BY FS_EmptySet DEF Waiting, Stored
<1>2. RulesTyped
  BY <1>1 DEF RulesTyped, PostState, CheckState, DecisionState, Waiting
<1>3. RulesTypeOK /\ OneAlertPerBurst /\ AlertsAreActionable
  BY <1>1 DEF RulesTypeOK, OneAlertPerBurst, AlertsAreActionable
<1>4. (\A p \in Posters : PostSound(post[p])) /\ (\A s \in Sweeps : CheckSound(check[s]))
      /\ (\A d \in Deciders : DecisionSound(decision[d]))
  BY <1>1 DEF PostSound, CheckSound, DecisionSound
<1> QED
  BY <1>2, <1>3, <1>4 DEF RulesIInv

-----------------------------------------------------------------------------
\* What no step undoes: alerts stay with what they are of, one that is live has
\* been live, a suggestion and an acknowledgement stay.
Grows ==
    /\ DOMAIN raisedAlerts \subseteq DOMAIN raisedAlerts' /\ Len(raisedAlerts) <= Len(raisedAlerts')
    /\ \A i \in DOMAIN raisedAlerts :
          /\ raisedAlerts'[i].rule = raisedAlerts[i].rule /\ raisedAlerts'[i].of = raisedAlerts[i].of
          /\ raisedAlerts'[i].at = raisedAlerts[i].at /\ raisedAlerts'[i].knew = raisedAlerts[i].knew
          /\ Live(raisedAlerts'[i]) => Live(raisedAlerts[i])
          /\ raisedAlerts[i].actions \subseteq raisedAlerts'[i].actions
          /\ raisedAlerts[i].acknowledged => raisedAlerts'[i].acknowledged

LEMMA ToldStill == ASSUME Grows, NEW o, Told(o) PROVE Told(o)'
BY DEF Grows, Told

LEMMA OwesStill ==
    ASSUME Grows, NEW owes \in SUBSET Owed, NEW rule, NEW ofs, NEW since, Owes(owes, rule, ofs, since),
           clock \in Int, clock' \in Int, clock <= clock'
    PROVE  Owes(owes, rule, ofs, since)'
<1>1. ASSUME NEW o \in owes
      PROVE  o.since + Window <= clock' /\ (Told(o)' \/ (o.rule = rule /\ o.of \in ofs /\ o.since = since))
  <2>1. o.since \in Int /\ o.since + Window <= clock /\ Window \in Nat
    BY AlertRulesAssumption DEF Owed, Owes
  <2>2. o.since + Window <= clock'
    BY <2>1
  <2> QED
    BY <2>2, ToldStill DEF Owes
<1> QED
  BY <1>1 DEF Owes

LEMMA LookedForStill ==
    ASSUME Grows, raisedAlerts \in Seq(AlertRow), NEW rule, NEW of, NEW knew \in Nat, LookedFor(rule, of, knew),
           clock \in Int, clock' \in Int, clock <= clock', Len(raisedAlerts') \in Nat
    PROVE  LookedFor(rule, of, knew)'
<1>1. DOMAIN raisedAlerts = 1..Len(raisedAlerts) /\ Len(raisedAlerts) \in Nat
  OBVIOUS
<1>2. knew <= Len(raisedAlerts')
  BY <1>1 DEF Grows, LookedFor
<1>3. ASSUME NEW i \in 1..knew, raisedAlerts'[i].rule = rule, raisedAlerts'[i].of = of, Live(raisedAlerts'[i])
      PROVE  raisedAlerts'[i].at + Window < clock'
  <2>1. i \in DOMAIN raisedAlerts
    BY <1>1 DEF LookedFor
  <2>2. raisedAlerts[i].at \in Nat /\ Window \in Nat
    <3>1. raisedAlerts[i] \in AlertRow
      BY <2>1
    <3> QED
      BY <3>1, AlertRulesAssumption DEF AlertRow
  <2>3. raisedAlerts'[i].at = raisedAlerts[i].at /\ raisedAlerts[i].at + Window < clock
    BY <1>3, <2>1 DEF Grows, LookedFor
  <2> QED
    BY <2>2, <2>3
<1> QED
  BY <1>2, <1>3 DEF LookedFor

LEMMA AtDevicesStill ==
    ASSUME Grows, NEW r \in AtDevices, NEW more, AtDevicesSound(r, more),
           clock \in Int, clock' \in Int, clock <= clock'
    PROVE  AtDevicesSound(r, more)'
<1>1. r.since \in Int /\ r.owes \in SUBSET Owed /\ Window \in Nat
  BY AlertRulesAssumption DEF AtDevices
<1>2. r.since + Window <= clock /\ Owes(r.owes, "COPY_TO_REMOVABLE", r.todo \cup more, r.since)
  BY DEF AtDevicesSound
<1>3. Owes(r.owes, "COPY_TO_REMOVABLE", r.todo \cup more, r.since)'
  BY <1>1, <1>2, OwesStill
<1>4. r.since + Window <= clock'
  BY <1>1, <1>2
<1> QED
  BY <1>3, <1>4 DEF AtDevicesSound

\* The kinds of states a request is in.
LEMMA PostFields ==
    ASSUME NEW r \in PostState
    PROVE  /\ r.pc = "store" => r \in [pc : {"store"}, todo : SUBSET Changes]
           /\ r.pc = "devices" => r \in AtDevices
           /\ r.pc = "copy" => r \in [pc : {"copy"}, device : Volumes, knew : Nat, next : AtDevices]
           /\ r.pc = "copied" => r \in [pc : {"copied"}, alert : Nat, next : AtDevices]
           /\ r.pc \in {"rate", "bulk"} => r \in [pc : {"rate", "bulk"}, since : Int, owes : SUBSET Owed]
           /\ r.pc = "files" => r \in [pc : {"files"}, since : Int, owes : SUBSET Owed, knew : Nat]
           /\ r.pc = "raise" => r \in [pc : {"raise"}, files : SUBSET Files, owes : SUBSET Owed, knew : Nat]
           /\ r.pc \in {"raised", "noted"} =>
                 r \in [pc : {"raised", "noted"}, files : SUBSET Files, alert : Nat, owes : SUBSET Owed]
           /\ r.pc = "done" => r \in [pc : {"done"}, owes : SUBSET Owed]
           /\ r.pc = "reads" => r \in [pc : {"reads"}, user : Readers]
           /\ r.pc = "copying" => r \in [pc : {"copying"}, owes : SUBSET Owed, knew : Nat]
           /\ r.pc = "told" => r \in [pc : {"told"}, alert : Nat, owes : SUBSET Owed]
BY DEF PostState, AtDevices

LEMMA PostStill ==
    ASSUME Grows, raisedAlerts \in Seq(AlertRow), Len(raisedAlerts') \in Nat, NEW r \in PostState, PostSound(r),
           clock \in Int, clock' \in Int, clock <= clock', Stored \subseteq Stored'
    PROVE  PostSound(r)'
<1>1. r.pc = "devices" => AtDevicesSound(r, {})'
  BY AtDevicesStill, PostFields DEF PostSound
<1>2. r.pc = "copy" => AtDevicesSound(r.next, {r.device})' /\ LookedFor("COPY_TO_REMOVABLE", r.device, r.knew)'
  <2> SUFFICES ASSUME r.pc = "copy"
               PROVE  AtDevicesSound(r.next, {r.device})' /\ LookedFor("COPY_TO_REMOVABLE", r.device, r.knew)'
    OBVIOUS
  <2>1. r.next \in AtDevices /\ r.knew \in Nat
    BY PostFields
  <2>2. AtDevicesSound(r.next, {r.device}) /\ LookedFor("COPY_TO_REMOVABLE", r.device, r.knew)
    BY DEF PostSound
  <2>3. AtDevicesSound(r.next, {r.device})'
    BY <2>1, <2>2, AtDevicesStill
  <2>4. LookedFor("COPY_TO_REMOVABLE", r.device, r.knew)'
    BY <2>1, <2>2, LookedForStill
  <2> QED
    BY <2>3, <2>4
<1>3. r.pc = "copied" => AtDevicesSound(r.next, {})'
  <2> SUFFICES ASSUME r.pc = "copied" PROVE AtDevicesSound(r.next, {})'
    OBVIOUS
  <2>1. r.next \in AtDevices /\ AtDevicesSound(r.next, {})
    BY PostFields DEF PostSound
  <2> QED
    BY <2>1, AtDevicesStill
<1>4. r.pc \in {"rate", "bulk"} => r.since + Window <= clock'
  <2> SUFFICES ASSUME r.pc \in {"rate", "bulk"} PROVE r.since + Window <= clock'
    OBVIOUS
  <2>1. r.since \in Int /\ Window \in Nat /\ r.since + Window <= clock
    BY PostFields, AlertRulesAssumption DEF PostSound
  <2> QED
    BY <2>1
<1>5. r.pc \in {"rate", "files"} => Owes(r.owes, "RANSOMWARE_RATE", {"source"}, r.since)'
  <2> SUFFICES ASSUME r.pc \in {"rate", "files"} PROVE Owes(r.owes, "RANSOMWARE_RATE", {"source"}, r.since)'
    OBVIOUS
  <2>1. r.owes \in SUBSET Owed /\ Owes(r.owes, "RANSOMWARE_RATE", {"source"}, r.since)
    BY PostFields DEF PostSound
  <2> QED
    BY <2>1, OwesStill
<1>6. r.pc = "bulk" => Owes(r.owes, "BULK_FILE_READ", {"source"}, r.since)'
  <2> SUFFICES ASSUME r.pc = "bulk" PROVE Owes(r.owes, "BULK_FILE_READ", {"source"}, r.since)'
    OBVIOUS
  <2>1. r.owes \in SUBSET Owed /\ Owes(r.owes, "BULK_FILE_READ", {"source"}, r.since)
    BY PostFields DEF PostSound
  <2> QED
    BY <2>1, OwesStill
<1>7. r.pc \in {"raise", "copying"} => \A o \in r.owes : o.since + Window <= clock' /\ (Told(o) => Told(o)')
  <2> SUFFICES ASSUME r.pc \in {"raise", "copying"}, NEW o \in r.owes
               PROVE  o.since + Window <= clock' /\ (Told(o) => Told(o)')
    OBVIOUS
  <2>1. o \in Owed /\ o.since + Window <= clock
    BY PostFields DEF PostSound
  <2>2. o.since \in Int /\ Window \in Nat
    BY <2>1, AlertRulesAssumption DEF Owed
  <2> QED
    BY <2>1, <2>2, ToldStill
<1>8. r.pc \in {"files", "raise"} => LookedFor("RANSOMWARE_RATE", "source", r.knew)'
  <2> SUFFICES ASSUME r.pc \in {"files", "raise"} PROVE LookedFor("RANSOMWARE_RATE", "source", r.knew)'
    OBVIOUS
  <2>1. r.knew \in Nat /\ LookedFor("RANSOMWARE_RATE", "source", r.knew)
    BY PostFields DEF PostSound
  <2> QED
    BY <2>1, LookedForStill
<1>9. r.pc = "copying" => LookedFor("BULK_FILE_READ", "source", r.knew)'
  <2> SUFFICES ASSUME r.pc = "copying" PROVE LookedFor("BULK_FILE_READ", "source", r.knew)'
    OBVIOUS
  <2>1. r.knew \in Nat /\ LookedFor("BULK_FILE_READ", "source", r.knew)
    BY PostFields DEF PostSound
  <2> QED
    BY <2>1, LookedForStill
<1>10. r.pc \in {"raised", "noted", "told", "done"} => \A o \in r.owes : Told(o)'
  BY ToldStill DEF PostSound
<1>11. Quarantinable => Quarantinable'
  BY DEF Quarantinable
<1>12. /\ r.pc \in {"copied", "raised", "noted", "told"} => r.alert \in DOMAIN raisedAlerts'
       /\ r.pc \in {"raised", "noted"} => raisedAlerts'[r.alert].rule = "RANSOMWARE_RATE"
       /\ r.pc = "noted" => r.files # {} /\ MayQuarantine /\ "WEBHOOK_NOTIFICATION" \in raisedAlerts'[r.alert].actions
       /\ r.pc \in {"raise", "raised", "noted"} => (r.files # {} => Quarantinable')
  BY <1>11 DEF Grows, PostSound
<1> QED
  BY <1>1, <1>2, <1>3, <1>4, <1>5, <1>6, <1>7, <1>8, <1>9, <1>10, <1>12 DEF PostSound

LEMMA CheckStill ==
    ASSUME Grows, raisedAlerts \in Seq(AlertRow), Len(raisedAlerts') \in Nat, NEW r \in CheckState, CheckSound(r)
    PROVE  CheckSound(r)'
<1>1. DOMAIN raisedAlerts = 1..Len(raisedAlerts) /\ Len(raisedAlerts) \in Nat
  OBVIOUS
<1>2. r.pc \in {"note", "resolve"} => r.alert \in DOMAIN raisedAlerts'
  BY DEF CheckSound, Grows
<1>3. ASSUME r.pc = "raise"
      PROVE  /\ r.knew <= Len(raisedAlerts')
             /\ \A i \in 1..r.knew :
                   raisedAlerts'[i].rule = "AGENT_SILENT" /\ raisedAlerts'[i].of = r.agent => ~Live(raisedAlerts'[i])
  <2>1. r.knew \in Nat /\ r.knew <= Len(raisedAlerts)
    BY <1>3 DEF CheckState, AtSweep, CheckSound
  <2>2. \A i \in 1..r.knew : i \in DOMAIN raisedAlerts
    BY <1>1, <2>1
  <2>3. r.knew <= Len(raisedAlerts')
    BY <1>1, <2>1 DEF Grows
  <2> QED
    BY <1>3, <2>2, <2>3 DEF Grows, CheckSound
<1> QED
  BY <1>2, <1>3 DEF CheckSound

LEMMA DecisionStill == ASSUME Grows, NEW r, DecisionSound(r) PROVE DecisionSound(r)'
BY DEF Grows, DecisionSound

\* A step under which alerts grow leaves those sound it does not move.
LEMMA RulesStill ==
    ASSUME RulesIInv, Grows, RulesTyped', clock <= clock', Stored \subseteq Stored',
           \A p \in Posters : post'[p] = post[p] \/ PostSound(post[p])',
           \A s \in Sweeps : check'[s] = check[s] \/ CheckSound(check[s])',
           \A d \in Deciders : decision'[d] = decision[d] \/ DecisionSound(decision[d])'
    PROVE  /\ \A p \in Posters : PostSound(post[p])'
           /\ \A s \in Sweeps : CheckSound(check[s])'
           /\ \A d \in Deciders : DecisionSound(decision[d])'
<1>1. raisedAlerts \in Seq(AlertRow) /\ Len(raisedAlerts') \in Nat /\ clock \in Int /\ clock' \in Int
  BY DEF RulesIInv, RulesTyped
<1>2. ASSUME NEW p \in Posters PROVE PostSound(post[p])'
  <2>1. CASE post'[p] = post[p]
    <3>1. PICK r \in PostState : r = post[p] /\ PostSound(r)
      BY DEF RulesIInv, RulesTyped
    <3>2. PostSound(r)'
      BY <1>1, <3>1, PostStill
    <3> QED
      BY <2>1, <3>1, <3>2
  <2> QED
    BY <2>1
<1>3. ASSUME NEW s \in Sweeps PROVE CheckSound(check[s])'
  <2>1. CASE check'[s] = check[s]
    <3>1. PICK r \in CheckState : r = check[s] /\ CheckSound(r)
      BY DEF RulesIInv, RulesTyped
    <3>2. CheckSound(r)'
      BY <1>1, <3>1, CheckStill
    <3> QED
      BY <2>1, <3>1, <3>2
  <2> QED
    BY <2>1
<1>4. ASSUME NEW d \in Deciders PROVE DecisionSound(decision[d])'
  <2>1. CASE decision'[d] = decision[d]
    <3>1. PICK r : r = decision[d] /\ DecisionSound(r)
      BY DEF RulesIInv
    <3>2. DecisionSound(r)'
      BY <3>1, DecisionStill
    <3> QED
      BY <2>1, <3>1, <3>2
  <2> QED
    BY <2>1
<1> QED
  BY <1>2, <1>3, <1>4

-----------------------------------------------------------------------------
\* Requests and sweeps that leave the alerts as they are.
Points(r) == r.pc \in {"copied", "raised", "noted", "told"}

LEMMA ReadsOnly ==
    ASSUME RulesIInv, RulesTyped', raisedAlerts' = raisedAlerts, clock <= clock', Stored \subseteq Stored',
           \A p \in Posters : post'[p] = post[p] \/ (PostSound(post[p])' /\ ~Points(post[p])),
           \A s \in Sweeps : check'[s] = check[s] \/ (CheckSound(check[s])' /\ check[s].pc # "note"),
           \A d \in Deciders : decision'[d] = decision[d] \/ DecisionSound(decision[d])',
           cut' = cut
    PROVE  RulesIInv'
<1>1. Grows
  BY DEF Grows, RulesIInv, RulesTyped
<1>2. /\ \A p \in Posters : PostSound(post[p])'
      /\ \A s \in Sweeps : CheckSound(check[s])'
      /\ \A d \in Deciders : DecisionSound(decision[d])'
  BY <1>1, RulesStill
<1>3. RulesTypeOK' /\ OneAlertPerBurst'
  BY DEF RulesIInv, RulesTypeOK, OneAlertPerBurst
<1>4. AlertsAreActionable'
  <2>1. RaisedOnly \subseteq RaisedOnly'
    <3>1. \A p \in Posters : Points(post[p]) => post'[p] = post[p]
      OBVIOUS
    <3>2. \A s \in Sweeps : check[s].pc = "note" => check'[s] = check[s]
      OBVIOUS
    <3> QED
      BY <3>1, <3>2 DEF RaisedOnly, Points
  <2>2. Quarantinable => Quarantinable'
    BY DEF Quarantinable
  <2>3. \A i \in DOMAIN raisedAlerts \ (cut \cup RaisedOnly') : "WEBHOOK_NOTIFICATION" \in raisedAlerts[i].actions
    BY <2>1 DEF RulesIInv, AlertsAreActionable
  <2>4. \A i \in DOMAIN raisedAlerts : "FILE_QUARANTINE" \in raisedAlerts[i].actions =>
           raisedAlerts[i].rule = "RANSOMWARE_RATE" /\ MayQuarantine /\ Quarantinable'
    BY <2>2 DEF RulesIInv, AlertsAreActionable, Quarantinable
  <2> QED
    BY <2>3, <2>4 DEF AlertsAreActionable, Quarantinable
<1> QED
  BY <1>2, <1>3, <1>4 DEF RulesIInv

\* An alert raised: of its kind, after a look that found none.
RaisedAfterLook(rule, of, level, knew) ==
    /\ knew <= Len(raisedAlerts)
    /\ \A i \in 1..knew : raisedAlerts[i].rule = rule /\ raisedAlerts[i].of = of /\ Live(raisedAlerts[i]) =>
          raisedAlerts[i].at + Window < clock /\ rule # "AGENT_SILENT"
    /\ raisedAlerts' = Append(raisedAlerts, Alert(rule, of, level, knew))
    /\ clock' = clock /\ Stored' = Stored /\ cut' = cut

LEMMA Raised ==
    ASSUME RulesIInv, NEW rule \in FileRules \cup {"AGENT_SILENT"}, NEW of \in Subjects,
           NEW level \in {"MEDIUM", "HIGH", "CRITICAL"}, NEW knew \in Nat, RaisedAfterLook(rule, of, level, knew)
    PROVE  /\ Grows /\ raisedAlerts' \in Seq(AlertRow) /\ RulesTypeOK' /\ OneAlertPerBurst'
           /\ Len(raisedAlerts) + 1 \in DOMAIN raisedAlerts' /\ Len(raisedAlerts) + 1 \in Nat
           /\ raisedAlerts'[Len(raisedAlerts) + 1] = Alert(rule, of, level, knew)
           /\ (RaisedOnly \subseteq RaisedOnly' /\ Len(raisedAlerts) + 1 \in RaisedOnly') => AlertsAreActionable'
<1> USE DEF RulesIInv, RaisedAfterLook
<1>1. PICK n \in Nat : n = Len(raisedAlerts) /\ DOMAIN raisedAlerts = 1..n /\ raisedAlerts \in Seq(AlertRow)
  <2>1. raisedAlerts \in Seq(AlertRow)
    BY DEF RulesTyped
  <2> QED
    BY <2>1
<1>2. PICK a : a = Alert(rule, of, level, knew)
  OBVIOUS
<1>3. a \in AlertRow /\ a.rule = rule /\ a.of = of /\ a.at = clock /\ a.knew = knew /\ a.status = "OPEN"
      /\ ~a.resolved /\ a.actions = {} /\ clock \in Nat
  BY <1>2 DEF Alert, AlertRow, RulesTyped
<1>4. /\ raisedAlerts' \in Seq(AlertRow) /\ DOMAIN raisedAlerts' = 1..(n + 1) /\ Len(raisedAlerts') = n + 1
      /\ raisedAlerts'[n + 1] = a /\ \A i \in 1..n : raisedAlerts'[i] = raisedAlerts[i]
  BY <1>1, <1>2, <1>3
<1>5. \A i \in DOMAIN raisedAlerts' : i \in 1..n \/ i = n + 1
  BY <1>4
<1>6. Grows
  BY <1>1, <1>4 DEF Grows
<1>7. RulesTypeOK'
  BY <1>1, <1>3, <1>4, <1>5 DEF RulesTypeOK, FileRules
<1>8. OneAlertPerBurst'
  <2> SUFFICES ASSUME NEW i \in DOMAIN raisedAlerts', NEW j \in DOMAIN raisedAlerts', i < j,
                      raisedAlerts'[i].rule = raisedAlerts'[j].rule, raisedAlerts'[i].of = raisedAlerts'[j].of,
                      raisedAlerts'[i].status = "OPEN", raisedAlerts'[j].status = "OPEN",
                      ~raisedAlerts'[i].touched, ~raisedAlerts'[j].touched,
                      raisedAlerts'[j].at - raisedAlerts'[i].at <= Window \/ raisedAlerts'[i].rule = "AGENT_SILENT"
               PROVE  raisedAlerts'[j].knew < i
    BY DEF OneAlertPerBurst
  <2>1. i \in 1..n
    BY <1>4
  <2>2. CASE j \in 1..n
    BY <1>1, <1>4, <2>1, <2>2 DEF OneAlertPerBurst
  <2>3. CASE j = n + 1
    <3>1. raisedAlerts'[i] = raisedAlerts[i] /\ raisedAlerts'[j] = a /\ Live(raisedAlerts[i])
      BY <1>4, <2>1, <2>3 DEF Live
    <3>2. raisedAlerts[i].at \in Nat /\ Window \in Nat
      <4>1. raisedAlerts[i] \in AlertRow
        BY <1>1, <2>1
      <4> QED
        BY <4>1, AlertRulesAssumption DEF AlertRow
    <3>3. ASSUME i <= knew PROVE FALSE
      <4>1. i \in 1..knew
        BY <2>1, <3>3
      <4>2. raisedAlerts[i].at + Window < clock /\ rule # "AGENT_SILENT"
        BY <1>3, <3>1, <4>1
      <4>3. clock - raisedAlerts[i].at <= Window
        BY <1>3, <3>1, <4>2
      <4> QED
        BY <1>3, <3>2, <4>2, <4>3
    <3> QED
      BY <1>3, <2>1, <3>1, <3>3
  <2> QED
    BY <1>5, <2>2, <2>3
<1>9. ASSUME RaisedOnly \subseteq RaisedOnly', n + 1 \in RaisedOnly' PROVE AlertsAreActionable'
  <2>1. ASSUME NEW i \in DOMAIN raisedAlerts', i \notin cut, i \notin RaisedOnly'
        PROVE  "WEBHOOK_NOTIFICATION" \in raisedAlerts'[i].actions
    <3>1. i \in 1..n /\ raisedAlerts'[i] = raisedAlerts[i] /\ i \notin RaisedOnly
      BY <1>4, <1>5, <1>9, <2>1
    <3> QED
      BY <1>1, <2>1, <3>1 DEF AlertsAreActionable
  <2>2. ASSUME NEW i \in DOMAIN raisedAlerts', "FILE_QUARANTINE" \in raisedAlerts'[i].actions
        PROVE  raisedAlerts'[i].rule = "RANSOMWARE_RATE" /\ MayQuarantine /\ Quarantinable
    <3>1. i \in 1..n /\ raisedAlerts'[i] = raisedAlerts[i]
      BY <1>3, <1>4, <1>5, <2>2
    <3> QED
      BY <1>1, <2>2, <3>1 DEF AlertsAreActionable, Quarantinable
  <2> QED
    BY <2>1, <2>2 DEF AlertsAreActionable, Quarantinable
<1> QED
  BY <1>1, <1>2, <1>4, <1>6, <1>7, <1>8, <1>9

\* An alert changed: its status by people or the sweep, or a suggestion added.
LEMMA Changed ==
    ASSUME RulesIInv, NEW k \in DOMAIN raisedAlerts, NEW a \in AlertRow,
           a.rule = raisedAlerts[k].rule, a.of = raisedAlerts[k].of, a.at = raisedAlerts[k].at, a.knew = raisedAlerts[k].knew,
           Live(a) => Live(raisedAlerts[k]), raisedAlerts[k].actions \subseteq a.actions,
           raisedAlerts[k].acknowledged => a.acknowledged,
           a.status = "OPEN" => ~a.resolved, a.resolved => a.acknowledged,
           raisedAlerts' = [raisedAlerts EXCEPT ![k] = a], clock' = clock, Stored' = Stored, cut' = cut
    PROVE  /\ Grows /\ raisedAlerts' \in Seq(AlertRow) /\ RulesTypeOK' /\ OneAlertPerBurst'
           /\ DOMAIN raisedAlerts' = DOMAIN raisedAlerts
           /\ (/\ \A i \in RaisedOnly \ RaisedOnly' : i = k => "WEBHOOK_NOTIFICATION" \in a.actions
               /\ \A i \in RaisedOnly \ RaisedOnly' : i = k \/ "WEBHOOK_NOTIFICATION" \in raisedAlerts[i].actions
               /\ "FILE_QUARANTINE" \in a.actions =>
                     \/ "FILE_QUARANTINE" \in raisedAlerts[k].actions
                     \/ a.rule = "RANSOMWARE_RATE" /\ MayQuarantine /\ Quarantinable)
              => AlertsAreActionable'
<1> USE DEF RulesIInv
<1>1. PICK n \in Nat : n = Len(raisedAlerts) /\ DOMAIN raisedAlerts = 1..n /\ raisedAlerts \in Seq(AlertRow)
  <2>1. raisedAlerts \in Seq(AlertRow)
    BY DEF RulesTyped
  <2> QED
    BY <2>1
<1>2. /\ raisedAlerts' \in Seq(AlertRow) /\ DOMAIN raisedAlerts' = 1..n /\ Len(raisedAlerts') = n
      /\ raisedAlerts'[k] = a /\ \A i \in 1..n : i # k => raisedAlerts'[i] = raisedAlerts[i]
  BY <1>1
<1>3. Grows
  BY <1>1, <1>2 DEF Grows
<1>4. RulesTypeOK'
  <2>1. a.rule \in {"COPY_TO_REMOVABLE", "RANSOMWARE_RATE", "BULK_FILE_READ", "AGENT_SILENT"}
        /\ a.status \in {"OPEN", "ACKNOWLEDGED", "RESOLVED"}
    BY DEF AlertRow, FileRules
  <2> QED
    BY <1>1, <1>2, <2>1 DEF RulesTypeOK
<1>5. OneAlertPerBurst'
  <2> SUFFICES ASSUME NEW i \in DOMAIN raisedAlerts', NEW j \in DOMAIN raisedAlerts', i < j,
                      raisedAlerts'[i].rule = raisedAlerts'[j].rule, raisedAlerts'[i].of = raisedAlerts'[j].of,
                      raisedAlerts'[i].status = "OPEN", raisedAlerts'[j].status = "OPEN",
                      ~raisedAlerts'[i].touched, ~raisedAlerts'[j].touched,
                      raisedAlerts'[j].at - raisedAlerts'[i].at <= Window \/ raisedAlerts'[i].rule = "AGENT_SILENT"
               PROVE  raisedAlerts'[j].knew < i
    BY DEF OneAlertPerBurst
  <2>1. \A m \in {i, j} : /\ m \in 1..n /\ raisedAlerts'[m].rule = raisedAlerts[m].rule
                          /\ raisedAlerts'[m].of = raisedAlerts[m].of /\ raisedAlerts'[m].at = raisedAlerts[m].at
                          /\ raisedAlerts'[m].knew = raisedAlerts[m].knew
                          /\ raisedAlerts[m].status = "OPEN" /\ ~raisedAlerts[m].touched
    BY <1>1, <1>2 DEF Live
  <2> QED
    BY <1>1, <2>1 DEF OneAlertPerBurst
<1>6. ASSUME \A i \in RaisedOnly \ RaisedOnly' : i = k => "WEBHOOK_NOTIFICATION" \in a.actions,
             \A i \in RaisedOnly \ RaisedOnly' : i = k \/ "WEBHOOK_NOTIFICATION" \in raisedAlerts[i].actions,
             "FILE_QUARANTINE" \in a.actions =>
                \/ "FILE_QUARANTINE" \in raisedAlerts[k].actions
                \/ a.rule = "RANSOMWARE_RATE" /\ MayQuarantine /\ Quarantinable
      PROVE  AlertsAreActionable'
  <2>1. ASSUME NEW i \in DOMAIN raisedAlerts', i \notin cut, i \notin RaisedOnly'
        PROVE  "WEBHOOK_NOTIFICATION" \in raisedAlerts'[i].actions
    <3>1. CASE i \in RaisedOnly
      BY <1>2, <1>6, <2>1, <3>1
    <3>2. CASE i \notin RaisedOnly
      <4>1. "WEBHOOK_NOTIFICATION" \in raisedAlerts[i].actions
        BY <1>1, <1>2, <2>1, <3>2 DEF AlertsAreActionable
      <4> QED
        BY <1>2, <2>1, <4>1
    <3> QED
      BY <3>1, <3>2
  <2>2. ASSUME NEW i \in DOMAIN raisedAlerts', "FILE_QUARANTINE" \in raisedAlerts'[i].actions
        PROVE  raisedAlerts'[i].rule = "RANSOMWARE_RATE" /\ MayQuarantine /\ Quarantinable
    <3>1. CASE "FILE_QUARANTINE" \in raisedAlerts[i].actions
      <4>1. raisedAlerts[i].rule = "RANSOMWARE_RATE" /\ MayQuarantine /\ Quarantinable
        BY <1>1, <1>2, <3>1 DEF AlertsAreActionable, Quarantinable
      <4> QED
        BY <1>2, <4>1
    <3>2. CASE "FILE_QUARANTINE" \notin raisedAlerts[i].actions
      BY <1>2, <1>6, <2>2, <3>2
    <3> QED
      BY <3>1, <3>2
  <2> QED
    BY <2>1, <2>2 DEF AlertsAreActionable, Quarantinable
<1> QED
  BY <1>1, <1>2, <1>3, <1>4, <1>5, <1>6

-----------------------------------------------------------------------------
\* What a request does to itself alone.
LEMMA PostMoves ==
    ASSUME RulesIInv, NEW p \in Posters, NEW r \in PostState, Becomes(p, r), OnlyPost,
           PostSound(r), ~Points(post[p])
    PROVE  RulesIInv'
<1>1. post \in [Posters -> PostState] /\ post' = [post EXCEPT ![p] = r]
  BY DEF RulesIInv, RulesTyped, Becomes
<1>2. UNCHANGED <<clock, occurred, reads, raisedAlerts, quiet, check, decision, cut>> /\ Stored' = Stored
  BY DEF OnlyPost, RestOfPost, Stored
<1>3. RulesTyped'
  BY <1>1, <1>2 DEF RulesIInv, RulesTyped
<1>4. PostSound(r)'
  <2>1. Grows
    BY <1>2 DEF Grows, RulesIInv, RulesTyped
  <2> QED
    BY <1>2, <2>1, PostStill DEF RulesIInv, RulesTyped
<1>5. \A q \in Posters : post'[q] = post[q] \/ (PostSound(post[q])' /\ ~Points(post[q]))
  BY <1>1, <1>4
<1> QED
  BY <1>2, <1>3, <1>5, ReadsOnly DEF RulesIInv, RulesTyped

\* What is owed, given what was told.
LEMMA PostStates ==
    /\ Waiting \in PostState /\ PostSound(Waiting)
    /\ \A es \in SUBSET Changes : [pc |-> "store", todo |-> es] \in PostState /\ PostSound([pc |-> "store", todo |-> es])
    /\ \A u \in Readers : [pc |-> "reads", user |-> u] \in PostState /\ PostSound([pc |-> "reads", user |-> u])
    /\ \A owes \in SUBSET Owed : Done(owes) \in PostState /\ ((\A o \in owes : Told(o)) => PostSound(Done(owes)))
    /\ \A r \in AtDevices : r \in PostState /\ (AtDevicesSound(r, {}) => PostSound(r))
<1>1. Waiting \in PostState /\ PostSound(Waiting)
  BY DEF Waiting, PostState, PostSound
<1>2. ASSUME NEW es \in SUBSET Changes
      PROVE  [pc |-> "store", todo |-> es] \in PostState /\ PostSound([pc |-> "store", todo |-> es])
  BY DEF PostState, PostSound
<1>3. ASSUME NEW u \in Readers
      PROVE  [pc |-> "reads", user |-> u] \in PostState /\ PostSound([pc |-> "reads", user |-> u])
  BY DEF PostState, PostSound
<1>4. ASSUME NEW owes \in SUBSET Owed
      PROVE  Done(owes) \in PostState /\ ((\A o \in owes : Told(o)) => PostSound(Done(owes)))
  BY DEF PostState, PostSound, Done
<1>5. ASSUME NEW r \in AtDevices PROVE r \in PostState /\ (AtDevicesSound(r, {}) => PostSound(r))
  BY DEF PostState, AtDevices, PostSound
<1> QED
  BY <1>1, <1>2, <1>3, <1>4, <1>5

\* A request that raises an alert points to it from then on.
LEMMA PostRaises ==
    ASSUME RulesIInv, NEW p \in Posters, NEW rule \in FileRules, NEW of \in Subjects,
           NEW level \in {"MEDIUM", "HIGH", "CRITICAL"}, NEW r \in PostState,
           RaisesAlert(p, rule, of, level, r), post[p].knew \in Nat, LookedFor(rule, of, post[p].knew),
           ~Points(post[p]), Points(r), r.alert = Len(raisedAlerts) + 1,
           Grows /\ raisedAlerts'[Len(raisedAlerts) + 1] = Alert(rule, of, level, post[p].knew)
             /\ Len(raisedAlerts) + 1 \in DOMAIN raisedAlerts' => PostSound(r)'
    PROVE  RulesIInv'
<1>1. PICK knew \in Nat : knew = post[p].knew
  OBVIOUS
<1>2. /\ raisedAlerts' = Append(raisedAlerts, Alert(rule, of, level, knew)) /\ post' = [post EXCEPT ![p] = r]
      /\ UNCHANGED <<clock, occurred, reads, quiet, check, decision, cut>> /\ Stored' = Stored
  BY <1>1 DEF RaisesAlert, Becomes, RestOfPost, Stored
<1>3. /\ knew <= Len(raisedAlerts)
      /\ \A i \in 1..knew : raisedAlerts[i].rule = rule /\ raisedAlerts[i].of = of /\ Live(raisedAlerts[i]) =>
            raisedAlerts[i].at + Window < clock /\ rule # "AGENT_SILENT"
  BY <1>1 DEF LookedFor, FileRules
<1>4. /\ Grows /\ raisedAlerts' \in Seq(AlertRow) /\ RulesTypeOK' /\ OneAlertPerBurst'
      /\ Len(raisedAlerts) + 1 \in DOMAIN raisedAlerts' /\ Len(raisedAlerts) + 1 \in Nat
      /\ raisedAlerts'[Len(raisedAlerts) + 1] = Alert(rule, of, level, knew)
      /\ (RaisedOnly \subseteq RaisedOnly' /\ Len(raisedAlerts) + 1 \in RaisedOnly') => AlertsAreActionable'
  <2>1. RaisedAfterLook(rule, of, level, knew)
    BY <1>2, <1>3 DEF RaisedAfterLook
  <2> QED
    BY <2>1, Raised
<1>5. post \in [Posters -> PostState]
  BY DEF RulesIInv, RulesTyped
<1>6. RulesTyped'
  BY <1>2, <1>4, <1>5 DEF RulesIInv, RulesTyped
<1>7. PostSound(post[p])' /\ \A q \in Posters \ {p} : post'[q] = post[q]
  BY <1>1, <1>2, <1>4, <1>5
<1>8. /\ \A q \in Posters : PostSound(post[q])'
      /\ \A s \in Sweeps : CheckSound(check[s])'
      /\ \A d \in Deciders : DecisionSound(decision[d])'
  <2>1. \A q \in Posters : post'[q] = post[q] \/ PostSound(post[q])'
    BY <1>7
  <2>2. clock <= clock'
    BY <1>2 DEF RulesIInv, RulesTyped
  <2> QED
    BY <1>2, <1>4, <1>6, <2>1, <2>2, RulesStill
<1>9. RaisedOnly \subseteq RaisedOnly' /\ Len(raisedAlerts) + 1 \in RaisedOnly'
  <2>1. \A q \in Posters : Points(post[q]) => Points(post'[q]) /\ post'[q].alert = post[q].alert
    BY <1>7
  <2>2. post'[p] = r
    BY <1>2, <1>5
  <2> QED
    BY <1>2, <2>1, <2>2 DEF RaisedOnly, Points
<1> QED
  BY <1>4, <1>6, <1>8, <1>9 DEF RulesIInv

\* A request that suggests something for its alert and goes on.
LEMMA PostSuggests ==
    ASSUME RulesIInv, NEW p \in Posters, NEW type \in {"WEBHOOK_NOTIFICATION", "FILE_QUARANTINE"}, NEW r \in PostState,
           Points(post[p]), Suggests(p, type, r), type = "FILE_QUARANTINE" => post[p].pc = "noted",
           \/ PostSound(r)
           \/ /\ post[p].pc = "raised" /\ r.pc = "noted" /\ type = "WEBHOOK_NOTIFICATION"
              /\ r.alert = post[p].alert /\ r.files = post[p].files /\ r.owes = post[p].owes
              /\ r.files # {} /\ MayQuarantine
    PROVE  RulesIInv'
<1>1. PICK y \in PostState : y = post[p] /\ PostSound(y) /\ Points(y)
  BY DEF RulesIInv, RulesTyped
<1>2. PICK k \in DOMAIN raisedAlerts : k = y.alert
  BY <1>1 DEF PostSound, Points
<1>3. PICK old \in AlertRow : old = raisedAlerts[k]
  BY DEF RulesIInv, RulesTyped
<1>4. PICK a : a = [old EXCEPT !.actions = @ \cup {type}]
  OBVIOUS
<1>5. /\ a \in AlertRow /\ a.rule = old.rule /\ a.of = old.of /\ a.at = old.at /\ a.knew = old.knew
      /\ a.status = old.status /\ a.touched = old.touched /\ a.resolved = old.resolved /\ a.acknowledged = old.acknowledged
      /\ a.actions = old.actions \cup {type}
  BY <1>4 DEF AlertRow
<1>6. /\ raisedAlerts' = [raisedAlerts EXCEPT ![k] = a] /\ post' = [post EXCEPT ![p] = r]
      /\ UNCHANGED <<clock, occurred, reads, quiet, check, decision, cut>> /\ Stored' = Stored
  <2>1. raisedAlerts' = [raisedAlerts EXCEPT ![k].actions = @ \cup {type}]
    BY <1>1, <1>2 DEF Suggests
  <2> QED
    BY <1>3, <1>4, <2>1 DEF Suggests, Becomes, RestOfPost, Stored
<1>7. Live(a) <=> Live(old)
  BY <1>5 DEF Live
<1>8. old.status = "OPEN" => ~old.resolved
  BY <1>3 DEF RulesIInv, RulesTypeOK
<1>9. old.resolved => old.acknowledged
  BY <1>3 DEF RulesIInv, RulesTypeOK
<1>10. /\ Grows /\ raisedAlerts' \in Seq(AlertRow) /\ RulesTypeOK' /\ OneAlertPerBurst'
       /\ DOMAIN raisedAlerts' = DOMAIN raisedAlerts
       /\ (/\ \A i \in RaisedOnly \ RaisedOnly' : i = k => "WEBHOOK_NOTIFICATION" \in a.actions
           /\ \A i \in RaisedOnly \ RaisedOnly' : i = k \/ "WEBHOOK_NOTIFICATION" \in raisedAlerts[i].actions
           /\ "FILE_QUARANTINE" \in a.actions =>
                 \/ "FILE_QUARANTINE" \in raisedAlerts[k].actions
                 \/ a.rule = "RANSOMWARE_RATE" /\ MayQuarantine /\ Quarantinable)
          => AlertsAreActionable'
  BY <1>3, <1>5, <1>6, <1>7, <1>8, <1>9, Changed
<1>11. post \in [Posters -> PostState] /\ raisedAlerts'[k] = a
  BY <1>6 DEF RulesIInv, RulesTyped
<1>12. RulesTyped'
  BY <1>6, <1>10, <1>11 DEF RulesIInv, RulesTyped
<1>13. PostSound(r)'
  <2>1. CASE PostSound(r)
    BY <1>6, <1>10, <2>1, PostStill DEF RulesIInv, RulesTyped
  <2>2. CASE ~PostSound(r)
    <3>1. /\ y.pc = "raised" /\ r.pc = "noted" /\ type = "WEBHOOK_NOTIFICATION"
          /\ r.alert = k /\ r.files # {} /\ r.owes = y.owes /\ r.files = y.files /\ MayQuarantine
      BY <1>1, <1>2, <2>2
    <3>2. old.rule = "RANSOMWARE_RATE" /\ Quarantinable /\ \A o \in y.owes : Told(o)
      BY <1>1, <1>2, <1>3, <3>1 DEF PostSound
    <3>3. \A o \in r.owes : Told(o)'
      BY <1>10, <3>1, <3>2, ToldStill
    <3>4. Quarantinable'
      BY <1>6, <3>2 DEF Quarantinable
    <3>5. k \in DOMAIN raisedAlerts' /\ raisedAlerts'[k].rule = "RANSOMWARE_RATE" /\ "WEBHOOK_NOTIFICATION" \in raisedAlerts'[k].actions
      BY <1>5, <1>10, <1>11, <3>1, <3>2
    <3> QED
      BY <3>1, <3>3, <3>4, <3>5 DEF PostSound
  <2> QED
    BY <2>1, <2>2
<1>14. post'[p] = r /\ \A q \in Posters \ {p} : post'[q] = post[q]
  BY <1>6, <1>11
<1>15. /\ \A q \in Posters : PostSound(post[q])'
       /\ \A s \in Sweeps : CheckSound(check[s])'
       /\ \A d \in Deciders : DecisionSound(decision[d])'
  <2>1. \A q \in Posters : post'[q] = post[q] \/ PostSound(post[q])'
    BY <1>13, <1>14
  <2>2. clock <= clock'
    BY <1>6 DEF RulesIInv, RulesTyped
  <2> QED
    BY <1>6, <1>10, <1>12, <2>1, <2>2, RulesStill
<1>16. \A i \in RaisedOnly \ RaisedOnly' : i = k
  BY <1>1, <1>2, <1>6, <1>14 DEF RaisedOnly, Points
<1>17. "WEBHOOK_NOTIFICATION" \in a.actions
  BY <1>1, <1>2, <1>3, <1>5 DEF PostSound
<1>18. type = "FILE_QUARANTINE" => a.rule = "RANSOMWARE_RATE" /\ MayQuarantine /\ Quarantinable
  BY <1>1, <1>2, <1>3, <1>5 DEF PostSound
<1>19. AlertsAreActionable'
  BY <1>3, <1>5, <1>10, <1>16, <1>17, <1>18
<1> QED
  BY <1>10, <1>12, <1>15, <1>19 DEF RulesIInv

-----------------------------------------------------------------------------
\* A look for an alert of a kind: there is one that tells it, or none that is
\* live is recent.
LEMMA Looks ==
    ASSUME RulesIInv, NEW rule, NEW of, NEW since \in Int, since + Window <= clock
    PROVE  /\ AlreadyOpen(rule, of, since) => \A o : o.rule = rule /\ o.of = of /\ o.since = since => Told(o)
           /\ ~AlreadyOpen(rule, of, since) => LookedFor(rule, of, Len(raisedAlerts))
<1>1. PICK n \in Nat : n = Len(raisedAlerts) /\ DOMAIN raisedAlerts = 1..n
  <2>1. raisedAlerts \in Seq(AlertRow)
    BY DEF RulesIInv, RulesTyped
  <2> QED
    BY <2>1
<1>2. ASSUME AlreadyOpen(rule, of, since), NEW o, o.rule = rule, o.of = of, o.since = since PROVE Told(o)
  BY <1>2 DEF AlreadyOpen, Told
<1>3. ASSUME ~AlreadyOpen(rule, of, since), NEW i \in 1..n,
             raisedAlerts[i].rule = rule, raisedAlerts[i].of = of, Live(raisedAlerts[i])
      PROVE  raisedAlerts[i].at + Window < clock
  <2>1. ~(raisedAlerts[i].at >= since)
    BY <1>1, <1>3 DEF AlreadyOpen, Live
  <2>2. raisedAlerts[i] \in AlertRow
    BY <1>1 DEF RulesIInv, RulesTyped
  <2>3. raisedAlerts[i].at \in Nat /\ Window \in Nat /\ clock \in Nat
    BY <2>2, AlertRulesAssumption DEF AlertRow, RulesIInv, RulesTyped
  <2> QED
    BY <2>1, <2>3
<1>4. ~AlreadyOpen(rule, of, since) => LookedFor(rule, of, n)
  BY <1>1, <1>3 DEF LookedFor
<1> QED
  BY <1>1, <1>2, <1>4

\* What was found this instant is owed from its window on.
LEMMA Bursts ==
    ASSUME RulesIInv
    PROVE  /\ Since \in Int /\ Since + Window <= clock
           /\ \A rule \in FileRules, of \in Subjects :
                 /\ Burst(rule, of) \in Owed
                 /\ Burst(rule, of).rule = rule /\ Burst(rule, of).of = of /\ Burst(rule, of).since = Since
<1>1. Since \in Int /\ Since + Window <= clock
  BY AlertRulesAssumption DEF RulesIInv, RulesTyped, Since
<1> QED
  BY <1>1 DEF Burst, Owed

LEMMA StoreStep ==
    ASSUME RulesIInv, NEW p \in Posters, post[p].pc = "store", NEW e \in post[p].todo, NEW at, StoreChange(p, e, at)
    PROVE  RulesIInv'
<1>1. PICK y \in PostState : y = post[p]
  BY DEF RulesIInv, RulesTyped
<1>2. y \in [pc : {"store"}, todo : SUBSET Changes]
  BY <1>1, PostFields
<1>3. PICK r : r = [y EXCEPT !.todo = @ \ {e}]
  OBVIOUS
<1>4. r \in [pc : {"store"}, todo : SUBSET Changes]
  BY <1>2, <1>3
<1>5. r \in PostState /\ PostSound(r)' /\ r.pc = "store"
  BY <1>4 DEF PostState, PostSound
<1>6. post \in [Posters -> PostState] /\ post' = [post EXCEPT ![p] = r]
  BY <1>1, <1>3 DEF RulesIInv, RulesTyped, StoreChange, Becomes
<1>7. UNCHANGED <<clock, reads, raisedAlerts, quiet, check, decision, cut>> /\ Stored' = Stored \cup {e}
  BY DEF StoreChange, RestOfPost, Stored
<1>8. e \in Changes /\ IsFiniteSet(Stored \cup {e})
  BY <1>1, <1>2, FS_AddElement DEF RulesIInv, RulesTyped
<1>9. RulesTyped'
  BY <1>5, <1>6, <1>7, <1>8 DEF RulesIInv, RulesTyped
<1>10. \A q \in Posters : post'[q] = post[q] \/ (PostSound(post[q])' /\ ~Points(post[q]))
  BY <1>1, <1>2, <1>5, <1>6 DEF Points
<1> QED
  BY <1>7, <1>9, <1>10, ReadsOnly DEF RulesIInv, RulesTyped

LEMMA ArrivalsStep ==
    ASSUME RulesIInv, NEW p \in Posters, ReadArrivals(p) PROVE RulesIInv'
<1>1. PICK sample \in SUBSET Arrivals :
         Becomes(p, [pc |-> "devices", todo |-> Devices(sample), since |-> Since,
                     owes |-> {Burst("COPY_TO_REMOVABLE", ChangeOf[e].volume) : e \in sample}])
  BY DEF ReadArrivals
<1>2. sample \subseteq Changes
  BY DEF Arrivals, RulesIInv, RulesTyped
<1>3. PICK owes : owes = {Burst("COPY_TO_REMOVABLE", ChangeOf[e].volume) : e \in sample}
  OBVIOUS
<1>4. \A o \in owes : /\ o \in Owed /\ o.rule = "COPY_TO_REMOVABLE" /\ o.of \in Devices(sample) /\ o.since = Since
  <2> SUFFICES ASSUME NEW o \in owes
               PROVE  o \in Owed /\ o.rule = "COPY_TO_REMOVABLE" /\ o.of \in Devices(sample) /\ o.since = Since
    OBVIOUS
  <2>1. PICK e \in sample : o = Burst("COPY_TO_REMOVABLE", ChangeOf[e].volume)
    BY <1>3
  <2>2. ChangeOf[e].volume \in Subjects /\ ChangeOf[e].volume \in Devices(sample)
    BY <1>2, <2>1 DEF Subjects, Volumes, Devices
  <2> QED
    BY <2>1, <2>2, Bursts DEF FileRules
<1>5. PICK r : r = [pc |-> "devices", todo |-> Devices(sample), since |-> Since, owes |-> owes]
  OBVIOUS
<1>6. Devices(sample) \subseteq Volumes
  BY <1>2 DEF Devices, Volumes
<1>7. r \in AtDevices
  BY <1>4, <1>5, <1>6, Bursts DEF AtDevices
<1>8. AtDevicesSound(r, {})
  BY <1>4, <1>5, Bursts DEF AtDevicesSound, Owes
<1>9. r \in PostState /\ PostSound(r)
  BY <1>7, <1>8, PostStates
<1>10. Becomes(p, r) /\ OnlyPost /\ ~Points(post[p])
  BY <1>1, <1>3, <1>5 DEF ReadArrivals, Points
<1> QED
  BY <1>9, <1>10, PostMoves

LEMMA LookForCopyStep ==
    ASSUME RulesIInv, NEW p \in Posters, post[p].pc = "devices", NEW v \in post[p].todo, LookForCopy(p, v)
    PROVE  RulesIInv'
<1>1. PICK y \in PostState : y = post[p] /\ PostSound(y)
  BY DEF RulesIInv, RulesTyped
<1>2. y \in AtDevices /\ AtDevicesSound(y, {})
  BY <1>1, PostFields DEF PostSound
<1>3. PICK next : next = [y EXCEPT !.todo = @ \ {v}]
  OBVIOUS
<1>4. next \in AtDevices /\ next.todo = y.todo \ {v} /\ next.since = y.since /\ next.owes = y.owes
  BY <1>2, <1>3 DEF AtDevices
<1>5. v \in Volumes /\ y.since \in Int /\ y.since + Window <= clock /\ y.owes \in SUBSET Owed
      /\ Owes(y.owes, "COPY_TO_REMOVABLE", y.todo, y.since)
  BY <1>1, <1>2 DEF AtDevices, AtDevicesSound
<1>6. AtDevicesSound(next, {v})
  <2>1. y.todo \subseteq (next.todo \cup {v})
    BY <1>4
  <2> QED
    BY <1>4, <1>5, <2>1 DEF AtDevicesSound, Owes
<1>7. ~Points(post[p]) /\ OnlyPost
  BY DEF Points, LookForCopy
<1>8. CASE AlreadyOpen("COPY_TO_REMOVABLE", v, y.since)
  <2>1. \A o : o.rule = "COPY_TO_REMOVABLE" /\ o.of = v /\ o.since = y.since => Told(o)
    BY <1>5, <1>8, Looks
  <2>2. AtDevicesSound(next, {})
    BY <1>4, <1>5, <2>1 DEF AtDevicesSound, Owes
  <2>3. Becomes(p, next)
    BY <1>1, <1>3, <1>8 DEF LookForCopy
  <2>4. next \in PostState /\ PostSound(next)
    BY <1>4, <2>2, PostStates
  <2> QED
    BY <1>7, <2>3, <2>4, PostMoves
<1>9. CASE ~AlreadyOpen("COPY_TO_REMOVABLE", v, y.since)
  <2>1. PICK n : n = Len(raisedAlerts)
    OBVIOUS
  <2>2. LookedFor("COPY_TO_REMOVABLE", v, n) /\ n \in Nat
    BY <1>5, <1>9, <2>1, Looks DEF RulesIInv, RulesTyped
  <2>3. PICK r : r = [pc |-> "copy", device |-> v, knew |-> n, next |-> next]
    OBVIOUS
  <2>4. r \in PostState /\ PostSound(r)
    BY <1>4, <1>5, <1>6, <2>2, <2>3 DEF PostState, PostSound
  <2>5. Becomes(p, r)
    BY <1>1, <1>3, <1>9, <2>1, <2>3 DEF LookForCopy
  <2> QED
    BY <1>7, <2>4, <2>5, PostMoves
<1> QED
  BY <1>8, <1>9

LEMMA CountChangesStep ==
    ASSUME RulesIInv, NEW p \in Posters, CountChanges(p) PROVE RulesIInv'
<1>1. PICK y \in PostState : y = post[p] /\ PostSound(y) /\ y.pc = "devices" /\ y.todo = {}
  BY DEF RulesIInv, RulesTyped, CountChanges
<1>2. y.owes \in SUBSET Owed /\ \A o \in y.owes : o.since + Window <= clock /\ Told(o)
  BY <1>1, PostFields DEF PostSound, AtDevices, AtDevicesSound, Owes
<1>3. PICK n \in Nat : n = Cardinality(Counted)
  <2>1. IsFiniteSet(Counted)
    BY FS_Subset DEF RulesIInv, RulesTyped, Counted
  <2> QED
    BY <2>1, FS_CardinalityType
<1>4. PICK owes : owes = y.owes \cup (IF n >= Threshold THEN {Burst("RANSOMWARE_RATE", "source")} ELSE {})
  OBVIOUS
<1>5. ~Points(post[p]) /\ OnlyPost
  BY DEF Points, CountChanges
<1>6. Threshold \in Nat
  BY AlertRulesAssumption
<1>7. IF n < Threshold THEN Becomes(p, Done(owes))
      ELSE Becomes(p, [pc |-> "rate", since |-> Since, owes |-> owes])
  BY <1>1, <1>3, <1>4 DEF CountChanges, Counted
<1>8. CASE n < Threshold
  <2>1. owes = y.owes
    BY <1>4, <1>6, <1>8
  <2>2. Done(owes) \in PostState /\ PostSound(Done(owes))
    BY <1>2, <2>1, PostStates
  <2> QED
    BY <1>5, <1>7, <1>8, <2>2, PostMoves
<1>9. CASE ~(n < Threshold)
  <2>1. PICK b : b = Burst("RANSOMWARE_RATE", "source")
    OBVIOUS
  <2>2. b \in Owed /\ b.rule = "RANSOMWARE_RATE" /\ b.of = "source" /\ b.since = Since
    BY <2>1, Bursts DEF FileRules, Subjects
  <2>3. owes \subseteq y.owes \cup {b}
    BY <1>4, <2>1
  <2>4. PICK r : r = [pc |-> "rate", since |-> Since, owes |-> owes]
    OBVIOUS
  <2>5. r \in PostState
    BY <1>2, <2>2, <2>3, <2>4, Bursts DEF PostState
  <2>6. Owes(owes, "RANSOMWARE_RATE", {"source"}, Since)
    BY <1>2, <2>2, <2>3, Bursts DEF Owes
  <2>7. PostSound(r)
    BY <2>4, <2>6, Bursts DEF PostSound
  <2> QED
    BY <1>5, <1>7, <1>9, <2>4, <2>5, <2>7, PostMoves
<1> QED
  BY <1>8, <1>9

LEMMA LookForRateStep ==
    ASSUME RulesIInv, NEW p \in Posters, LookForRate(p) PROVE RulesIInv'
<1>1. PICK y \in PostState : y = post[p] /\ PostSound(y) /\ y.pc = "rate"
  BY DEF RulesIInv, RulesTyped, LookForRate
<1>2. /\ y.owes \in SUBSET Owed /\ y.since \in Int /\ y.since + Window <= clock
      /\ Owes(y.owes, "RANSOMWARE_RATE", {"source"}, y.since)
  BY <1>1, PostFields DEF PostSound
<1>3. ~Points(post[p]) /\ OnlyPost
  BY DEF Points, LookForRate
<1>4. CASE AlreadyOpen("RANSOMWARE_RATE", "source", y.since)
  <2>1. \A o : o.rule = "RANSOMWARE_RATE" /\ o.of = "source" /\ o.since = y.since => Told(o)
    BY <1>2, <1>4, Looks
  <2>2. \A o \in y.owes : Told(o)
    BY <1>2, <2>1 DEF Owes
  <2>3. Done(y.owes) \in PostState /\ PostSound(Done(y.owes))
    BY <1>2, <2>2, PostStates
  <2>4. Becomes(p, Done(y.owes))
    BY <1>1, <1>4 DEF LookForRate
  <2> QED
    BY <1>3, <2>3, <2>4, PostMoves
<1>5. CASE ~AlreadyOpen("RANSOMWARE_RATE", "source", y.since)
  <2>1. PICK n : n = Len(raisedAlerts)
    OBVIOUS
  <2>2. LookedFor("RANSOMWARE_RATE", "source", n) /\ n \in Nat
    BY <1>2, <1>5, <2>1, Looks DEF RulesIInv, RulesTyped
  <2>3. PICK r : r = [pc |-> "files", since |-> y.since, owes |-> y.owes, knew |-> n]
    OBVIOUS
  <2>4. r \in PostState /\ PostSound(r)
    BY <1>2, <2>2, <2>3 DEF PostState, PostSound
  <2>5. Becomes(p, r)
    BY <1>1, <1>5, <2>1, <2>3 DEF LookForRate
  <2> QED
    BY <1>3, <2>4, <2>5, PostMoves
<1> QED
  BY <1>4, <1>5

LEMMA CollectFilesStep ==
    ASSUME RulesIInv, NEW p \in Posters, CollectFiles(p) PROVE RulesIInv'
<1>1. PICK y \in PostState : y = post[p] /\ PostSound(y) /\ y.pc = "files"
  BY DEF RulesIInv, RulesTyped, CollectFiles
<1>2. /\ y.owes \in SUBSET Owed /\ y.knew \in Nat /\ LookedFor("RANSOMWARE_RATE", "source", y.knew)
      /\ Owes(y.owes, "RANSOMWARE_RATE", {"source"}, y.since)
  BY <1>1, PostFields DEF PostSound
<1>3. PICK files : files = Affected(y.since)
  OBVIOUS
<1>4. files \subseteq Files /\ (files # {} => Quarantinable)
  BY <1>3 DEF Affected, Files, Quarantinable, RulesIInv, RulesTyped
<1>5. PICK r : r = [pc |-> "raise", files |-> files, owes |-> y.owes, knew |-> y.knew]
  OBVIOUS
<1>6. r \in PostState
  BY <1>2, <1>4, <1>5 DEF PostState
<1>7. PostSound(r)
  BY <1>2, <1>4, <1>5 DEF PostSound, Owes
<1>8. Becomes(p, r) /\ OnlyPost /\ ~Points(post[p])
  BY <1>1, <1>3, <1>5 DEF CollectFiles, Points
<1> QED
  BY <1>6, <1>7, <1>8, PostMoves

\* The files read since are those with a read at an instant since.
LEMMA FilesReadSince ==
    ASSUME RulesIInv, NEW u
    PROVE  /\ FilesRead(u) = {f \in ReadFiles : \E at \in Since .. clock : [user |-> u, file |-> f, at |-> at] \in reads}
           /\ Cardinality(FilesRead(u)) \in Nat
<1>1. /\ reads \subseteq [user : Readers, file : ReadFiles, at : 0..clock] /\ IsFiniteSet(reads) /\ clock \in Nat
      /\ Since \in Int
  BY Bursts DEF RulesIInv, RulesTyped
<1>2. ASSUME NEW f \in FilesRead(u)
      PROVE  f \in ReadFiles /\ \E at \in Since .. clock : [user |-> u, file |-> f, at |-> at] \in reads
  <2>1. PICK x \in reads : x.user = u /\ x.at >= Since /\ f = x.file
    BY <1>2 DEF FilesRead
  <2>2. x \in [user : Readers, file : ReadFiles, at : 0..clock]
    BY <1>1
  <2>3. x = [user |-> u, file |-> f, at |-> x.at] /\ x.at \in Since .. clock /\ f \in ReadFiles
    BY <1>1, <2>1, <2>2
  <2> QED
    BY <2>3
<1>3. ASSUME NEW f \in ReadFiles, NEW at \in Since .. clock, [user |-> u, file |-> f, at |-> at] \in reads
      PROVE  f \in FilesRead(u)
  <2>1. PICK x \in reads : x = [user |-> u, file |-> f, at |-> at]
    BY <1>3
  <2>2. x.user = u /\ x.at >= Since /\ x.file = f
    BY <1>1, <2>1
  <2> QED
    BY <2>2 DEF FilesRead
<1>4. Cardinality(FilesRead(u)) \in Nat
  <2>1. PICK some : some = {x \in reads : x.user = u /\ x.at >= Since}
    OBVIOUS
  <2>2. IsFiniteSet(some)
    BY <1>1, <2>1, FS_Subset
  <2>3. PICK all : all = FilesRead(u)
    OBVIOUS
  <2>4. [x \in some |-> x.file] \in Surjection(some, all)
    BY <2>1, <2>3 DEF FilesRead, Surjection
  <2>5. IsFiniteSet(all)
    BY <2>2, <2>4, FS_Surjection
  <2> QED
    BY <2>3, <2>5, FS_CardinalityType
<1> QED
  BY <1>2, <1>3, <1>4

LEMMA CountReadsStep ==
    ASSUME RulesIInv, NEW p \in Posters, CountReads(p) PROVE RulesIInv'
<1>1. PICK y \in PostState : y = post[p] /\ y.pc = "reads"
  BY DEF RulesIInv, RulesTyped, CountReads
<1>2. PICK n \in Nat : n = Cardinality(FilesRead(y.user))
  BY FilesReadSince
<1>3. n = Cardinality({f \in ReadFiles : \E at \in Since .. clock : [user |-> y.user, file |-> f, at |-> at] \in reads})
  BY <1>2, FilesReadSince
<1>4. PICK owes : owes = IF n > ReadThreshold THEN {Burst("BULK_FILE_READ", "source")} ELSE {}
  OBVIOUS
<1>5. IF n <= ReadThreshold THEN Becomes(p, Done(owes)) ELSE Becomes(p, [pc |-> "bulk", since |-> Since, owes |-> owes])
  BY <1>1, <1>2, <1>3, <1>4 DEF CountReads
<1>6. ~Points(post[p]) /\ OnlyPost /\ ReadThreshold \in Nat
  BY AlertRulesAssumption DEF Points, CountReads
<1>7. CASE n <= ReadThreshold
  <2>1. owes = {}
    BY <1>4, <1>6, <1>7
  <2>2. Done(owes) \in PostState /\ PostSound(Done(owes))
    BY <2>1, PostStates
  <2> QED
    BY <1>5, <1>6, <1>7, <2>2, PostMoves
<1>8. CASE ~(n <= ReadThreshold)
  <2>1. PICK b : b = Burst("BULK_FILE_READ", "source")
    OBVIOUS
  <2>2. b \in Owed /\ b.rule = "BULK_FILE_READ" /\ b.of = "source" /\ b.since = Since
    BY <2>1, Bursts DEF FileRules, Subjects
  <2>3. owes \subseteq {b}
    BY <1>4, <2>1
  <2>4. PICK r : r = [pc |-> "bulk", since |-> Since, owes |-> owes]
    OBVIOUS
  <2>5. r \in PostState
    BY <2>2, <2>3, <2>4, Bursts DEF PostState
  <2>6. PostSound(r)
    BY <2>2, <2>3, <2>4, Bursts DEF PostSound, Owes
  <2> QED
    BY <1>5, <1>6, <1>8, <2>4, <2>5, <2>6, PostMoves
<1> QED
  BY <1>7, <1>8

LEMMA LookForBulkStep ==
    ASSUME RulesIInv, NEW p \in Posters, LookForBulk(p) PROVE RulesIInv'
<1>1. PICK y \in PostState : y = post[p] /\ PostSound(y) /\ y.pc = "bulk"
  BY DEF RulesIInv, RulesTyped, LookForBulk
<1>2. /\ y.owes \in SUBSET Owed /\ y.since \in Int /\ y.since + Window <= clock
      /\ Owes(y.owes, "BULK_FILE_READ", {"source"}, y.since)
  BY <1>1, PostFields DEF PostSound
<1>3. ~Points(post[p]) /\ OnlyPost
  BY DEF Points, LookForBulk
<1>4. CASE AlreadyOpen("BULK_FILE_READ", "source", y.since)
  <2>1. \A o : o.rule = "BULK_FILE_READ" /\ o.of = "source" /\ o.since = y.since => Told(o)
    BY <1>2, <1>4, Looks
  <2>2. \A o \in y.owes : Told(o)
    BY <1>2, <2>1 DEF Owes
  <2>3. Done(y.owes) \in PostState /\ PostSound(Done(y.owes))
    BY <1>2, <2>2, PostStates
  <2>4. Becomes(p, Done(y.owes))
    BY <1>1, <1>4 DEF LookForBulk
  <2> QED
    BY <1>3, <2>3, <2>4, PostMoves
<1>5. CASE ~AlreadyOpen("BULK_FILE_READ", "source", y.since)
  <2>1. PICK n : n = Len(raisedAlerts)
    OBVIOUS
  <2>2. LookedFor("BULK_FILE_READ", "source", n) /\ n \in Nat
    BY <1>2, <1>5, <2>1, Looks DEF RulesIInv, RulesTyped
  <2>3. PICK r : r = [pc |-> "copying", owes |-> y.owes, knew |-> n]
    OBVIOUS
  <2>4. r \in PostState /\ PostSound(r)
    BY <1>2, <2>2, <2>3 DEF PostState, PostSound, Owes
  <2>5. Becomes(p, r)
    BY <1>1, <1>5, <2>1, <2>3 DEF LookForBulk
  <2> QED
    BY <1>3, <2>4, <2>5, PostMoves
<1> QED
  BY <1>4, <1>5

LEMMA PostReadsStep ==
    ASSUME RulesIInv, NEW p \in Posters, NEW u \in Readers, NEW f \in ReadFiles, PostReads(p, u, f) PROVE RulesIInv'
<1>1. PICK x : x = [user |-> u, file |-> f, at |-> clock]
  OBVIOUS
<1>2. PICK r : r = [pc |-> "reads", user |-> u]
  OBVIOUS
<1>3. r \in PostState /\ PostSound(r)' /\ x \in [user : Readers, file : ReadFiles, at : 0..clock]
  BY <1>1, <1>2 DEF PostState, PostSound, RulesIInv, RulesTyped
<1>4. /\ reads' = reads \cup {x} /\ post' = [post EXCEPT ![p] = r] /\ post[p].pc \in {"waiting", "done"}
      /\ UNCHANGED <<clock, raisedAlerts, quiet, check, decision, cut>> /\ Stored' = Stored
  BY <1>1, <1>2 DEF PostReads, Becomes, RestOfPost, Stored
<1>5. post \in [Posters -> PostState] /\ IsFiniteSet(reads \cup {x})
  BY FS_AddElement DEF RulesIInv, RulesTyped
<1>6. RulesTyped'
  BY <1>3, <1>4, <1>5 DEF RulesIInv, RulesTyped
<1>7. \A q \in Posters : post'[q] = post[q] \/ (PostSound(post[q])' /\ ~Points(post[q]))
  BY <1>3, <1>4, <1>5 DEF Points
<1> QED
  BY <1>4, <1>6, <1>7, ReadsOnly DEF RulesIInv, RulesTyped

\* What a request owes of a kind is told by the alert it raises.
LEMMA RaiseTells ==
    ASSUME RulesIInv, Grows, NEW rule, NEW of, NEW level, NEW knew, NEW k \in DOMAIN raisedAlerts',
           raisedAlerts'[k] = Alert(rule, of, level, knew), NEW o \in Owed, o.since + Window <= clock,
           Told(o) \/ (o.rule = rule /\ o.of = of)
    PROVE  Told(o)'
<1>1. CASE Told(o)
  BY <1>1, ToldStill
<1>2. CASE o.rule = rule /\ o.of = of
  <2>1. raisedAlerts'[k].rule = rule /\ raisedAlerts'[k].of = of /\ raisedAlerts'[k].at = clock
    BY DEF Alert
  <2>2. o.since \in Int /\ Window \in Nat /\ clock \in Nat
    BY AlertRulesAssumption DEF Owed, RulesIInv, RulesTyped
  <2>3. clock >= o.since
    BY <2>2
  <2> QED
    BY <1>2, <2>1, <2>3 DEF Told
<1> QED
  BY <1>1, <1>2

LEMMA RaiseCopyStep ==
    ASSUME RulesIInv, NEW p \in Posters, RaiseCopy(p) PROVE RulesIInv'
<1>1. PICK y \in PostState : y = post[p] /\ PostSound(y) /\ y.pc = "copy"
  BY DEF RulesIInv, RulesTyped, RaiseCopy
<1>2. /\ y.device \in Volumes /\ y.knew \in Nat /\ y.next \in AtDevices
      /\ AtDevicesSound(y.next, {y.device}) /\ LookedFor("COPY_TO_REMOVABLE", y.device, y.knew)
  BY <1>1, PostFields DEF PostSound
<1>3. PICK k \in Nat : k = Len(raisedAlerts) + 1
  BY DEF RulesIInv, RulesTyped
<1>4. PICK r : r = [pc |-> "copied", alert |-> k, next |-> y.next]
  OBVIOUS
<1>5. r \in PostState /\ Points(r) /\ r.alert = k /\ ~Points(y)
  BY <1>1, <1>2, <1>4 DEF PostState, Points
<1>6. PICK level \in {"HIGH", "MEDIUM"} : RaisesAlert(p, "COPY_TO_REMOVABLE", y.device, level, r)
  BY <1>1, <1>3, <1>4 DEF RaiseCopy
<1>7. ASSUME Grows, raisedAlerts'[k] = Alert("COPY_TO_REMOVABLE", y.device, level, y.knew), k \in DOMAIN raisedAlerts'
      PROVE  PostSound(r)'
  <2>1. PICK next \in AtDevices : next = y.next /\ AtDevicesSound(next, {y.device})
    BY <1>2
  <2>2. next.since + Window <= clock /\ next.owes \in SUBSET Owed
        /\ Owes(next.owes, "COPY_TO_REMOVABLE", next.todo \cup {y.device}, next.since)
    BY <2>1 DEF AtDevicesSound, AtDevices
  <2>3. clock' = clock
    BY <1>6 DEF RaisesAlert, RestOfPost
  <2>4. ASSUME NEW o \in next.owes
        PROVE  /\ o.since + Window <= clock'
               /\ Told(o)' \/ (o.rule = "COPY_TO_REMOVABLE" /\ o.of \in next.todo /\ o.since = next.since)
    <3>1. /\ o \in Owed /\ o.since + Window <= clock
          /\ Told(o) \/ (o.rule = "COPY_TO_REMOVABLE" /\ o.of \in next.todo \cup {y.device} /\ o.since = next.since)
      BY <2>2 DEF Owes
    <3>2. (Told(o) \/ (o.rule = "COPY_TO_REMOVABLE" /\ o.of = y.device)) => Told(o)'
      BY <1>7, <3>1, RaiseTells
    <3> QED
      BY <2>3, <3>1, <3>2
  <2>5. Owes(next.owes, "COPY_TO_REMOVABLE", next.todo, next.since)'
    BY <2>4 DEF Owes
  <2>6. AtDevicesSound(next, {})'
    BY <2>2, <2>3, <2>5 DEF AtDevicesSound
  <2> QED
    BY <1>4, <1>7, <2>1, <2>6 DEF PostSound
<1>8. "COPY_TO_REMOVABLE" \in FileRules /\ y.device \in Subjects /\ level \in {"MEDIUM", "HIGH", "CRITICAL"}
  BY <1>2 DEF FileRules, Subjects
<1> QED
  BY <1>1, <1>2, <1>3, <1>5, <1>6, <1>7, <1>8, PostRaises

LEMMA RaiseRateStep ==
    ASSUME RulesIInv, NEW p \in Posters, RaiseRate(p) PROVE RulesIInv'
<1>1. PICK y \in PostState : y = post[p] /\ PostSound(y) /\ y.pc = "raise"
  BY DEF RulesIInv, RulesTyped, RaiseRate
<1>2. /\ y.knew \in Nat /\ y.files \in SUBSET Files /\ y.owes \in SUBSET Owed
      /\ LookedFor("RANSOMWARE_RATE", "source", y.knew) /\ (y.files # {} => Quarantinable)
      /\ \A o \in y.owes : o.since + Window <= clock /\ (Told(o) \/ (o.rule = "RANSOMWARE_RATE" /\ o.of = "source"))
  BY <1>1, PostFields DEF PostSound
<1>3. PICK k \in Nat : k = Len(raisedAlerts) + 1
  BY DEF RulesIInv, RulesTyped
<1>4. PICK r : r = [pc |-> "raised", files |-> y.files, alert |-> k, owes |-> y.owes]
  OBVIOUS
<1>5. r \in PostState /\ Points(r) /\ r.alert = k /\ ~Points(y)
  BY <1>1, <1>2, <1>4 DEF PostState, Points
<1>6. RaisesAlert(p, "RANSOMWARE_RATE", "source", "CRITICAL", r)
  BY <1>1, <1>3, <1>4 DEF RaiseRate
<1>7. ASSUME Grows, raisedAlerts'[k] = Alert("RANSOMWARE_RATE", "source", "CRITICAL", y.knew), k \in DOMAIN raisedAlerts'
      PROVE  PostSound(r)'
  <2>1. \A o \in r.owes : Told(o)'
    <3> SUFFICES ASSUME NEW o \in y.owes PROVE Told(o)'
      BY <1>4
    <3>1. o \in Owed /\ o.since + Window <= clock /\ (Told(o) \/ (o.rule = "RANSOMWARE_RATE" /\ o.of = "source"))
      BY <1>2
    <3> QED
      BY <1>7, <3>1, RaiseTells
  <2>2. Quarantinable => Quarantinable'
    BY <1>6 DEF RaisesAlert, Quarantinable, Stored
  <2>3. raisedAlerts'[k].rule = "RANSOMWARE_RATE"
    BY <1>7 DEF Alert
  <2> QED
    BY <1>2, <1>4, <1>7, <2>1, <2>2, <2>3 DEF PostSound
<1>8. "RANSOMWARE_RATE" \in FileRules /\ "source" \in Subjects /\ "CRITICAL" \in {"MEDIUM", "HIGH", "CRITICAL"}
  BY DEF FileRules, Subjects
<1> QED
  BY <1>1, <1>2, <1>3, <1>5, <1>6, <1>7, <1>8, PostRaises

LEMMA RaiseBulkStep ==
    ASSUME RulesIInv, NEW p \in Posters, RaiseBulk(p) PROVE RulesIInv'
<1>1. PICK y \in PostState : y = post[p] /\ PostSound(y) /\ y.pc = "copying"
  BY DEF RulesIInv, RulesTyped, RaiseBulk
<1>2. /\ y.knew \in Nat /\ y.owes \in SUBSET Owed /\ LookedFor("BULK_FILE_READ", "source", y.knew)
      /\ \A o \in y.owes : o.since + Window <= clock /\ (Told(o) \/ (o.rule = "BULK_FILE_READ" /\ o.of = "source"))
  BY <1>1, PostFields DEF PostSound
<1>3. PICK k \in Nat : k = Len(raisedAlerts) + 1
  BY DEF RulesIInv, RulesTyped
<1>4. PICK r : r = [pc |-> "told", alert |-> k, owes |-> y.owes]
  OBVIOUS
<1>5. r \in PostState /\ Points(r) /\ r.alert = k /\ ~Points(y)
  BY <1>1, <1>2, <1>4 DEF PostState, Points
<1>6. RaisesAlert(p, "BULK_FILE_READ", "source", "MEDIUM", r)
  BY <1>1, <1>3, <1>4 DEF RaiseBulk
<1>7. ASSUME Grows, raisedAlerts'[k] = Alert("BULK_FILE_READ", "source", "MEDIUM", y.knew), k \in DOMAIN raisedAlerts'
      PROVE  PostSound(r)'
  <2>1. \A o \in r.owes : Told(o)'
    <3> SUFFICES ASSUME NEW o \in y.owes PROVE Told(o)'
      BY <1>4
    <3>1. o \in Owed /\ o.since + Window <= clock /\ (Told(o) \/ (o.rule = "BULK_FILE_READ" /\ o.of = "source"))
      BY <1>2
    <3> QED
      BY <1>7, <3>1, RaiseTells
  <2> QED
    BY <1>4, <1>7, <2>1 DEF PostSound
<1>8. "BULK_FILE_READ" \in FileRules /\ "source" \in Subjects /\ "MEDIUM" \in {"MEDIUM", "HIGH", "CRITICAL"}
  BY DEF FileRules, Subjects
<1> QED
  BY <1>1, <1>2, <1>3, <1>5, <1>6, <1>7, <1>8, PostRaises

LEMMA NotifyCopyStep ==
    ASSUME RulesIInv, NEW p \in Posters, NotifyCopy(p) PROVE RulesIInv'
<1>1. PICK y \in PostState : y = post[p] /\ PostSound(y) /\ y.pc = "copied"
  BY DEF RulesIInv, RulesTyped, NotifyCopy
<1>2. y.next \in AtDevices /\ AtDevicesSound(y.next, {})
  BY <1>1, PostFields DEF PostSound
<1>3. y.next \in PostState /\ PostSound(y.next)
  BY <1>2, PostStates
<1>4. Suggests(p, "WEBHOOK_NOTIFICATION", y.next) /\ Points(post[p])
  BY <1>1 DEF NotifyCopy, Points
<1> QED
  BY <1>3, <1>4, PostSuggests

LEMMA NotifyRateStep ==
    ASSUME RulesIInv, NEW p \in Posters, NotifyRate(p) PROVE RulesIInv'
<1>1. PICK y \in PostState : y = post[p] /\ PostSound(y) /\ y.pc = "raised"
  BY DEF RulesIInv, RulesTyped, NotifyRate
<1>2. /\ y \in [pc : {"raised", "noted"}, files : SUBSET Files, alert : Nat, owes : SUBSET Owed]
      /\ \A o \in y.owes : Told(o)
  BY <1>1, PostFields DEF PostSound
<1>3. Points(post[p])
  BY <1>1 DEF Points
<1>4. CASE OffersQuarantine(y.files)
  <2>1. PICK r : r = [y EXCEPT !.pc = "noted"]
    OBVIOUS
  <2>2. r \in [pc : {"raised", "noted"}, files : SUBSET Files, alert : Nat, owes : SUBSET Owed]
        /\ r.pc = "noted" /\ r.alert = y.alert /\ r.files = y.files /\ r.owes = y.owes
    BY <1>2, <2>1
  <2>3. r \in PostState
    BY <2>2 DEF PostState
  <2>4. Suggests(p, "WEBHOOK_NOTIFICATION", r)
    BY <1>1, <1>4, <2>1 DEF NotifyRate
  <2>5. r.files # {} /\ MayQuarantine
    BY <1>4, <2>2 DEF OffersQuarantine
  <2> QED
    BY <1>1, <1>3, <2>2, <2>3, <2>4, <2>5, PostSuggests
<1>5. CASE ~OffersQuarantine(y.files)
  <2>1. Done(y.owes) \in PostState /\ PostSound(Done(y.owes))
    BY <1>2, PostStates
  <2>2. Suggests(p, "WEBHOOK_NOTIFICATION", Done(y.owes))
    BY <1>1, <1>5 DEF NotifyRate
  <2> QED
    BY <1>3, <2>1, <2>2, PostSuggests
<1> QED
  BY <1>4, <1>5

LEMMA LastSuggestionStep ==
    ASSUME RulesIInv, NEW p \in Posters, SuggestQuarantine(p) \/ NotifyBulk(p) PROVE RulesIInv'
<1>1. PICK y \in PostState : y = post[p] /\ PostSound(y) /\ y.pc \in {"noted", "told"}
  BY DEF RulesIInv, RulesTyped, SuggestQuarantine, NotifyBulk
<1>2. y.owes \in SUBSET Owed /\ \A o \in y.owes : Told(o)
  BY <1>1, PostFields DEF PostSound
<1>3. Done(y.owes) \in PostState /\ PostSound(Done(y.owes)) /\ Points(post[p])
  BY <1>1, <1>2, PostStates DEF Points
<1>4. PICK type \in {"WEBHOOK_NOTIFICATION", "FILE_QUARANTINE"} :
         Suggests(p, type, Done(y.owes)) /\ (type = "FILE_QUARANTINE" => post[p].pc = "noted")
  BY <1>1 DEF SuggestQuarantine, NotifyBulk
<1> QED
  BY <1>3, <1>4, PostSuggests

-----------------------------------------------------------------------------
\* The kinds of states a sweep is in.
LEMMA CheckFields ==
    ASSUME NEW r \in CheckState
    PROVE  /\ r.pc = "sweep" => r \in AtSweep
           /\ r.pc = "raise" => r \in [pc : {"raise"}, agent : Scanners, knew : Nat, next : AtSweep]
           /\ r.pc \in {"note", "resolve"} => r \in [pc : {"note", "resolve"}, alert : Nat, next : AtSweep]
BY DEF CheckState, AtSweep

LEMMA SweepSound == \A r \in AtSweep : r \in CheckState /\ CheckSound(r) /\ CheckSound(r)'
BY DEF CheckState, AtSweep, CheckSound

\* What a sweep does to itself alone.
LEMMA CheckMoves ==
    ASSUME RulesIInv, NEW s \in Sweeps, NEW r \in CheckState, CheckSound(r), check[s].pc # "note",
           Sweeping(s, r), UNCHANGED raisedAlerts, RestOfSweep
    PROVE  RulesIInv'
<1>1. check \in [Sweeps -> CheckState] /\ check' = [check EXCEPT ![s] = r]
  BY DEF RulesIInv, RulesTyped, Sweeping
<1>2. UNCHANGED <<clock, occurred, reads, raisedAlerts, post, quiet, decision, cut>> /\ Stored' = Stored
  BY DEF RestOfSweep, Stored
<1>3. RulesTyped'
  BY <1>1, <1>2 DEF RulesIInv, RulesTyped
<1>4. CheckSound(r)'
  BY <1>2 DEF CheckSound, Live
<1>5. \A t \in Sweeps : check'[t] = check[t] \/ (CheckSound(check[t])' /\ check[t].pc # "note")
  BY <1>1, <1>4
<1> QED
  BY <1>2, <1>3, <1>5, ReadsOnly DEF RulesIInv, RulesTyped

LEMMA SweepEdgesStep ==
    ASSUME RulesIInv, NEW s \in Sweeps, SweepStarts(s) \/ SweepEnds(s) PROVE RulesIInv'
<1>1. PICK r \in {Waiting, [pc |-> "sweep", todo |-> Scanners, seen |-> quiet]} : Sweeping(s, r)
  BY DEF SweepStarts, SweepEnds
<1>2. r \in CheckState /\ CheckSound(r)
  BY DEF Waiting, CheckState, AtSweep, CheckSound, RulesIInv, RulesTyped
<1>3. check[s].pc # "note" /\ UNCHANGED raisedAlerts /\ RestOfSweep
  BY DEF SweepStarts, SweepEnds
<1> QED
  BY <1>1, <1>2, <1>3, CheckMoves

LEMMA SweepLooksStep ==
    ASSUME RulesIInv, NEW s \in Sweeps, NEW a \in Scanners, SweepLooks(s, a) PROVE RulesIInv'
<1>1. PICK y \in AtSweep : y = check[s] /\ y.pc = "sweep"
  BY CheckFields DEF RulesIInv, RulesTyped, SweepLooks
<1>2. PICK rest : rest = [y EXCEPT !.todo = @ \ {a}]
  OBVIOUS
<1>3. rest \in AtSweep
  BY <1>1, <1>2 DEF AtSweep
<1>4. check[s].pc # "note" /\ UNCHANGED raisedAlerts /\ RestOfSweep
  BY DEF SweepLooks
<1>5. raisedAlerts \in Seq(AlertRow) /\ DOMAIN raisedAlerts = 1..Len(raisedAlerts) /\ Len(raisedAlerts) \in Nat
  <2>1. raisedAlerts \in Seq(AlertRow)
    BY DEF RulesIInv, RulesTyped
  <2> QED
    BY <2>1
<1>6. ASSUME OpenAbout(a) = {}, Sweeping(s, [pc |-> "raise", agent |-> a, knew |-> Len(raisedAlerts), next |-> rest])
      PROVE  RulesIInv'
  <2>1. PICK r : r = [pc |-> "raise", agent |-> a, knew |-> Len(raisedAlerts), next |-> rest]
    OBVIOUS
  <2>2. \A i \in DOMAIN raisedAlerts :
           raisedAlerts[i].rule = "AGENT_SILENT" /\ raisedAlerts[i].of = a => ~Live(raisedAlerts[i])
    BY <1>6 DEF OpenAbout, SilenceAlerts, Live
  <2>3. r \in CheckState /\ CheckSound(r)
    BY <1>3, <1>5, <2>1, <2>2 DEF CheckState, CheckSound
  <2> QED
    BY <1>4, <1>6, <2>1, <2>3, CheckMoves
<1>7. ASSUME NEW i \in OpenAbout(a), Sweeping(s, [pc |-> "resolve", alert |-> i, next |-> rest])
      PROVE  RulesIInv'
  <2>1. PICK r : r = [pc |-> "resolve", alert |-> i, next |-> rest]
    OBVIOUS
  <2>2. i \in DOMAIN raisedAlerts /\ i \in Nat
    BY <1>5 DEF OpenAbout, SilenceAlerts
  <2>3. r \in CheckState /\ CheckSound(r)
    BY <1>3, <2>1, <2>2 DEF CheckState, CheckSound
  <2> QED
    BY <1>4, <1>7, <2>1, <2>3, CheckMoves
<1>8. ASSUME Sweeping(s, rest) PROVE RulesIInv'
  BY <1>3, <1>4, <1>8, CheckMoves, SweepSound
<1> QED
  BY <1>1, <1>2, <1>6, <1>7, <1>8 DEF SweepLooks

LEMMA SweepRaisesStep ==
    ASSUME RulesIInv, NEW s \in Sweeps, SweepRaises(s) PROVE RulesIInv'
<1>1. PICK y \in CheckState : y = check[s] /\ CheckSound(y) /\ y.pc = "raise"
  BY DEF RulesIInv, RulesTyped, SweepRaises
<1>2. /\ y.agent \in Scanners /\ y.knew \in Nat /\ y.next \in AtSweep /\ y.knew <= Len(raisedAlerts)
      /\ \A i \in 1..y.knew :
            raisedAlerts[i].rule = "AGENT_SILENT" /\ raisedAlerts[i].of = y.agent => ~Live(raisedAlerts[i])
  BY <1>1, CheckFields DEF CheckSound
<1>3. PICK k \in Nat : k = Len(raisedAlerts) + 1
  BY DEF RulesIInv, RulesTyped
<1>4. PICK r : r = [pc |-> "note", alert |-> k, next |-> y.next]
  OBVIOUS
<1>5. /\ raisedAlerts' = Append(raisedAlerts, Alert("AGENT_SILENT", y.agent, "HIGH", y.knew))
      /\ check' = [check EXCEPT ![s] = r]
      /\ UNCHANGED <<clock, occurred, reads, post, quiet, decision, cut>> /\ Stored' = Stored
  BY <1>1, <1>3, <1>4 DEF SweepRaises, Sweeping, RestOfSweep, Stored
<1>6. y.agent \in Subjects /\ "AGENT_SILENT" \in FileRules \cup {"AGENT_SILENT"} /\ "HIGH" \in {"MEDIUM", "HIGH", "CRITICAL"}
  BY <1>2 DEF Subjects
<1>7. /\ Grows /\ raisedAlerts' \in Seq(AlertRow) /\ RulesTypeOK' /\ OneAlertPerBurst' /\ k \in DOMAIN raisedAlerts'
      /\ (RaisedOnly \subseteq RaisedOnly' /\ k \in RaisedOnly') => AlertsAreActionable'
  <2>1. PICK of \in Subjects : of = y.agent
    BY <1>6
  <2>2. PICK knew \in Nat : knew = y.knew
    BY <1>2
  <2>3. PICK rule \in FileRules \cup {"AGENT_SILENT"} : rule = "AGENT_SILENT"
    OBVIOUS
  <2>4. PICK level \in {"MEDIUM", "HIGH", "CRITICAL"} : level = "HIGH"
    OBVIOUS
  <2>5. \A i \in 1..knew : raisedAlerts[i].rule = rule /\ raisedAlerts[i].of = of /\ Live(raisedAlerts[i]) =>
           raisedAlerts[i].at + Window < clock /\ rule # "AGENT_SILENT"
    BY <1>2, <2>1, <2>2, <2>3
  <2>6. raisedAlerts' = Append(raisedAlerts, Alert(rule, of, level, knew)) /\ knew <= Len(raisedAlerts)
    BY <1>2, <1>5, <2>1, <2>2, <2>3, <2>4
  <2>7. RaisedAfterLook(rule, of, level, knew)
    BY <1>5, <2>5, <2>6 DEF RaisedAfterLook
  <2>8. /\ Grows /\ raisedAlerts' \in Seq(AlertRow) /\ RulesTypeOK' /\ OneAlertPerBurst'
        /\ Len(raisedAlerts) + 1 \in DOMAIN raisedAlerts' /\ Len(raisedAlerts) + 1 \in Nat
        /\ raisedAlerts'[Len(raisedAlerts) + 1] = Alert(rule, of, level, knew)
        /\ (RaisedOnly \subseteq RaisedOnly' /\ Len(raisedAlerts) + 1 \in RaisedOnly') => AlertsAreActionable'
    BY <2>7, Raised
  <2> QED
    BY <1>3, <2>8
<1>8. r \in CheckState /\ check \in [Sweeps -> CheckState]
  BY <1>2, <1>4 DEF CheckState, RulesIInv, RulesTyped
<1>9. RulesTyped'
  BY <1>5, <1>7, <1>8 DEF RulesIInv, RulesTyped
<1>10. CheckSound(r)'
  BY <1>4, <1>7 DEF CheckSound
<1>11. check'[s] = r /\ \A t \in Sweeps \ {s} : check'[t] = check[t]
  BY <1>5, <1>8
<1>12. /\ \A p \in Posters : PostSound(post[p])'
       /\ \A t \in Sweeps : CheckSound(check[t])'
       /\ \A d \in Deciders : DecisionSound(decision[d])'
  <2>1. \A t \in Sweeps : check'[t] = check[t] \/ CheckSound(check[t])'
    BY <1>10, <1>11
  <2>2. clock <= clock'
    BY <1>5 DEF RulesIInv, RulesTyped
  <2> QED
    BY <1>5, <1>7, <1>9, <2>1, <2>2, RulesStill
<1>13. RaisedOnly \subseteq RaisedOnly' /\ k \in RaisedOnly'
  <2>1. \A t \in Sweeps : check[t].pc = "note" => check'[t] = check[t]
    BY <1>1, <1>11
  <2>2. r.pc = "note" /\ r.alert = k
    BY <1>4
  <2> QED
    BY <1>5, <1>11, <2>1, <2>2 DEF RaisedOnly
<1> QED
  BY <1>7, <1>9, <1>12, <1>13 DEF RulesIInv

\* A sweep that has its alert noted or resolved, and goes on to the next agent.
LEMMA SweepSettlesStep ==
    ASSUME RulesIInv, NEW s \in Sweeps, SweepNotifies(s) \/ SweepResolves(s) PROVE RulesIInv'
<1>1. PICK y \in CheckState : y = check[s] /\ CheckSound(y) /\ y.pc \in {"note", "resolve"}
  BY DEF RulesIInv, RulesTyped, SweepNotifies, SweepResolves
<1>2. y.next \in AtSweep
  BY <1>1, CheckFields
<1>3. PICK k \in DOMAIN raisedAlerts : k = y.alert
  BY <1>1 DEF CheckSound
<1>4. PICK old \in AlertRow : old = raisedAlerts[k]
  BY DEF RulesIInv, RulesTyped
<1>5. PICK a : a = IF y.pc = "note" THEN [old EXCEPT !.actions = @ \cup {"WEBHOOK_NOTIFICATION"}]
                   ELSE [old EXCEPT !.status = "RESOLVED"]
  OBVIOUS
<1>6. /\ a \in AlertRow /\ a.rule = old.rule /\ a.of = old.of /\ a.at = old.at /\ a.knew = old.knew
      /\ a.touched = old.touched /\ a.resolved = old.resolved /\ a.acknowledged = old.acknowledged
      /\ old.actions \subseteq a.actions /\ (a.status = "OPEN" => old.status = "OPEN")
      /\ (y.pc = "note" => "WEBHOOK_NOTIFICATION" \in a.actions)
      /\ ("FILE_QUARANTINE" \in a.actions => "FILE_QUARANTINE" \in old.actions)
  BY <1>5 DEF AlertRow
<1>7. raisedAlerts' = [raisedAlerts EXCEPT ![k] = a]
  BY <1>1, <1>3, <1>4, <1>5 DEF SweepNotifies, SweepResolves
<1>8. /\ check' = [check EXCEPT ![s] = y.next]
      /\ UNCHANGED <<clock, occurred, reads, post, quiet, decision, cut>> /\ Stored' = Stored
  BY <1>1 DEF SweepNotifies, SweepResolves, Sweeping, RestOfSweep, Stored
<1>9. (Live(a) => Live(old)) /\ (a.status = "OPEN" => ~a.resolved) /\ (a.resolved => a.acknowledged)
  BY <1>4, <1>6 DEF Live, RulesIInv, RulesTypeOK
<1>10. /\ Grows /\ raisedAlerts' \in Seq(AlertRow) /\ RulesTypeOK' /\ OneAlertPerBurst'
       /\ (/\ \A i \in RaisedOnly \ RaisedOnly' : i = k => "WEBHOOK_NOTIFICATION" \in a.actions
           /\ \A i \in RaisedOnly \ RaisedOnly' : i = k \/ "WEBHOOK_NOTIFICATION" \in raisedAlerts[i].actions
           /\ "FILE_QUARANTINE" \in a.actions =>
                 \/ "FILE_QUARANTINE" \in raisedAlerts[k].actions
                 \/ a.rule = "RANSOMWARE_RATE" /\ MayQuarantine /\ Quarantinable)
          => AlertsAreActionable'
  BY <1>4, <1>6, <1>7, <1>8, <1>9, Changed
<1>11. check \in [Sweeps -> CheckState] /\ y.next \in CheckState /\ CheckSound(y.next)'
  BY <1>2, SweepSound DEF RulesIInv, RulesTyped
<1>12. RulesTyped'
  BY <1>8, <1>10, <1>11 DEF RulesIInv, RulesTyped
<1>13. check'[s] = y.next /\ \A t \in Sweeps \ {s} : check'[t] = check[t]
  BY <1>8, <1>11
<1>14. /\ \A p \in Posters : PostSound(post[p])'
       /\ \A t \in Sweeps : CheckSound(check[t])'
       /\ \A d \in Deciders : DecisionSound(decision[d])'
  <2>1. \A t \in Sweeps : check'[t] = check[t] \/ CheckSound(check[t])'
    BY <1>11, <1>13
  <2>2. clock <= clock'
    BY <1>8 DEF RulesIInv, RulesTyped
  <2> QED
    BY <1>8, <1>10, <1>12, <2>1, <2>2, RulesStill
<1>15. \A i \in RaisedOnly \ RaisedOnly' : i = k /\ y.pc = "note"
  BY <1>1, <1>3, <1>8, <1>13 DEF RaisedOnly
<1>16. AlertsAreActionable'
  BY <1>4, <1>6, <1>10, <1>15
<1> QED
  BY <1>10, <1>12, <1>14, <1>16 DEF RulesIInv

-----------------------------------------------------------------------------
LEMMA DecidesStep ==
    ASSUME RulesIInv, NEW d \in Deciders, NEW ids \in SUBSET DOMAIN raisedAlerts,
           NEW status \in {"OPEN", "ACKNOWLEDGED", "RESOLVED"}, Decides(d, ids, status)
    PROVE  RulesIInv'
<1>1. PICK r : r = [pc |-> "update", status |-> status, todo |-> {i \in ids : raisedAlerts[i].status # status},
                    acknowledged |-> {i \in ids : raisedAlerts[i].acknowledged}]
  OBVIOUS
<1>2. decision \in [Deciders -> DecisionState] /\ decision' = [decision EXCEPT ![d] = r]
  BY <1>1 DEF RulesIInv, RulesTyped, Decides
<1>3. UNCHANGED <<clock, occurred, reads, raisedAlerts, post, quiet, check, cut>> /\ Stored' = Stored
  BY DEF Decides, Stored
<1>4. ids \subseteq Nat
  <2>1. raisedAlerts \in Seq(AlertRow)
    BY DEF RulesIInv, RulesTyped
  <2> QED
    BY <2>1
<1>5. r \in DecisionState /\ DecisionSound(r)'
  BY <1>1, <1>3, <1>4 DEF DecisionState, DecisionSound
<1>6. RulesTyped'
  BY <1>2, <1>3, <1>5 DEF RulesIInv, RulesTyped
<1>7. \A c \in Deciders : decision'[c] = decision[c] \/ DecisionSound(decision[c])'
  BY <1>2, <1>5
<1> QED
  BY <1>3, <1>6, <1>7, ReadsOnly DEF RulesIInv, RulesTyped

LEMMA EndsDecisionStep ==
    ASSUME RulesIInv, NEW d \in Deciders, EndsDecision(d) PROVE RulesIInv'
<1>1. decision \in [Deciders -> DecisionState] /\ decision' = [decision EXCEPT ![d] = Waiting]
  BY DEF RulesIInv, RulesTyped, EndsDecision
<1>2. UNCHANGED <<clock, occurred, reads, raisedAlerts, post, quiet, check, cut>> /\ Stored' = Stored
  BY DEF EndsDecision, Stored
<1>3. Waiting \in DecisionState /\ DecisionSound(Waiting)'
  BY DEF Waiting, DecisionState, DecisionSound
<1>4. RulesTyped'
  BY <1>1, <1>2, <1>3 DEF RulesIInv, RulesTyped
<1>5. \A c \in Deciders : decision'[c] = decision[c] \/ DecisionSound(decision[c])'
  BY <1>1, <1>3
<1> QED
  BY <1>2, <1>4, <1>5, ReadsOnly DEF RulesIInv, RulesTyped

LEMMA UpdatesAlertStep ==
    ASSUME RulesIInv, NEW d \in Deciders, NEW k \in DOMAIN raisedAlerts, UpdatesAlert(d, k) PROVE RulesIInv'
<1>1. PICK y \in DecisionState : y = decision[d] /\ DecisionSound(y) /\ y.pc = "update"
  BY DEF RulesIInv, RulesTyped, UpdatesAlert
<1>2. y \in [pc : {"update"}, status : {"OPEN", "ACKNOWLEDGED", "RESOLVED"}, todo : SUBSET Nat, acknowledged : SUBSET Nat]
  BY <1>1 DEF DecisionState
<1>3. PICK old \in AlertRow : old = raisedAlerts[k]
  BY DEF RulesIInv, RulesTyped
<1>4. PICK status \in {"OPEN", "ACKNOWLEDGED", "RESOLVED"} : status = y.status
  BY <1>2
<1> DEFINE was == k \in y.acknowledged
<1>6. was => old.acknowledged
  BY <1>1, <1>3 DEF DecisionSound
<1>7. PICK a : a = Transition(old, status, was)
  OBVIOUS
<1>8. /\ a \in AlertRow /\ a.rule = old.rule /\ a.of = old.of /\ a.at = old.at /\ a.knew = old.knew /\ a.actions = old.actions
      /\ a.touched /\ a.status = status
      /\ a.acknowledged = (old.acknowledged \/ status = "ACKNOWLEDGED" \/ (status = "RESOLVED" /\ ~was))
      /\ a.resolved = (status = "RESOLVED" \/ (old.resolved /\ status # "OPEN"))
  <2>1. old.acknowledged \in BOOLEAN /\ old.resolved \in BOOLEAN
    BY DEF AlertRow
  <2>2. PICK b \in BOOLEAN : b = (old.acknowledged \/ status = "ACKNOWLEDGED" \/ (status = "RESOLVED" /\ ~was))
    OBVIOUS
  <2>3. PICK c \in BOOLEAN : c = (status = "RESOLVED" \/ (old.resolved /\ status # "OPEN"))
    OBVIOUS
  <2>4. PICK a1 : a1 = [old EXCEPT !.status = status]
    OBVIOUS
  <2>5. PICK a2 : a2 = [a1 EXCEPT !.touched = TRUE]
    OBVIOUS
  <2>6. PICK a3 : a3 = [a2 EXCEPT !.acknowledged = b]
    OBVIOUS
  <2>7. a1 \in AlertRow /\ a1.status = status /\ \A f \in DOMAIN old \ {"status"} : a1[f] = old[f]
    BY <2>4 DEF AlertRow
  <2>8. a = [a3 EXCEPT !.resolved = c]
    BY <1>7, <2>2, <2>3, <2>4, <2>5, <2>6 DEF Transition, AlertRow
  <2> QED
    BY <2>1, <2>2, <2>3, <2>4, <2>5, <2>6, <2>8 DEF AlertRow
<1>9. raisedAlerts' = [raisedAlerts EXCEPT ![k] = a]
  BY <1>1, <1>3, <1>4, <1>7 DEF UpdatesAlert
<1>10. PICK r : r = [y EXCEPT !.todo = @ \ {k}]
  OBVIOUS
<1>11. r \in DecisionState /\ r.acknowledged = y.acknowledged
  BY <1>2, <1>10 DEF DecisionState
<1>12. /\ decision' = [decision EXCEPT ![d] = r] /\ decision \in [Deciders -> DecisionState]
       /\ UNCHANGED <<clock, occurred, reads, post, quiet, check, cut>> /\ Stored' = Stored
  BY <1>1, <1>10 DEF UpdatesAlert, Stored, RulesIInv, RulesTyped
<1>13. ~Live(a) /\ (old.acknowledged => a.acknowledged) /\ (a.status = "OPEN" => ~a.resolved) /\ (a.resolved => a.acknowledged)
  <2>1. old.resolved => old.acknowledged
    BY <1>3 DEF RulesIInv, RulesTypeOK
  <2> QED
    BY <1>6, <1>8, <2>1 DEF Live
<1>14. /\ Grows /\ raisedAlerts' \in Seq(AlertRow) /\ RulesTypeOK' /\ OneAlertPerBurst'
       /\ (/\ \A i \in RaisedOnly \ RaisedOnly' : i = k => "WEBHOOK_NOTIFICATION" \in a.actions
           /\ \A i \in RaisedOnly \ RaisedOnly' : i = k \/ "WEBHOOK_NOTIFICATION" \in raisedAlerts[i].actions
           /\ "FILE_QUARANTINE" \in a.actions =>
                 \/ "FILE_QUARANTINE" \in raisedAlerts[k].actions
                 \/ a.rule = "RANSOMWARE_RATE" /\ MayQuarantine /\ Quarantinable)
          => AlertsAreActionable'
  BY <1>3, <1>8, <1>9, <1>12, <1>13, Changed
<1>15. RaisedOnly' = RaisedOnly
  BY <1>12 DEF RaisedOnly
<1>16. AlertsAreActionable'
  BY <1>3, <1>8, <1>14, <1>15
<1>17. RulesTyped'
  BY <1>11, <1>12, <1>14 DEF RulesIInv, RulesTyped
<1>18. DecisionSound(r)'
  <2>1. DecisionSound(y)'
    BY <1>1, <1>14, DecisionStill
  <2> QED
    BY <1>1, <1>11, <2>1 DEF DecisionSound
<1>19. /\ \A p \in Posters : PostSound(post[p])'
       /\ \A t \in Sweeps : CheckSound(check[t])'
       /\ \A c \in Deciders : DecisionSound(decision[c])'
  <2>1. \A c \in Deciders : decision'[c] = decision[c] \/ DecisionSound(decision[c])'
    BY <1>12, <1>18
  <2>2. clock <= clock'
    BY <1>12 DEF RulesIInv, RulesTyped
  <2> QED
    BY <1>12, <1>14, <1>17, <2>1, <2>2, RulesStill
<1> QED
  BY <1>14, <1>16, <1>17, <1>19 DEF RulesIInv

-----------------------------------------------------------------------------
LEMMA BackendStopsStep == ASSUME RulesIInv, BackendStops PROVE RulesIInv'
<1>1. UNCHANGED <<clock, occurred, reads, raisedAlerts, quiet>> /\ Stored' = Stored /\ cut' = cut \cup RaisedOnly
  BY DEF BackendStops, Stored
<1>2. /\ \A p \in Posters : post'[p] = Waiting
      /\ \A s \in Sweeps : check'[s] = Waiting
      /\ \A d \in Deciders : decision'[d] = Waiting
  BY DEF BackendStops
<1>3. Waiting.pc = "waiting" /\ Waiting \in PostState /\ Waiting \in CheckState /\ Waiting \in DecisionState
  BY DEF Waiting, PostState, CheckState, DecisionState
<1>4. RulesTyped'
  <2>1. post' \in [Posters -> PostState] /\ check' \in [Sweeps -> CheckState] /\ decision' \in [Deciders -> DecisionState]
    BY <1>3 DEF BackendStops
  <2> QED
    BY <1>1, <2>1 DEF RulesIInv, RulesTyped
<1>5. RulesTypeOK' /\ OneAlertPerBurst'
  BY <1>1 DEF RulesIInv, RulesTypeOK, OneAlertPerBurst
<1>6. AlertsAreActionable'
  <2>1. \A i \in DOMAIN raisedAlerts \ cut' : "WEBHOOK_NOTIFICATION" \in raisedAlerts[i].actions
    BY <1>1 DEF RulesIInv, AlertsAreActionable
  <2> QED
    BY <1>1, <2>1 DEF RulesIInv, AlertsAreActionable
<1>7. /\ \A p \in Posters : PostSound(post[p])'
      /\ \A s \in Sweeps : CheckSound(check[s])'
      /\ \A d \in Deciders : DecisionSound(decision[d])'
  BY <1>2, <1>3 DEF PostSound, CheckSound, DecisionSound
<1> QED
  BY <1>4, <1>5, <1>6, <1>7 DEF RulesIInv

LEMMA TimePassesStep ==
    ASSUME RulesIInv, Tick \/ \E a \in Scanners : GoesAway(a) \/ ReportsAgain(a) PROVE RulesIInv'
<1>1. /\ UNCHANGED <<occurred, reads, raisedAlerts, post, check, decision, cut>> /\ Stored' = Stored
      /\ clock' = clock \/ clock' = clock + 1
  BY DEF Tick, GoesAway, ReportsAgain, Stored
<1>2. clock \in Nat /\ clock' \in Nat /\ clock <= clock'
  BY <1>1 DEF RulesIInv, RulesTyped
<1>3. quiet' \in [Scanners -> Nat]
  <2>1. quiet \in [Scanners -> Nat]
    BY DEF RulesIInv, RulesTyped
  <2>2. CASE Tick
    <3>1. \A a \in Scanners : (IF a \in away THEN IF quiet[a] > SilentAfter THEN quiet[a] ELSE quiet[a] + 1 ELSE 0) \in Nat
      BY <2>1
    <3> QED
      BY <2>2, <3>1 DEF Tick
  <2>3. ASSUME NEW a \in Scanners, GoesAway(a) PROVE quiet' \in [Scanners -> Nat]
    BY <2>1, <2>3 DEF GoesAway
  <2>4. ASSUME NEW a \in Scanners, ReportsAgain(a) PROVE quiet' \in [Scanners -> Nat]
    BY <2>1, <2>4 DEF ReportsAgain
  <2> QED
    BY <2>2, <2>3, <2>4
<1>4. reads \subseteq [user : Readers, file : ReadFiles, at : 0..clock']
  <2> SUFFICES ASSUME NEW x \in reads PROVE x \in [user : Readers, file : ReadFiles, at : 0..clock']
    OBVIOUS
  <2>1. x \in [user : Readers, file : ReadFiles, at : 0..clock]
    BY DEF RulesIInv, RulesTyped
  <2>2. 0..clock \subseteq 0..clock'
    BY <1>2
  <2> QED
    BY <2>1, <2>2
<1>5. RulesTyped'
  BY <1>1, <1>2, <1>3, <1>4 DEF RulesIInv, RulesTyped
<1> QED
  BY <1>1, <1>2, <1>5, ReadsOnly

LEMMA PostChangesStep ==
    ASSUME RulesIInv, NEW p \in Posters, NEW es \in SUBSET Changes, post[p].pc \in {"waiting", "done"}, PostChanges(p, es)
    PROVE  RulesIInv'
<1>1. PICK r : r = [pc |-> "store", todo |-> es]
  OBVIOUS
<1>2. r \in PostState /\ PostSound(r)
  BY <1>1, PostStates
<1>3. Becomes(p, r) /\ OnlyPost /\ ~Points(post[p])
  BY <1>1 DEF PostChanges, Points
<1> QED
  BY <1>2, <1>3, PostMoves

LEMMA RulesIInvStep == RulesIInv /\ [RulesNext]_ruleVars => RulesIInv'
<1> SUFFICES ASSUME RulesIInv, [RulesNext]_ruleVars PROVE RulesIInv'
  OBVIOUS
<1>1. CASE Tick
  BY <1>1, TimePassesStep
<1>2. CASE FilePosts
  <2>1. PICK p \in Posters :
           \/ post[p].pc \in {"waiting", "done"} /\ \E es \in SUBSET (Changes \ Stored) : PostChanges(p, es)
           \/ FileStep(p)
    BY <1>2 DEF FilePosts
  <2>2. CASE post[p].pc \in {"waiting", "done"} /\ \E es \in SUBSET (Changes \ Stored) : PostChanges(p, es)
    <3>1. PICK es \in SUBSET (Changes \ Stored) : PostChanges(p, es)
      BY <2>2
    <3>2. es \in SUBSET Changes
      OBVIOUS
    <3> QED
      BY <2>2, <3>1, <3>2, PostChangesStep
  <2>3. CASE post[p].pc = "store" /\ \E e \in post[p].todo, at \in {clock - 1, clock} : StoreChange(p, e, at)
    BY <2>3, StoreStep
  <2>4. CASE post[p].pc = "devices" /\ \E v \in post[p].todo : LookForCopy(p, v)
    BY <2>4, LookForCopyStep
  <2>5. CASE ReadArrivals(p)
    BY <2>5, ArrivalsStep
  <2>6. CASE RaiseCopy(p) \/ NotifyCopy(p)
    BY <2>6, RaiseCopyStep, NotifyCopyStep
  <2>7. CASE CountChanges(p) \/ LookForRate(p) \/ CollectFiles(p)
    BY <2>7, CountChangesStep, LookForRateStep, CollectFilesStep
  <2>8. CASE RaiseRate(p) \/ NotifyRate(p) \/ SuggestQuarantine(p)
    BY <2>8, RaiseRateStep, NotifyRateStep, LastSuggestionStep
  <2> QED
    BY <2>1, <2>2, <2>3, <2>4, <2>5, <2>6, <2>7, <2>8 DEF FileStep
<1>3. CASE ReadPosts
  <2>1. PICK p \in Posters : (\E u \in Readers, f \in ReadFiles : PostReads(p, u, f)) \/ ReadStep(p)
    BY <1>3 DEF ReadPosts
  <2>2. CASE \E u \in Readers, f \in ReadFiles : PostReads(p, u, f)
    BY <2>2, PostReadsStep
  <2>3. CASE ReadStep(p)
    BY <2>3, CountReadsStep, LookForBulkStep, RaiseBulkStep, LastSuggestionStep DEF ReadStep
  <2> QED
    BY <2>1, <2>2, <2>3
<1>4. CASE SilenceSteps
  <2>1. CASE \E a \in Scanners : GoesAway(a) \/ ReportsAgain(a)
    BY <2>1, TimePassesStep
  <2>2. ASSUME NEW s \in Sweeps, SweepStarts(s) \/ SweepStep(s) PROVE RulesIInv'
    BY <2>2, SweepEdgesStep, SweepLooksStep, SweepRaisesStep, SweepSettlesStep DEF SweepStep
  <2> QED
    BY <1>4, <2>1, <2>2 DEF SilenceSteps
<1>5. CASE DecisionStep
  <2>1. PICK d \in Deciders :
           \/ \E ids \in SUBSET DOMAIN raisedAlerts, status \in {"OPEN", "ACKNOWLEDGED", "RESOLVED"} : Decides(d, ids, status)
           \/ (\E i \in DOMAIN raisedAlerts : UpdatesAlert(d, i)) \/ EndsDecision(d)
    BY <1>5 DEF DecisionStep
  <2>2. CASE \E ids \in SUBSET DOMAIN raisedAlerts, status \in {"OPEN", "ACKNOWLEDGED", "RESOLVED"} : Decides(d, ids, status)
    BY <2>2, DecidesStep
  <2>3. CASE \E i \in DOMAIN raisedAlerts : UpdatesAlert(d, i)
    BY <2>3, UpdatesAlertStep
  <2>4. CASE EndsDecision(d)
    BY <2>4, EndsDecisionStep
  <2> QED
    BY <2>1, <2>2, <2>3, <2>4
<1>6. CASE BackendStops
  BY <1>6, BackendStopsStep
<1>7. CASE UNCHANGED ruleVars
  <2>1. /\ UNCHANGED <<clock, occurred, reads, raisedAlerts, post, quiet, check, decision, cut>> /\ Stored' = Stored
        /\ clock <= clock'
    BY <1>7 DEF ruleVars, Stored, RulesIInv, RulesTyped
  <2>2. RulesTyped'
    BY <2>1 DEF RulesIInv, RulesTyped
  <2> QED
    BY <2>1, <2>2, ReadsOnly
<1> QED
  BY <1>1, <1>2, <1>3, <1>4, <1>5, <1>6, <1>7 DEF RulesNext

(***************************************************************************)
(* Every alert is of a rule, an open one has no resolution, and one that a *)
(* person resolved was acknowledged, though the reads and updates of two   *)
(* administrators cross.                                                   *)
(***************************************************************************)
THEOREM RulesTypeCorrect == RulesSpec => []RulesTypeOK
<1>1. RulesIInv => RulesTypeOK
  BY DEF RulesIInv
<1> QED
  BY <1>1, RulesIInvInit, RulesIInvStep, PTL DEF RulesSpec

(***************************************************************************)
(* Alerts are worth reading, however many requests, sweeps, administrators *)
(* and stops of the backend there are: two open ones nobody has touched    *)
(* are of checks that crossed; a finished request that found a burst has   *)
(* an alert of it, raised within the window it looked at; and each has its *)
(* notification suggested, unless the backend stopped in between, and a    *)
(* quarantine only where a changed file may still be there.                *)
(***************************************************************************)
THEOREM AlertsSound == RulesSpec => []AlertsHold
<1>1. RulesIInv => AlertsHold
  <2>1. RulesIInv => BurstsAreTold
    BY DEF RulesIInv, PostSound, BurstsAreTold, Told
  <2> QED
    BY <2>1 DEF RulesIInv, AlertsHold
<1> QED
  BY <1>1, RulesIInvInit, RulesIInvStep, PTL DEF RulesSpec
-----------------------------------------------------------------------------
(***************************************************************************)
(* Attribution.                                                            *)
(*                                                                         *)
(* What has a name has a record for it; what has none fits only records    *)
(* that are still to be filled in, are about to be written to it, or went  *)
(* past it; an update waiting to be written was decided from the row or    *)
(* from what the row was before; and every record down to a bookmark is    *)
(* stored, was passed over by a poll, or is on its way.                    *)
(***************************************************************************)
ChangeTypes == {"CREATED", "MODIFIED", "DELETED", "RENAMED", "COPIED"}
NoiseRecord == Logged(Nobody, Nowhere, "noise")
LogRecord == [user : Users, path : Paths, action : {"READ", "WRITE", "DELETE"}] \cup {NoiseRecord}
ChangeNoticed == [type : ChangeTypes, path : Paths, previous : Paths \cup {Nowhere}]
EventRow == [type : ChangeTypes, path : Paths, previous : Paths \cup {Nowhere}, at : Nat,
             actor : Users \cup {Nobody}]
EventPost == {Quiet, [pc |-> "link"]} \cup [pc : {"look", "create"}, event : EventRow]
RecordPost == [pc : {"sent", "ingest"}, ids : SUBSET Ids, fresh : SUBSET Ids, to : 0..Len(log)]
Bookmarks == {Null} \cup 0..Len(log)
RowUpdate == [row : Nat, seen : EventRow, as : {"actor", "RENAMED", "COPIED"}, from : Nat]
LinkState == [pc : {"rest", "renames", "copies", "reads"}, todo : SUBSET RowUpdate, rows : Seq(EventRow)]

LogTyped == log \in Seq(LogRecord) /\ changes \subseteq ChangeNoticed
EventsTyped == /\ fileEvent \in Seq(EventRow) /\ posted \in EventPost
               /\ links \in [Requests -> LinkState] /\ overwritten \subseteq DOMAIN fileEvent
PostTyped == \/ activity = Quiet
             \/ /\ activity \in RecordPost /\ \A i \in activity.ids : Usable(i)
                /\ activity.pc = "sent" => activity.fresh = {}
StoreTyped == stored \subseteq Ids /\ \A i \in stored : Usable(i)
BookmarksTyped == /\ bookmark \in Bookmarks /\ handed \in Bookmarks /\ start \in Bookmarks
                  /\ collector \in [pc : {"idle", "posting"}, local : Bookmarks]
AttrTyped == LogTyped /\ EventsTyped /\ PostTyped /\ StoreTyped /\ BookmarksTyped /\ lostFirst \in BOOLEAN

\* An event's name has a stored record of that person in the window, and (unless
\* anywhere will do) at its path or the one it came from.
HasRecord(e, anywhere) ==
    e.actor # Nobody => \E i \in stored : /\ log[i].user = e.actor /\ InWindow(e, i)
                                          /\ anywhere \/ log[i].path \in {e.path, e.previous}
NamesKnown ==
    /\ \A k \in DOMAIN fileEvent : HasRecord(fileEvent[k], k \in overwritten)
    /\ posted.pc \in {"look", "create"} => HasRecord(posted.event, FALSE)

\* Row k is e, or what has become of it.
Follows(k, e) ==
    /\ k \in DOMAIN fileEvent /\ fileEvent[k].path = e.path /\ fileEvent[k].at = e.at
    /\ e.actor # Nobody => fileEvent[k].actor # Nobody

\* An update has its record, and was decided from a row that lacked what it brings.
Decided(w) ==
    /\ w.from \in stored /\ InWindow(w.seen, w.from)
    /\ w.as = "actor" => w.seen.actor = Nobody /\ Explains(w.seen, log[w.from])
    /\ w.as # "actor" => w.seen.previous = Nowhere /\ w.seen.actor \in {Nobody, log[w.from].user}

StateSound(s) ==
    /\ \A w \in s.todo : Follows(w.row, w.seen) /\ Decided(w)
    /\ \A k \in DOMAIN s.rows : Follows(k, s.rows[k])
UpdatesSound == \A r \in Requests : StateSound(links[r])

\* An event without a name fits only records of ids.
FitsOnly(e, ids) == e.actor = Nobody => Candidates(e, stored) \subseteq ids
Unfilled == IF activity = Quiet THEN {} ELSE activity.fresh
Coming(k) == {w.from : w \in {v \in links["records"].todo : v.row = k /\ v.as = "actor"}}
Awaited(k) == passed \cup Unfilled \cup Coming(k)
FillsKnown == /\ passed \cup Unfilled \subseteq stored
              /\ activity.pc # "ingest" => links["records"] = Rested
NamesGiven ==
    /\ \A k \in DOMAIN fileEvent : FitsOnly(fileEvent[k], Awaited(k))
    /\ posted.pc = "create" => FitsOnly(posted.event, passed \cup Unfilled)

\* Every record from the start to b is stored, was passed over, or is in a post.
InFlight == IF activity = Quiet THEN {} ELSE activity.ids
Reached(b, more) ==
    \A i \in Ids : i > start /\ i <= b /\ Usable(i) => i \in stored \cup skipped \cup more
NotBegun == bookmark = Null /\ handed = Null /\ collector.local = Null /\ activity = Quiet
RecordsReach ==
    /\ start = Null => NotBegun
    /\ start <= StartsAt
    /\ handed # Null => bookmark # Null
    /\ ~lostFirst =>
        /\ Reached(bookmark, {}) /\ Reached(handed, {})
        /\ handed = Null => Reached(collector.local, InFlight)
        /\ activity # Quiet => Reached(activity.to, InFlight)

AttrIInv == AttrTyped /\ UpdatesSound /\ NamesKnown /\ FillsKnown /\ NamesGiven /\ RecordsReach

LEMMA LessWellFounded == IsWellFoundedOn({p \in Nat \X Nat : p[1] < p[2]}, Nat)
BY NatLessThanWellFounded DEF OpToRel

LEMMA LeastThere ==
    ASSUME NEW S \in SUBSET Nat, S # {}
    PROVE  \E m \in S : \A x \in S : m <= x
<1> DEFINE Less == {p \in Nat \X Nat : p[1] < p[2]}
<1>1. \E m \in S : \A k \in S : ~(<<k, m>> \in Less)
  <2>1. IsWellFoundedOn(Less, Nat)
    BY LessWellFounded
  <2> HIDE DEF Less
  <2> QED
    BY <2>1, WFMin, Zenon
<1>2. \A k, m \in S : ~(<<k, m>> \in Less) => m <= k
  OBVIOUS
<1> HIDE DEF Less
<1> QED
  BY <1>1, <1>2

LEMMA GreatestThere ==
    ASSUME NEW n \in Nat, NEW S \in SUBSET (0..n), S # {}
    PROVE  \E m \in S : \A x \in S : x <= m
<1> DEFINE Bounds == {k \in Nat : \A x \in S : x <= k}
<1>1. Bounds \in SUBSET Nat /\ n \in Bounds
  OBVIOUS
<1>2. PICK m \in Bounds : \A k \in Bounds : m <= k
  <2> HIDE DEF Bounds
  <2> QED
    BY <1>1, LeastThere
<1>3. m \in S
  <2> SUFFICES ASSUME m \notin S PROVE FALSE
    OBVIOUS
  <2>1. PICK y \in S : TRUE
    OBVIOUS
  <2>2. m \in Nat /\ y <= m /\ y \in Nat /\ y # m
    OBVIOUS
  <2>3. m - 1 \in Bounds
    BY <2>2
  <2> QED
    BY <1>2, <2>2, <2>3
<1> QED
  BY <1>3

LEMMA NewestThere ==
    ASSUME NEW n \in Nat, NEW S \in SUBSET (0..n), S # {}
    PROVE  Newest(S) \in S /\ \A x \in S : x <= Newest(S)
BY GreatestThere DEF Newest

\* What is stored is of people and files.
LEMMA StoredRecords ==
    ASSUME AttrTyped
    PROVE  /\ Len(log) \in Nat /\ Ids = 1..Len(log) /\ stored \in SUBSET Ids /\ Null \notin Nat
           /\ \A i \in Ids : log[i] \in LogRecord
           /\ \A i \in stored : /\ i \in Ids /\ i \in Nat /\ log[i].user \in Users /\ log[i].path \in Paths
                                /\ log[i].user # Nobody /\ log[i].path # Nowhere
<1>1. log \in Seq(LogRecord) /\ stored \subseteq Ids /\ \A i \in stored : Usable(i)
  BY DEF AttrTyped, LogTyped, StoreTyped
<1>2. Len(log) \in Nat /\ Ids = 1..Len(log) /\ \A i \in Ids : log[i] \in LogRecord
  BY <1>1 DEF Ids
<1>3. \A i \in stored : i \in Ids /\ i \in Nat /\ log[i].action # "noise"
  BY <1>1, <1>2 DEF Usable
<1>4. \A x \in LogRecord : x.action # "noise" => x.user \in Users /\ x.path \in Paths
  BY DEF LogRecord, NoiseRecord, Logged
<1>5. \A i \in stored : log[i].user \in Users /\ log[i].path \in Paths
  BY <1>2, <1>3, <1>4
<1> QED
  BY <1>1, <1>2, <1>3, <1>5, AttributionAssumption DEF Nobody, Nowhere, Null

LEMMA EarliestThere ==
    ASSUME NEW n \in Nat, NEW S \in SUBSET (1..n), S # {}
    PROVE  Earliest(S) \in S
<1>1. S \in SUBSET Nat
  OBVIOUS
<1> QED
  BY <1>1, LeastThere DEF Earliest

\* The recursion that links renames has a solution, so it is one.
LEMMA LinkingIs ==
    ASSUME Len(fileEvent) \in Nat
    PROVE  /\ Linking[0] = [todo |-> {}, used |-> {}]
           /\ \A n \in 1..Len(fileEvent) : Linking[n] = LinkRename(Linking[n - 1], n)
<1> DEFINE First == [todo |-> {}, used |-> {}]
           Solves(f, m) == f = [n \in 0..m |-> IF n = 0 THEN First ELSE LinkRename(f[n - 1], n)]
           Unsolved == {m \in 0..Len(fileEvent) : ~\E f : Solves(f, m)}
<1>1. \E f : Solves(f, 0)
  <2>1. PICK f : f = [n \in 0..0 |-> First]
    OBVIOUS
  <2>2. f = [n \in 0..0 |-> IF n = 0 THEN First ELSE LinkRename(f[n - 1], n)]
    BY <2>1
  <2> QED
    BY <2>2
<1>2. ASSUME NEW m \in 1..Len(fileEvent), \E f : Solves(f, m - 1) PROVE \E f : Solves(f, m)
  <2>1. PICK f : f = [n \in 0..(m - 1) |-> IF n = 0 THEN First ELSE LinkRename(f[n - 1], n)]
    BY <1>2
  <2>2. PICK x : x = LinkRename(f[m - 1], m)
    OBVIOUS
  <2>3. PICK g : g = [n \in 0..m |-> IF n = m THEN x ELSE f[n]]
    OBVIOUS
  <2>4. \A n \in 0..m : g[n] = IF n = 0 THEN First ELSE LinkRename(g[n - 1], n)
    <3> SUFFICES ASSUME NEW n \in 0..m PROVE g[n] = IF n = 0 THEN First ELSE LinkRename(g[n - 1], n)
      OBVIOUS
    <3> HIDE DEF First
    <3>1. m \in Nat /\ m # 0 /\ (n # m => n \in 0..(m - 1)) /\ (n # 0 => n - 1 \in 0..(m - 1) /\ n - 1 # m /\ n - 1 \in 0..m)
      OBVIOUS
    <3>2. n # m => g[n] = f[n]
      BY <2>3
    <3>3. n # 0 => g[n - 1] = f[n - 1]
      BY <2>3, <3>1
    <3>4. n = m => g[n] = x
      BY <2>3
    <3>5. n # m => f[n] = IF n = 0 THEN First ELSE LinkRename(f[n - 1], n)
      BY <2>1, <3>1
    <3> QED
      BY <2>2, <3>1, <3>2, <3>3, <3>4, <3>5, Zenon
  <2>5. g = [n \in 0..m |-> g[n]]
    BY <2>3
  <2>6. g = [n \in 0..m |-> IF n = 0 THEN First ELSE LinkRename(g[n - 1], n)]
    <3> HIDE DEF First
    <3> QED
      BY <2>4, <2>5, Zenon
  <2> QED
    BY <2>6
<1>3. Unsolved = {}
  <2> SUFFICES ASSUME Unsolved # {} PROVE FALSE
    OBVIOUS
  <2>1. Unsolved \in SUBSET Nat /\ Unsolved \in SUBSET (0..Len(fileEvent))
    OBVIOUS
  <2> HIDE DEF Solves
  <2>2. PICK m \in Unsolved : \A k \in Unsolved : m <= k
    <3> HIDE DEF Unsolved
    <3> QED
      BY <2>1, LeastThere
  <2>3. m \in 0..Len(fileEvent) /\ ~\E f : Solves(f, m)
    BY <2>2
  <2>4. m # 0
    BY <1>1, <2>3
  <2>5. m \in 1..Len(fileEvent) /\ m - 1 \in 0..Len(fileEvent) /\ ~(m <= m - 1)
    BY <2>3, <2>4
  <2>6. \E f : Solves(f, m - 1)
    BY <2>2, <2>5
  <2> QED
    BY <1>2, <2>3, <2>5, <2>6
<1>4. \E f : Solves(f, Len(fileEvent))
  <2> HIDE DEF Solves
  <2> QED
    BY <1>3
<1>5. Linking = CHOOSE f : f = [n \in 0..Len(fileEvent) |-> IF n = 0 THEN First ELSE LinkRename(f[n - 1], n)]
  BY DEF Linking
<1>6. Linking = [n \in 0..Len(fileEvent) |-> IF n = 0 THEN First ELSE LinkRename(Linking[n - 1], n)]
  <2> HIDE DEF First
  <2> QED
    BY <1>4, <1>5
<1>7. PICK done : done = Linking
  OBVIOUS
<1>8. done = [n \in 0..Len(fileEvent) |-> IF n = 0 THEN First ELSE LinkRename(done[n - 1], n)]
  <2> HIDE DEF First
  <2> QED
    BY <1>6, <1>7
<1>9. done[0] = First /\ \A n \in 1..Len(fileEvent) : done[n] = LinkRename(done[n - 1], n)
  <2> HIDE DEF First
  <2>1. 0 \in 0..Len(fileEvent) /\ \A n \in 1..Len(fileEvent) : n \in 0..Len(fileEvent) /\ n # 0
    OBVIOUS
  <2>2. \A n \in 0..Len(fileEvent) : done[n] = IF n = 0 THEN First ELSE LinkRename(done[n - 1], n)
    BY <1>8
  <2> QED
    BY <2>1, <2>2
<1> QED
  BY <1>7, <1>9

\* What linking may write: an update decided from a row as it was, for a record.
Justified(w) == w \in RowUpdate /\ Follows(w.row, w.seen) /\ Decided(w) /\ w.as # "actor"

LEMMA RenameIsJustified ==
    ASSUME AttrTyped, NEW k \in DOMAIN fileEvent, NEW used,
           Unexplained(fileEvent[k]), OnlyOne(Deletes(fileEvent[k], used))
    PROVE  Justified(Update(k, "RENAMED", Newest(Deletes(fileEvent[k], used))))
<1>1. PICK e \in EventRow : e = fileEvent[k] /\ k \in Nat
  BY DEF AttrTyped, EventsTyped
<1>2. PICK S : S = Deletes(e, used)
  OBVIOUS
<1>3. S \in SUBSET stored /\ \A i \in S : InWindow(e, i)
  BY <1>2 DEF Deletes
<1>4. S \in SUBSET (0..Len(log)) /\ Len(log) \in Nat
  BY <1>3, StoredRecords
<1>5. S # {}
  BY <1>1, <1>2, FS_EmptySet DEF OnlyOne
<1>6. PICK i \in S : i = Newest(S)
  BY <1>4, <1>5, NewestThere
<1>7. PICK w : w = [row |-> k, seen |-> e, as |-> "RENAMED", from |-> i]
  OBVIOUS
<1>8. w = Update(k, "RENAMED", Newest(Deletes(fileEvent[k], used)))
  BY <1>1, <1>2, <1>6, <1>7 DEF Update
<1>9. w \in RowUpdate
  BY <1>1, <1>3, <1>6, <1>7, StoredRecords DEF RowUpdate
<1>10. Follows(w.row, w.seen)
  BY <1>1, <1>7 DEF Follows
<1>11. Decided(w)
  BY <1>1, <1>3, <1>6, <1>7 DEF Decided, Unexplained
<1> QED
  BY <1>7, <1>8, <1>9, <1>10, <1>11 DEF Justified

\* By induction over the rows.
LEMMA LinkingSound ==
    ASSUME AttrTyped
    PROVE  \A w \in RenameUpdates : Justified(w)
<1> DEFINE AllJustified(n) == \A w \in Linking[n].todo : Justified(w)
           Wrong == {n \in 0..Len(fileEvent) : ~AllJustified(n)}
<1>1. Len(fileEvent) \in Nat /\ DOMAIN fileEvent = 1..Len(fileEvent)
  BY DEF AttrTyped, EventsTyped
<1>2. AllJustified(0)
  BY <1>1, LinkingIs
<1>3. ASSUME NEW n \in 1..Len(fileEvent), AllJustified(n - 1) PROVE AllJustified(n)
  <2>1. PICK acc : acc = Linking[n - 1]
    OBVIOUS
  <2>2. Linking[n] = LinkRename(acc, n) /\ \A w \in acc.todo : Justified(w)
    BY <1>1, <1>3, <2>1, LinkingIs
  <2>3. CASE Unexplained(fileEvent[n]) /\ OnlyOne(Deletes(fileEvent[n], acc.used))
    <3>1. PICK v : v = Update(n, "RENAMED", Newest(Deletes(fileEvent[n], acc.used)))
      OBVIOUS
    <3>2. Justified(v)
      BY <1>1, <2>3, <3>1, RenameIsJustified
    <3>3. Linking[n].todo = acc.todo \cup {v}
      BY <2>2, <2>3, <3>1 DEF LinkRename
    <3> QED
      BY <2>2, <3>2, <3>3
  <2>4. CASE ~(Unexplained(fileEvent[n]) /\ OnlyOne(Deletes(fileEvent[n], acc.used)))
    <3>1. Linking[n] = acc
      BY <2>2, <2>4 DEF LinkRename
    <3> QED
      BY <2>2, <3>1
  <2> QED
    BY <2>3, <2>4
<1> HIDE DEF AllJustified
<1>4. Wrong = {}
  <2> SUFFICES ASSUME Wrong # {} PROVE FALSE
    OBVIOUS
  <2>1. Wrong \in SUBSET Nat
    OBVIOUS
  <2>2. PICK n \in Wrong : \A k \in Wrong : n <= k
    <3> HIDE DEF Wrong
    <3> QED
      BY <2>1, LeastThere
  <2>3. n \in 0..Len(fileEvent) /\ ~AllJustified(n) /\ n # 0
    BY <1>2, <2>2
  <2>4. n \in 1..Len(fileEvent) /\ n - 1 \in 0..Len(fileEvent) /\ ~(n <= n - 1)
    BY <1>1, <2>3
  <2>5. AllJustified(n - 1)
    BY <2>2, <2>4
  <2> QED
    BY <1>3, <2>3, <2>4, <2>5
<1>5. AllJustified(Len(fileEvent))
  BY <1>1, <1>4
<1> QED
  BY <1>5 DEF AllJustified, RenameUpdates

LEMMA CopiesJustified ==
    ASSUME AttrTyped, NEW rows \in Seq(EventRow), \A k \in DOMAIN rows : Follows(k, rows[k]),
           NEW first, \A k \in DOMAIN rows : MayBeCopy(rows[k]) => first[k] \in Reads(rows[k])
    PROVE  \A w \in CopyUpdates(rows, first) : Justified(w)
<1> SUFFICES ASSUME NEW w \in CopyUpdates(rows, first) PROVE Justified(w)
  OBVIOUS
<1>1. PICK k \in DOMAIN rows : /\ MayBeCopy(rows[k]) /\ rows[k].actor \in {Nobody, log[first[k]].user}
                               /\ w = [row |-> k, seen |-> rows[k], as |-> "COPIED", from |-> first[k]]
  BY DEF CopyUpdates
<1>8. PICK i : i = first[k]
  OBVIOUS
<1>2. PICK e \in EventRow : e = rows[k] /\ i = first[k] /\ k \in Nat
  BY <1>8
<1>3. i \in stored /\ InWindow(e, i)
  BY <1>1, <1>2 DEF Reads
<1>4. w = [row |-> k, seen |-> e, as |-> "COPIED", from |-> i] /\ e.previous = Nowhere
      /\ e.actor \in {Nobody, log[i].user}
  BY <1>1, <1>2 DEF MayBeCopy
<1>5. w \in RowUpdate
  BY <1>2, <1>3, <1>4, StoredRecords DEF RowUpdate
<1>6. Follows(w.row, w.seen)
  BY <1>2, <1>4
<1>7. Decided(w)
  BY <1>3, <1>4 DEF Decided
<1> QED
  BY <1>4, <1>5, <1>6, <1>7 DEF Justified

\* While the log stays as it is, so does what is read off it.
LEMMA SteadyLog ==
    ASSUME log' = log
    PROVE  /\ Ids' = Ids /\ Bookmarks' = Bookmarks /\ RecordPost' = RecordPost /\ StartsAt' = StartsAt
           /\ \A i : Usable(i)' <=> Usable(i)
<1>1. Ids' = Ids /\ StartsAt' = StartsAt /\ \A i : Usable(i)' <=> Usable(i)
  BY DEF Ids, StartsAt, Usable
<1>2. Bookmarks' = Bookmarks /\ RecordPost' = RecordPost
  BY <1>1 DEF Bookmarks, RecordPost
<1> QED
  BY <1>1, <1>2

\* Records stay, and rows stay what they are of and do not lose their names.
RecordsStay == stored \subseteq stored' /\ \A i \in stored : log'[i] = log[i]
RowsGoOn ==
    \A k \in DOMAIN fileEvent :
        /\ k \in DOMAIN fileEvent' /\ fileEvent'[k].path = fileEvent[k].path /\ fileEvent'[k].at = fileEvent[k].at
        /\ fileEvent[k].actor # Nobody => fileEvent'[k].actor # Nobody

LEMMA RecordsKeep ==
    ASSUME RecordsStay
    PROVE  /\ \A e, a : HasRecord(e, a) => HasRecord(e, a)'
           /\ \A w : Decided(w) => Decided(w)'
           /\ stored' = stored => \A e, S : FitsOnly(e, S) <=> FitsOnly(e, S)'
<1>1. \A e, i : InWindow(e, i)' <=> InWindow(e, i)
  BY DEF InWindow
<1>2. \A e, r : Explains(e, r)' <=> Explains(e, r)
  BY DEF Explains
<1>3. \A e, a : HasRecord(e, a) => HasRecord(e, a)'
  BY <1>1 DEF HasRecord, RecordsStay
<1>4. \A w : Decided(w) => Decided(w)'
  BY DEF Decided, RecordsStay, InWindow, Explains
<1>5. stored' = stored => \A e : Candidates(e, stored)' = Candidates(e, stored)
  BY DEF Candidates, RecordsStay, InWindow, Explains
<1>6. stored' = stored => \A e, S : FitsOnly(e, S) <=> FitsOnly(e, S)'
  BY <1>5 DEF FitsOnly
<1> QED
  BY <1>3, <1>4, <1>6

LEMMA StatesSound ==
    ASSUME RecordsStay, RowsGoOn
    PROVE  \A s : StateSound(s) => StateSound(s)'
<1>1. \A k, e : Follows(k, e) => Follows(k, e)'
  BY DEF Follows, RowsGoOn
<1>2. \A w : Decided(w) => Decided(w)'
  BY RecordsKeep
<1> QED
  BY <1>1, <1>2 DEF StateSound

\* The states of the links stay sound where they change to sound ones.
LEMMA UpdatesStaySound ==
    ASSUME UpdatesSound, RecordsStay, RowsGoOn, NEW r \in Requests, NEW s, StateSound(s),
           links \in [Requests -> LinkState], links' = [links EXCEPT ![r] = s]
    PROVE  UpdatesSound'
<1> SUFFICES ASSUME NEW q \in Requests PROVE StateSound(links[q])'
  BY DEF UpdatesSound, Requests
<1>1. PICK t : t = links'[q]
  OBVIOUS
<1>2. StateSound(t)
  BY <1>1 DEF UpdatesSound
<1>3. StateSound(t)'
  BY <1>2, StatesSound
<1> QED
  BY <1>1, <1>3 DEF StateSound

LEMMA UpdatesUntouched ==
    ASSUME UpdatesSound, RecordsStay, RowsGoOn, links' = links
    PROVE  UpdatesSound'
<1> SUFFICES ASSUME NEW q \in Requests PROVE StateSound(links[q])'
  BY DEF UpdatesSound, Requests
<1>1. PICK t : t = links[q]
  OBVIOUS
<1>2. StateSound(t)'
  BY <1>1, StatesSound DEF UpdatesSound
<1> QED
  BY <1>1, <1>2 DEF StateSound

\* What awaits an event without a name may grow, and a row may get its name.
LEMMA NamesStayGiven ==
    ASSUME NamesGiven, RecordsStay, stored' = stored,
           \A k \in DOMAIN fileEvent' :
               \/ fileEvent'[k].actor # Nobody
               \/ /\ k \in DOMAIN fileEvent /\ fileEvent'[k] = fileEvent[k]
                  /\ \A i \in Awaited(k) : i \in Awaited(k)' \/ i \notin Candidates(fileEvent[k], stored),
           \/ posted'.pc # "create"
           \/ posted' = posted /\ passed \cup Unfilled \subseteq (passed \cup Unfilled)'
    PROVE  NamesGiven'
<1>1. \A e, S : FitsOnly(e, S) <=> FitsOnly(e, S)'
  BY RecordsKeep
<1>2. ASSUME NEW k \in DOMAIN fileEvent', NEW e, e = fileEvent'[k], e.actor = Nobody,
             NEW S, S = Awaited(k)'
      PROVE  FitsOnly(e, S)'
  <2>1. k \in DOMAIN fileEvent /\ e = fileEvent[k]
        /\ \A i \in Awaited(k) : i \in S \/ i \notin Candidates(e, stored)
    BY <1>2
  <2>2. FitsOnly(e, Awaited(k))
    BY <2>1 DEF NamesGiven
  <2>3. FitsOnly(e, S)
    BY <2>1, <2>2 DEF FitsOnly
  <2> QED
    BY <1>1, <2>3
<1>3. \A k \in DOMAIN fileEvent' : FitsOnly(fileEvent[k], Awaited(k))'
  <2> SUFFICES ASSUME NEW k \in DOMAIN fileEvent' PROVE FitsOnly(fileEvent[k], Awaited(k))'
    OBVIOUS
  <2>1. PICK e : e = fileEvent'[k]
    OBVIOUS
  <2>2. PICK S : S = Awaited(k)'
    OBVIOUS
  <2>3. FitsOnly(e, S)'
    <3>1. CASE e.actor = Nobody
      BY <1>2, <2>1, <2>2, <3>1
    <3>2. CASE e.actor # Nobody
      BY <3>2 DEF FitsOnly
    <3> QED
      BY <3>1, <3>2
  <2> QED
    BY <2>1, <2>2, <2>3 DEF FitsOnly
<1>4. posted'.pc = "create" => FitsOnly(posted.event, passed \cup Unfilled)'
  <2> SUFFICES ASSUME posted'.pc = "create" PROVE FitsOnly(posted.event, passed \cup Unfilled)'
    OBVIOUS
  <2>1. PICK e : e = posted'.event
    OBVIOUS
  <2>2. PICK S : S = (passed \cup Unfilled)'
    OBVIOUS
  <2>3. FitsOnly(e, S)
    BY <2>1, <2>2 DEF NamesGiven, FitsOnly
  <2> QED
    BY <1>1, <2>1, <2>2, <2>3 DEF FitsOnly
<1> QED
  BY <1>3, <1>4 DEF NamesGiven

\* What the posts of events and the links leave alone.
RecordsRest == UNCHANGED <<log, stored, bookmark, handed, collector, activity, start, skipped, lostFirst>>

LEMMA RestReaches ==
    ASSUME RecordsReach, RecordsRest
    PROVE  RecordsReach'
<1> USE DEF RecordsRest
<1>1. Ids' = Ids /\ StartsAt' = StartsAt /\ \A i : Usable(i)' <=> Usable(i)
  BY SteadyLog
<1>2. InFlight' = InFlight
  BY DEF InFlight, Quiet
<1>4. NotBegun' <=> NotBegun
  BY DEF NotBegun, Quiet
<1>5. /\ Reached(bookmark, {})' <=> Reached(bookmark, {})
      /\ Reached(handed, {})' <=> Reached(handed, {})
  BY <1>1 DEF Reached
<1>6. /\ Reached(collector.local, InFlight)' <=> Reached(collector.local, InFlight)
      /\ Reached(activity.to, InFlight)' <=> Reached(activity.to, InFlight)
  BY <1>1, <1>2 DEF Reached
<1> QED
  BY <1>1, <1>4, <1>5, <1>6 DEF RecordsReach, Quiet, Null

\* The rest of the types, for a post of events and the links.
LEMMA RestTyped ==
    ASSUME AttrTyped, RecordsRest, changes' \subseteq ChangeNoticed, EventsTyped'
    PROVE  AttrTyped'
<1> USE DEF RecordsRest
<1>1. /\ Ids' = Ids /\ Bookmarks' = Bookmarks /\ RecordPost' = RecordPost
      /\ \A i : Usable(i)' <=> Usable(i)
  BY SteadyLog
<1>2. LogTyped'
  BY DEF AttrTyped, LogTyped
<1>3. PostTyped'
  BY <1>1 DEF AttrTyped, PostTyped, Quiet
<1>4. StoreTyped' /\ BookmarksTyped'
  BY <1>1 DEF AttrTyped, StoreTyped, BookmarksTyped
<1> QED
  BY <1>2, <1>3, <1>4 DEF AttrTyped

LEMMA RestIs ==
    ASSUME RecordsRest
    PROVE  RecordsStay /\ stored' = stored /\ Unfilled' = Unfilled
BY DEF RecordsRest, RecordsStay, Unfilled, Quiet

LEMMA AttrIInvInit == AttrInit => AttrIInv
<1> SUFFICES ASSUME AttrInit PROVE AttrIInv
  OBVIOUS
<1> USE DEF AttrInit
<1>1. /\ Len(log) = 0 /\ Ids = {} /\ log \in Seq(LogRecord) /\ fileEvent \in Seq(EventRow) /\ fileEvent = <<>>
      /\ DOMAIN fileEvent = {}
  BY DEF Ids
<1>2. \A r \in Requests : links[r] = Rested
  OBVIOUS
<1>3. AttrTyped
  <2>1. links \in [Requests -> LinkState]
    BY DEF Rested, LinkState
  <2>2. LogTyped /\ EventsTyped
    BY <1>1, <2>1 DEF LogTyped, EventsTyped, EventPost
  <2>3. PostTyped /\ StoreTyped
    BY DEF PostTyped, StoreTyped
  <2>4. BookmarksTyped
    BY DEF BookmarksTyped, Bookmarks
  <2> QED
    BY <2>2, <2>3, <2>4 DEF AttrTyped
<1>4. UpdatesSound
  BY <1>2 DEF UpdatesSound, StateSound, Rested
<1>5. NamesKnown
  BY <1>1 DEF NamesKnown, Quiet
<1>6. FillsKnown
  BY <1>2 DEF FillsKnown, Unfilled, Requests
<1>7. NamesGiven
  BY <1>1 DEF NamesGiven, Quiet
<1>8. RecordsReach
  BY <1>1, AttributionAssumption DEF RecordsReach, NotBegun, Reached, StartsAt, Null, Quiet
<1> QED
  BY <1>3, <1>4, <1>5, <1>6, <1>7, <1>8 DEF AttrIInv

\* The log grows, and nothing else of what is kept changes.
Grown ==
    /\ log' \in Seq(LogRecord) /\ Len(log') >= Len(log) /\ \A i \in Ids : log'[i] = log[i]
    /\ changes' \subseteq ChangeNoticed
    /\ UNCHANGED <<posted, fileEvent, stored, bookmark, handed, collector, activity, start, skipped,
                   lostFirst, links, passed, overwritten>>

PeopleStep ==
    \/ \E u \in Users, p \in Paths : \/ Write(u, p) \/ Delete(u, p) \/ OpenFile(u, p)
                                     \/ \E q \in Paths \ {p} : Rename(u, p, q) \/ Copy(u, p, q)
    \/ Noise

LEMMA HappensGrows ==
    ASSUME AttrTyped, NEW records \in Seq(LogRecord), NEW noticed \in SUBSET ChangeNoticed,
           Happens(records, noticed)
    PROVE  Grown
<1>1. log \in Seq(LogRecord) /\ changes \subseteq ChangeNoticed
  BY DEF AttrTyped, LogTyped
<1>2. log' = log \o records /\ changes' = changes \cup noticed
  BY DEF Happens
<1>3. /\ log \o records \in Seq(LogRecord) /\ Len(log \o records) >= Len(log)
      /\ \A i \in 1..Len(log) : (log \o records)[i] = log[i]
  BY <1>1, ConcatProperties
<1>4. /\ UNCHANGED <<posted, fileEvent, stored, bookmark, handed, collector, activity, start, skipped,
                     lostFirst, links, passed, overwritten>>
  BY DEF Happens
<1> QED
  BY <1>1, <1>2, <1>3, <1>4 DEF Grown, Ids

LEMMA PeopleGrow ==
    ASSUME AttrTyped, PeopleStep
    PROVE  Grown
<1>1. \A u \in Users, p \in Paths, a \in {"READ", "WRITE", "DELETE"} :
          Logged(u, p, a) \in LogRecord /\ <<Logged(u, p, a)>> \in Seq(LogRecord)
  BY DEF Logged, LogRecord
<1>2. \A t \in ChangeTypes, p \in Paths, q \in Paths \cup {Nowhere} : {Change(t, p, q)} \in SUBSET ChangeNoticed
  BY DEF Change, ChangeNoticed
<1>3. ASSUME NEW u \in Users, NEW p \in Paths, Write(u, p) PROVE Grown
  <2>1. PICK t \in {"CREATED", "MODIFIED"} : Happens(<<Logged(u, p, "WRITE")>>, {Change(t, p, Nowhere)})
    BY <1>3 DEF Write
  <2> QED
    BY <1>1, <1>2, <2>1, HappensGrows DEF ChangeTypes
<1>4. ASSUME NEW u \in Users, NEW p \in Paths, Delete(u, p) \/ OpenFile(u, p) PROVE Grown
  <2>1. {} \in SUBSET ChangeNoticed
    OBVIOUS
  <2>2. CASE Delete(u, p)
    BY <1>1, <1>2, <2>2, HappensGrows DEF Delete, ChangeTypes
  <2>3. CASE OpenFile(u, p)
    BY <1>1, <2>1, <2>3, HappensGrows DEF OpenFile
  <2> QED
    BY <1>4, <2>2, <2>3
<1>5. ASSUME NEW u \in Users, NEW p \in Paths, NEW q \in Paths, Rename(u, p, q) PROVE Grown
  <2>1. PICK c \in {Change("RENAMED", q, p), Change("CREATED", q, Nowhere)} :
            Happens(<<Logged(u, p, "DELETE")>>, {c})
    BY <1>5 DEF Rename
  <2>2. {c} \in SUBSET ChangeNoticed
    BY <1>2, <2>1 DEF ChangeTypes
  <2> QED
    BY <1>1, <2>1, <2>2, HappensGrows
<1>6. ASSUME NEW u \in Users, NEW p \in Paths, NEW q \in Paths, Copy(u, p, q) PROVE Grown
  <2>1. <<Logged(u, p, "READ"), Logged(u, q, "WRITE")>> \in Seq(LogRecord)
    <3>1. Logged(u, p, "READ") \in LogRecord /\ Logged(u, q, "WRITE") \in LogRecord
      BY <1>1
    <3> QED
      BY <3>1
  <2>2. PICK t \in {"COPIED", "CREATED"} :
            Happens(<<Logged(u, p, "READ"), Logged(u, q, "WRITE")>>, {Change(t, q, Nowhere)})
    BY <1>6 DEF Copy
  <2>3. {Change(t, q, Nowhere)} \in SUBSET ChangeNoticed
    BY <1>2 DEF ChangeTypes
  <2> QED
    BY <2>1, <2>2, <2>3, HappensGrows
<1>7. CASE Noise
  <2>1. log \in Seq(LogRecord) /\ changes \subseteq ChangeNoticed /\ NoiseRecord \in LogRecord
    BY DEF AttrTyped, LogTyped, LogRecord
  <2>2. log' = Append(log, NoiseRecord)
    BY <1>7 DEF Noise, NoiseRecord
  <2>3. /\ log' \in Seq(LogRecord) /\ Len(log') >= Len(log) /\ \A i \in 1..Len(log) : log'[i] = log[i]
    BY <2>1, <2>2, AppendProperties
  <2>4. /\ UNCHANGED <<changes, posted, fileEvent, stored, bookmark, handed, collector, activity, start, skipped,
                       lostFirst, links, passed, overwritten>>
    BY <1>7 DEF Noise
  <2> QED
    BY <2>1, <2>3, <2>4 DEF Grown, Ids
<1> QED
  BY <1>3, <1>4, <1>5, <1>6, <1>7 DEF PeopleStep

LEMMA GrownKeeps ==
    ASSUME AttrIInv, Grown
    PROVE  AttrIInv'
<1>1. AttrTyped /\ UpdatesSound /\ NamesKnown /\ FillsKnown /\ NamesGiven /\ RecordsReach
  BY DEF AttrIInv
<1>2. Len(log) \in Nat /\ Len(log') \in Nat /\ Len(log) <= Len(log') /\ Ids = 1..Len(log) /\ Ids' = 1..Len(log')
  BY <1>1 DEF Grown, Ids, AttrTyped, LogTyped
<1>3. Ids \subseteq Ids' /\ \A i \in Ids : log'[i] = log[i] /\ (Usable(i)' <=> Usable(i))
  BY <1>2 DEF Grown, Usable
<1>4. /\ posted' = posted /\ fileEvent' = fileEvent /\ stored' = stored /\ bookmark' = bookmark /\ handed' = handed
      /\ collector' = collector /\ activity' = activity /\ start' = start /\ skipped' = skipped
      /\ lostFirst' = lostFirst /\ links' = links /\ passed' = passed /\ overwritten' = overwritten
  BY DEF Grown
<1>5. stored \subseteq Ids /\ \A i \in stored : Usable(i)
  BY <1>1 DEF AttrTyped, StoreTyped
<1>6. AttrTyped'
  <2>1. LogTyped' /\ EventsTyped'
    BY <1>1, <1>4 DEF AttrTyped, LogTyped, EventsTyped, Grown, Quiet, Requests
  <2>2. PostTyped'
    <3>1. CASE activity = Quiet
      BY <1>4, <3>1 DEF PostTyped, Quiet
    <3>2. CASE activity # Quiet
      <4>1. activity \in RecordPost /\ (\A i \in activity.ids : Usable(i)) /\ (activity.pc = "sent" => activity.fresh = {})
        BY <1>1, <3>2 DEF AttrTyped, PostTyped
      <4>2. activity.ids \subseteq Ids
        BY <4>1 DEF RecordPost
      <4>3. activity \in RecordPost'
        <5>1. SUBSET Ids \subseteq SUBSET Ids' /\ 0..Len(log) \subseteq 0..Len(log')
          BY <1>2
        <5> QED
          BY <4>1, <5>1 DEF RecordPost
      <4> QED
        BY <1>3, <1>4, <4>1, <4>2, <4>3 DEF PostTyped
    <3> QED
      BY <3>1, <3>2
  <2>3. StoreTyped'
    BY <1>3, <1>4, <1>5 DEF StoreTyped
  <2>4. BookmarksTyped'
    <3>1. Bookmarks \subseteq Bookmarks'
      BY <1>2 DEF Bookmarks
    <3> QED
      BY <1>1, <1>4, <3>1 DEF AttrTyped, BookmarksTyped
  <2> QED
    BY <1>1, <1>4, <2>1, <2>2, <2>3, <2>4 DEF AttrTyped
<1>7. RecordsStay /\ RowsGoOn
  BY <1>3, <1>4, <1>5 DEF RecordsStay, RowsGoOn
<1>8. UpdatesSound'
  BY <1>1, <1>4, <1>7, UpdatesUntouched
<1>9. NamesKnown'
  BY <1>1, <1>4, <1>7, RecordsKeep DEF NamesKnown, HasRecord
<1>10. FillsKnown'
  BY <1>1, <1>4 DEF FillsKnown, Unfilled, Quiet, Rested
<1>11. NamesGiven'
  <2>1. \A k : Awaited(k)' = Awaited(k)
    BY <1>4 DEF Awaited, Unfilled, Coming, Quiet
  <2>2. (passed \cup Unfilled)' = passed \cup Unfilled
    BY <1>4 DEF Unfilled, Quiet
  <2> QED
    BY <1>1, <1>4, <1>7, <2>1, <2>2, NamesStayGiven
<1>12. RecordsReach'
  <2>1. \A b, more : b \in Bookmarks /\ Reached(b, more) => Reached(b, more)'
    <3> SUFFICES ASSUME NEW b \in Bookmarks, NEW more, Reached(b, more), NEW i \in Ids',
                        i > start', i <= b, Usable(i)'
                 PROVE  i \in stored' \cup skipped' \cup more
      BY DEF Reached
    <3>1. i \in Ids
      BY <1>2 DEF Bookmarks, Null
    <3> QED
      BY <1>3, <1>4, <3>1 DEF Reached
  <2>2. InFlight' = InFlight
    BY <1>4 DEF InFlight, Quiet
  <2>3. StartsAt <= StartsAt' /\ StartsAt \in Int /\ StartsAt' \in Int
    BY <1>2, AttributionAssumption DEF StartsAt
  <2>4. start \in Int
    BY <1>1, <1>2 DEF AttrTyped, BookmarksTyped, Bookmarks, Null
  <2>5. bookmark \in Bookmarks /\ handed \in Bookmarks /\ collector.local \in Bookmarks
        /\ (activity # Quiet => activity.to \in Bookmarks)
    BY <1>1, <1>2 DEF AttrTyped, BookmarksTyped, PostTyped, RecordPost, Bookmarks
  <2>6. NotBegun' <=> NotBegun
    BY <1>4 DEF NotBegun, Quiet
  <2>7. PICK x : x = InFlight
    OBVIOUS
  <2>9. /\ Reached(bookmark, {}) => Reached(bookmark, {})'
        /\ Reached(handed, {}) => Reached(handed, {})'
    BY <1>4, <2>1, <2>5 DEF Reached
  <2>10. /\ Reached(collector.local, InFlight) => Reached(collector.local, InFlight)'
         /\ activity # Quiet /\ Reached(activity.to, InFlight) => Reached(activity.to, InFlight)'
    <3>1. PICK b : b = collector.local
      OBVIOUS
    <3>2. PICK c : c = activity.to
      OBVIOUS
    <3> QED
      BY <1>4, <2>1, <2>2, <2>5, <2>7, <3>1, <3>2 DEF Reached
  <2>11. start' <= StartsAt'
    BY <1>1, <1>4, <2>3, <2>4 DEF RecordsReach
  <2> QED
    BY <1>1, <1>4, <2>6, <2>9, <2>10, <2>11 DEF RecordsReach, Quiet, Null
<1> QED
  BY <1>6, <1>8, <1>9, <1>10, <1>11, <1>12 DEF AttrIInv

\* For the steps of a post of events that leave the rows and the links: Report, Look and
\* EventsDone.
LEMMA PostStepKeeps ==
    ASSUME AttrIInv, RecordsRest, UNCHANGED <<fileEvent, links, passed, overwritten>>,
           changes' \subseteq ChangeNoticed, posted' \in EventPost,
           posted'.pc \in {"look", "create"} => HasRecord(posted.event, FALSE)',
           posted'.pc = "create" => FitsOnly(posted.event, {})'
    PROVE  AttrIInv'
<1>1. AttrTyped /\ UpdatesSound /\ NamesKnown /\ FillsKnown /\ NamesGiven /\ RecordsReach
  BY DEF AttrIInv
<1>2. RecordsStay /\ stored' = stored /\ Unfilled' = Unfilled /\ RowsGoOn
  BY RestIs DEF RowsGoOn
<1>3. EventsTyped'
  BY <1>1 DEF AttrTyped, EventsTyped, Quiet, Requests
<1>4. AttrTyped'
  BY <1>1, <1>3, RestTyped
<1>5. UpdatesSound'
  BY <1>1, <1>2, UpdatesUntouched
<1>6. NamesKnown'
  <2>1. \A k \in DOMAIN fileEvent : HasRecord(fileEvent[k], k \in overwritten)'
    <3> SUFFICES ASSUME NEW k \in DOMAIN fileEvent PROVE HasRecord(fileEvent[k], k \in overwritten)'
      OBVIOUS
    <3>1. PICK e, a : e = fileEvent[k] /\ a = (k \in overwritten)
      OBVIOUS
    <3>2. HasRecord(e, a)'
      BY <1>1, <1>2, <3>1, RecordsKeep DEF NamesKnown
    <3> QED
      BY <3>1, <3>2 DEF HasRecord
  <2> QED
    BY <2>1 DEF NamesKnown
<1>7. FillsKnown'
  BY <1>1, <1>2 DEF FillsKnown, RecordsRest, Rested
<1>8. NamesGiven'
  <2>1. \A k : Awaited(k)' = Awaited(k)
    BY <1>2 DEF Awaited, Coming
  <2>2. \A e, S : FitsOnly(e, S) <=> FitsOnly(e, S)'
    BY <1>2, RecordsKeep
  <2>3. \A k \in DOMAIN fileEvent' : FitsOnly(fileEvent[k], Awaited(k))'
    <3> SUFFICES ASSUME NEW k \in DOMAIN fileEvent PROVE FitsOnly(fileEvent[k], Awaited(k))'
      OBVIOUS
    <3>1. PICK e : e = fileEvent[k]
      OBVIOUS
    <3>2. PICK S : S = Awaited(k)
      OBVIOUS
    <3>3. FitsOnly(e, S)'
      BY <1>1, <2>2, <3>1, <3>2 DEF NamesGiven
    <3> QED
      BY <2>1, <3>1, <3>2, <3>3 DEF FitsOnly
  <2>4. posted'.pc = "create" => FitsOnly(posted.event, passed \cup Unfilled)'
    BY DEF FitsOnly
  <2> QED
    BY <2>3, <2>4 DEF NamesGiven
<1> QED
  BY <1>1, <1>4, <1>5, <1>6, <1>7, <1>8, RestReaches DEF AttrIInv

LEMMA ReportKeeps ==
    ASSUME AttrIInv, NEW c \in changes, Report(c)
    PROVE  AttrIInv'
<1>1. AttrTyped
  BY DEF AttrIInv
<1>2. RecordsRest /\ UNCHANGED <<fileEvent, links, passed, overwritten>> /\ changes' = changes \ {c}
  BY DEF Report, RecordsRest
<1>3. PICK e : e = [type |-> c.type, path |-> c.path, previous |-> c.previous, at |-> Len(log), actor |-> Nobody]
  OBVIOUS
<1>4. posted' = [pc |-> "look", event |-> e]
  BY <1>3 DEF Report
<1>5. c \in ChangeNoticed /\ Len(log) \in Nat /\ changes' \subseteq ChangeNoticed
  BY <1>1, <1>2 DEF AttrTyped, LogTyped
<1>6. e \in EventRow /\ e.actor = Nobody
  BY <1>3, <1>5 DEF EventRow, ChangeNoticed
<1>7. posted' \in EventPost
  BY <1>4, <1>6 DEF EventPost
<1>8. HasRecord(posted.event, FALSE)' /\ posted'.pc = "look"
  BY <1>4, <1>6 DEF HasRecord
<1> QED
  BY <1>2, <1>5, <1>7, <1>8, PostStepKeeps

\* Who is named for an event has a record; who is not, none that fits.
LEMMA ActorForIs ==
    ASSUME AttrTyped, NEW e \in EventRow, NEW f, f = [e EXCEPT !.actor = ActorFor(e, stored)]
    PROVE  f \in EventRow /\ HasRecord(f, FALSE) /\ FitsOnly(f, {})
<1>1. PICK S : S = Candidates(e, stored)
  OBVIOUS
<1>2. S \in SUBSET stored /\ \A i \in S : InWindow(e, i) /\ Explains(e, log[i])
  BY <1>1 DEF Candidates
<1>3. PICK person : person = ActorFor(e, stored)
  OBVIOUS
<1>4. /\ f.type = e.type /\ f.path = e.path /\ f.previous = e.previous /\ f.at = e.at /\ f.actor = person
      /\ (person \in Users \cup {Nobody} => f \in EventRow)
  BY <1>3 DEF EventRow
<1>5. Candidates(f, stored) = S
  BY <1>1, <1>4 DEF Candidates, InWindow, Explains
<1>6. CASE S = {}
  BY <1>1, <1>3, <1>4, <1>5, <1>6 DEF ActorFor, HasRecord, FitsOnly
<1>7. CASE S # {}
  <2>1. S \in SUBSET (0..Len(log)) /\ Len(log) \in Nat
    BY <1>2, StoredRecords
  <2>2. PICK i \in S : i = Newest(S)
    BY <1>7, <2>1, NewestThere
  <2>3. person = log[i].user /\ person \in Users /\ person # Nobody
    BY <1>1, <1>2, <1>3, <1>7, <2>2, StoredRecords DEF ActorFor
  <2>4. log[i].path \in {e.path, e.previous}
    BY <1>2, <2>2 DEF Explains
  <2>5. InWindow(f, i)
    BY <1>2, <1>4 DEF InWindow
  <2> QED
    BY <1>2, <1>4, <2>3, <2>4, <2>5 DEF HasRecord, FitsOnly
<1> QED
  BY <1>6, <1>7

LEMMA LookKeeps ==
    ASSUME AttrIInv, Look
    PROVE  AttrIInv'
<1>1. AttrTyped
  BY DEF AttrIInv
<1>2. RecordsRest /\ UNCHANGED <<fileEvent, links, passed, overwritten, changes>>
  BY DEF Look, RecordsRest
<1>3. posted.pc = "look" /\ posted \in EventPost
  BY <1>1 DEF Look, AttrTyped, EventsTyped
<1>4. PICK e \in EventRow : posted = [pc |-> "look", event |-> e]
  BY <1>3 DEF EventPost, Quiet
<1>5. PICK f : f = [e EXCEPT !.actor = ActorFor(e, stored)]
  OBVIOUS
<1>6. posted' = [pc |-> "create", event |-> f]
  BY <1>4, <1>5 DEF Look
<1>7. f \in EventRow /\ HasRecord(f, FALSE) /\ FitsOnly(f, {})
  BY <1>1, <1>5, ActorForIs
<1>8. HasRecord(f, FALSE)' /\ FitsOnly(f, {})'
  BY <1>2, <1>7, RestIs, RecordsKeep
<1>9. HasRecord(posted.event, FALSE)' /\ FitsOnly(posted.event, {})'
  BY <1>6, <1>8 DEF HasRecord, FitsOnly
<1>10. posted' \in EventPost /\ changes' \subseteq ChangeNoticed
  BY <1>1, <1>2, <1>6, <1>7 DEF EventPost, AttrTyped, LogTyped
<1> QED
  BY <1>2, <1>9, <1>10, PostStepKeeps

LEMMA EventsDoneKeeps ==
    ASSUME AttrIInv, EventsDone
    PROVE  AttrIInv'
<1>1. RecordsRest /\ UNCHANGED <<fileEvent, links, passed, overwritten, changes>> /\ posted' = Quiet
  BY DEF EventsDone, RecordsRest
<1>2. changes' \subseteq ChangeNoticed /\ posted' \in EventPost /\ posted'.pc = "quiet"
  BY <1>1 DEF AttrIInv, AttrTyped, LogTyped, EventPost, Quiet
<1> QED
  BY <1>1, <1>2, PostStepKeeps

LEMMA CreateKeeps ==
    ASSUME AttrIInv, Create
    PROVE  AttrIInv'
<1>1. AttrTyped /\ UpdatesSound /\ NamesKnown /\ FillsKnown /\ NamesGiven /\ RecordsReach
  BY DEF AttrIInv
<1>2. RecordsRest /\ UNCHANGED <<passed, overwritten, changes>>
  BY DEF Create, RecordsRest
<1>3. /\ posted.pc = "create" /\ posted \in EventPost /\ fileEvent \in Seq(EventRow)
      /\ links \in [Requests -> LinkState] /\ overwritten \subseteq DOMAIN fileEvent
  BY <1>1 DEF Create, AttrTyped, EventsTyped
<1>4. PICK e \in EventRow : posted = [pc |-> "create", event |-> e]
  BY <1>3 DEF EventPost, Quiet
<1>5. fileEvent' = Append(fileEvent, e) /\ posted' = [pc |-> "link"]
  BY <1>4 DEF Create
<1>6. PICK n \in Nat : n = Len(fileEvent) /\ DOMAIN fileEvent = 1..n
  BY <1>3
<1>7. /\ fileEvent' \in Seq(EventRow) /\ DOMAIN fileEvent' = 1..(n + 1) /\ fileEvent'[n + 1] = e
      /\ \A k \in DOMAIN fileEvent : k \in DOMAIN fileEvent' /\ fileEvent'[k] = fileEvent[k]
  BY <1>3, <1>5, <1>6, AppendProperties
<1>8. \A k \in DOMAIN fileEvent' : k \in DOMAIN fileEvent \/ k = n + 1
  BY <1>6, <1>7
<1>9. RecordsStay /\ stored' = stored /\ Unfilled' = Unfilled /\ RowsGoOn
  BY <1>2, <1>7, RestIs DEF RowsGoOn
<1>10. PICK s : s = [links["events"] EXCEPT !.pc = "renames"]
  OBVIOUS
<1>11. /\ links["events"] \in LinkState /\ s \in LinkState
       /\ s.todo = links["events"].todo /\ s.rows = links["events"].rows
       /\ links' = [links EXCEPT !["events"] = s]
  <2>1. links["events"] \in LinkState
    BY <1>3 DEF Requests
  <2> QED
    BY <1>10, <2>1 DEF LinkState, Create
<1>12. links' \in [Requests -> LinkState] /\ links'["records"] = links["records"]
  BY <1>3, <1>11 DEF Requests
<1>13. EventsTyped'
  BY <1>2, <1>3, <1>5, <1>7, <1>12 DEF EventsTyped, EventPost
<1>14. AttrTyped'
  BY <1>1, <1>2, <1>13, RestTyped DEF AttrTyped, LogTyped
<1>15. UpdatesSound'
  <2>1. StateSound(s) /\ "events" \in Requests
    BY <1>1, <1>11 DEF UpdatesSound, StateSound, Requests
  <2> QED
    BY <1>1, <1>3, <1>9, <1>11, <2>1, UpdatesStaySound
<1>16. NamesKnown'
  <2> SUFFICES ASSUME NEW k \in DOMAIN fileEvent' PROVE HasRecord(fileEvent[k], k \in overwritten)'
    BY <1>5 DEF NamesKnown
  <2>1. PICK f : f = fileEvent'[k]
    OBVIOUS
  <2>2. PICK a : a = (k \in overwritten')
    OBVIOUS
  <2>3. HasRecord(f, a)
    <3>1. CASE k \in DOMAIN fileEvent
      BY <1>1, <1>2, <1>7, <2>1, <2>2, <3>1 DEF NamesKnown
    <3>2. CASE k = n + 1
      <4>1. HasRecord(e, FALSE) /\ f = e
        BY <1>1, <1>4, <1>7, <2>1, <3>2 DEF NamesKnown
      <4> QED
        BY <4>1 DEF HasRecord
    <3> QED
      BY <1>8, <3>1, <3>2
  <2>4. HasRecord(f, a)'
    BY <1>9, <2>3, RecordsKeep
  <2> QED
    BY <2>1, <2>2, <2>4 DEF HasRecord
<1>17. FillsKnown'
  BY <1>1, <1>2, <1>9, <1>12 DEF FillsKnown, RecordsRest, Rested
<1>18. NamesGiven'
  <2> SUFFICES ASSUME NEW k \in DOMAIN fileEvent' PROVE FitsOnly(fileEvent[k], Awaited(k))'
    BY <1>5 DEF NamesGiven
  <2>1. PICK f : f = fileEvent'[k]
    OBVIOUS
  <2>2. PICK S : S = Awaited(k)
    OBVIOUS
  <2>3. Awaited(k)' = S /\ passed \cup Unfilled \subseteq S
    BY <1>2, <1>9, <1>12, <2>2 DEF Awaited, Coming
  <2>4. FitsOnly(f, S)
    <3>1. CASE k \in DOMAIN fileEvent
      BY <1>1, <1>7, <2>1, <2>2, <3>1 DEF NamesGiven
    <3>2. CASE k = n + 1
      <4>1. FitsOnly(e, passed \cup Unfilled) /\ f = e
        BY <1>1, <1>4, <1>7, <2>1, <3>2 DEF NamesGiven
      <4> QED
        BY <2>3, <4>1 DEF FitsOnly
    <3> QED
      BY <1>8, <3>1, <3>2
  <2>5. FitsOnly(f, S)'
    BY <1>9, <2>4, RecordsKeep
  <2> QED
    BY <2>1, <2>3, <2>5 DEF FitsOnly
<1> QED
  BY <1>1, <1>2, <1>14, <1>15, <1>16, <1>17, <1>18, RestReaches DEF AttrIInv

\* For the reads of the links.
LEMMA ReadStepKeeps ==
    ASSUME AttrIInv, RecordsRest, UNCHANGED <<fileEvent, posted, changes, passed, overwritten>>,
           NEW r \in Requests, NEW s \in LinkState, StateSound(s), links' = [links EXCEPT ![r] = s],
           links[r].todo = {}, links[r].pc # "rest"
    PROVE  AttrIInv'
<1>1. AttrTyped /\ UpdatesSound /\ NamesKnown /\ FillsKnown /\ NamesGiven /\ RecordsReach
  BY DEF AttrIInv
<1>2. RecordsStay /\ stored' = stored /\ Unfilled' = Unfilled /\ RowsGoOn
  BY RestIs DEF RowsGoOn
<1>3. links \in [Requests -> LinkState]
  BY <1>1 DEF AttrTyped, EventsTyped
<1>4. EventsTyped'
  <2>1. links' \in [Requests -> LinkState]
    BY <1>3
  <2> QED
    BY <1>1, <2>1 DEF AttrTyped, EventsTyped
<1>5. AttrTyped'
  BY <1>1, <1>4, RestTyped DEF AttrTyped, LogTyped
<1>6. UpdatesSound'
  BY <1>1, <1>2, <1>3, UpdatesStaySound
<1>7. NamesKnown'
  <2>1. \A k \in DOMAIN fileEvent : HasRecord(fileEvent[k], k \in overwritten)'
    <3> SUFFICES ASSUME NEW k \in DOMAIN fileEvent PROVE HasRecord(fileEvent[k], k \in overwritten)'
      OBVIOUS
    <3>1. PICK e, a : e = fileEvent[k] /\ a = (k \in overwritten)
      OBVIOUS
    <3>2. HasRecord(e, a)'
      BY <1>1, <1>2, <3>1, RecordsKeep DEF NamesKnown
    <3> QED
      BY <3>1, <3>2 DEF HasRecord
  <2>2. posted'.pc \in {"look", "create"} => HasRecord(posted.event, FALSE)'
    <3>1. PICK e : e = posted.event
      OBVIOUS
    <3>2. HasRecord(e, FALSE) => HasRecord(e, FALSE)'
      BY <1>2, RecordsKeep
    <3> QED
      BY <1>1, <3>1, <3>2 DEF NamesKnown, HasRecord
  <2> QED
    BY <2>1, <2>2 DEF NamesKnown
<1>8. r = "records" => activity.pc = "ingest"
  BY <1>1 DEF FillsKnown, Rested
<1>9. r # "records" => links'["records"] = links["records"]
  BY <1>3 DEF Requests
<1>10. FillsKnown'
  BY <1>1, <1>2, <1>8, <1>9 DEF FillsKnown, RecordsRest, Rested
<1>11. \A k : Awaited(k) \subseteq Awaited(k)'
  <2>1. r = "records" => \A k : Coming(k) = {}
    BY DEF Coming
  <2>2. r # "records" => \A k : Coming(k)' = Coming(k)
    BY <1>9 DEF Coming
  <2> QED
    BY <1>2, <2>1, <2>2 DEF Awaited
<1>12. NamesGiven'
  BY <1>1, <1>2, <1>11, NamesStayGiven
<1> QED
  BY <1>1, <1>5, <1>6, <1>7, <1>10, <1>12, RestReaches DEF AttrIInv

LEMMA ReadRenamesKeeps ==
    ASSUME AttrIInv, NEW r \in Requests, ReadRenames(r)
    PROVE  AttrIInv'
<1>1. AttrTyped /\ UpdatesSound
  BY DEF AttrIInv
<1>2. /\ RecordsRest /\ UNCHANGED <<fileEvent, posted, changes, passed, overwritten>>
      /\ links[r].pc = "renames" /\ links[r].todo = {}
  BY DEF ReadRenames, RecordsRest, MayLink
<1>3. PICK t : t = RenameUpdates
  OBVIOUS
<1>4. PICK s : s = [links[r] EXCEPT !.pc = "copies", !.todo = t]
  OBVIOUS
<1>5. links \in [Requests -> LinkState] /\ links[r] \in LinkState
  BY <1>1 DEF AttrTyped, EventsTyped
<1>6. \A w \in t : w \in RowUpdate /\ Follows(w.row, w.seen) /\ Decided(w)
  BY <1>1, <1>3, LinkingSound DEF Justified
<1>7. s \in LinkState /\ s.todo = t /\ s.rows = links[r].rows
  BY <1>4, <1>5, <1>6 DEF LinkState
<1>8. links' = [links EXCEPT ![r] = s]
  BY <1>3, <1>4, <1>5 DEF ReadRenames
<1>9. StateSound(s)
  BY <1>1, <1>6, <1>7 DEF StateSound, UpdatesSound
<1> QED
  BY <1>2, <1>7, <1>8, <1>9, ReadStepKeeps

LEMMA ReadCopiesKeeps ==
    ASSUME AttrIInv, NEW r \in Requests, ReadCopies(r)
    PROVE  AttrIInv'
<1>1. AttrTyped /\ UpdatesSound
  BY DEF AttrIInv
<1>2. /\ RecordsRest /\ UNCHANGED <<fileEvent, posted, changes, passed, overwritten>>
      /\ links[r].pc = "copies" /\ links[r].todo = {}
  BY DEF ReadCopies, RecordsRest, MayLink
<1>3. PICK rows \in Seq(EventRow) : rows = fileEvent
  BY <1>1 DEF AttrTyped, EventsTyped
<1>4. PICK s : s = [links[r] EXCEPT !.pc = "reads", !.rows = rows]
  OBVIOUS
<1>5. links \in [Requests -> LinkState] /\ links[r] \in LinkState
  BY <1>1 DEF AttrTyped, EventsTyped
<1>6. s \in LinkState /\ s.todo = {} /\ s.rows = rows
  BY <1>2, <1>4, <1>5 DEF LinkState
<1>7. links' = [links EXCEPT ![r] = s]
  BY <1>3, <1>4, <1>5 DEF ReadCopies
<1>8. StateSound(s)
  BY <1>3, <1>6 DEF StateSound, Follows
<1> QED
  BY <1>2, <1>6, <1>7, <1>8, ReadStepKeeps

LEMMA ReadReadsKeeps ==
    ASSUME AttrIInv, NEW r \in Requests, ReadReads(r)
    PROVE  AttrIInv'
<1>1. AttrTyped /\ UpdatesSound
  BY DEF AttrIInv
<1>2. RecordsRest /\ UNCHANGED <<fileEvent, posted, changes, passed, overwritten>> /\ links[r].pc = "reads"
      /\ links[r].todo = {}
  BY DEF ReadReads, RecordsRest, MayLink
<1>3. links \in [Requests -> LinkState] /\ links[r] \in LinkState
  BY <1>1 DEF AttrTyped, EventsTyped
<1>4. PICK rows \in Seq(EventRow) : rows = links[r].rows
  BY <1>3 DEF LinkState
<1>5. PICK first : /\ \A k \in DOMAIN rows : first[k] \in IF MayBeCopy(rows[k]) THEN Reads(rows[k]) ELSE {Null}
                   /\ links' = [links EXCEPT ![r] = [pc |-> "rest", todo |-> CopyUpdates(rows, first), rows |-> <<>>]]
  BY <1>4 DEF ReadReads
<1>6. PICK t : t = CopyUpdates(rows, first)
  OBVIOUS
<1>7. \A w \in t : w \in RowUpdate /\ Follows(w.row, w.seen) /\ Decided(w)
  <2>1. \A k \in DOMAIN rows : Follows(k, rows[k])
    BY <1>1, <1>4 DEF UpdatesSound, StateSound
  <2>2. \A k \in DOMAIN rows : MayBeCopy(rows[k]) => first[k] \in Reads(rows[k])
    BY <1>5
  <2> QED
    BY <1>1, <1>6, <2>1, <2>2, CopiesJustified DEF Justified
<1>8. PICK s : s = [pc |-> "rest", todo |-> t, rows |-> <<>>]
  OBVIOUS
<1>9. s \in LinkState /\ links' = [links EXCEPT ![r] = s]
  <2>1. <<>> \in Seq(EventRow)
    OBVIOUS
  <2> QED
    BY <1>5, <1>6, <1>7, <1>8, <2>1 DEF LinkState
<1>10. StateSound(s)
  BY <1>7, <1>8 DEF StateSound
<1> QED
  BY <1>2, <1>9, <1>10, ReadStepKeeps


\* What an update makes of its row: it has a name with a record for it, and loses
\* none it had, unless the row had changed since it was read.
LEMMA AppliedIs ==
    ASSUME AttrTyped, NEW w \in RowUpdate, Follows(w.row, w.seen), Decided(w),
           NEW e \in EventRow, e = fileEvent[w.row], NEW a, HasRecord(e, a),
           NEW f, f = Applied(e, w)
    PROVE  /\ f \in EventRow /\ f.path = e.path /\ f.at = e.at /\ f.actor # Nobody
           /\ HasRecord(f, a \/ e # w.seen)
           /\ e.actor # Nobody /\ f.actor # e.actor => e # w.seen
<1>1. PICK i, seen : i = w.from /\ seen = w.seen
  OBVIOUS
<1>2. i \in stored /\ seen \in EventRow /\ e.path = seen.path /\ e.at = seen.at
      /\ InWindow(seen, i) /\ (seen.actor # Nobody => e.actor # Nobody)
  BY <1>1 DEF RowUpdate, Follows, Decided
<1>3. PICK u \in Users : u = log[i].user /\ u # Nobody
  BY <1>2, StoredRecords
<1>4. PICK p \in Paths : p = log[i].path
  BY <1>2, StoredRecords
<1>5. InWindow(e, i)
  BY <1>2 DEF InWindow
<1>6. CASE w.as = "actor"
  <2>1. f = [e EXCEPT !.actor = u]
    BY <1>1, <1>3, <1>6 DEF Applied
  <2>2. f \in EventRow /\ f.path = e.path /\ f.previous = e.previous /\ f.at = e.at /\ f.actor = u
    BY <2>1 DEF EventRow
  <2>3. e = seen => p \in {e.path, e.previous} /\ e.actor = Nobody
    BY <1>1, <1>4, <1>6 DEF Decided, Explains
  <2>4. InWindow(f, i)
    BY <1>5, <2>2 DEF InWindow
  <2> QED
    BY <1>1, <1>2, <1>3, <1>4, <2>2, <2>3, <2>4 DEF HasRecord
<1>7. CASE w.as # "actor"
  <2>1. PICK x : x = IF seen.actor = Nobody THEN u ELSE e.actor
    OBVIOUS
  <2>2. f = [e EXCEPT !.type = w.as, !.previous = p, !.actor = x] /\ w.as \in ChangeTypes
    BY <1>1, <1>3, <1>4, <1>7, <2>1 DEF Applied, RowUpdate, ChangeTypes
  <2>3. x \in Users \cup {Nobody} /\ x # Nobody
    BY <1>2, <1>3, <2>1 DEF EventRow
  <2>4. f \in EventRow /\ f.path = e.path /\ f.previous = p /\ f.at = e.at /\ f.actor = x
    BY <2>2, <2>3 DEF EventRow
  <2>5. InWindow(f, i)
    BY <1>5, <2>4 DEF InWindow
  <2>6. seen.actor \in {Nobody, u}
    BY <1>1, <1>3, <1>7 DEF Decided
  <2>7. CASE x = u
    BY <1>1, <1>2, <1>3, <1>4, <2>1, <2>3, <2>4, <2>5, <2>7 DEF HasRecord
  <2>8. CASE x # u
    <3>1. seen.actor = u /\ x = e.actor /\ e # seen
      BY <2>1, <2>6, <2>8
    <3>2. PICK j \in stored : log[j].user = e.actor /\ InWindow(e, j)
      BY <2>3, <3>1 DEF HasRecord
    <3>3. InWindow(f, j)
      BY <2>4, <3>2 DEF InWindow
    <3> QED
      BY <1>1, <2>3, <2>4, <3>1, <3>2, <3>3 DEF HasRecord
  <2>9. e.actor # Nobody /\ x # e.actor => e # seen
    BY <2>1
  <2> QED
    BY <1>1, <2>3, <2>4, <2>7, <2>8, <2>9
<1> QED
  BY <1>6, <1>7

\* The update that is next is one of those waiting, and what it does.
LEMMA WriteRowIs ==
    ASSUME AttrTyped, NEW r \in Requests, WriteRow(r)
    PROVE  \E w \in links[r].todo :
              /\ fileEvent' = [fileEvent EXCEPT ![w.row] = Applied(@, w)]
              /\ links' = [links EXCEPT ![r].todo = @ \ {w}]
              /\ overwritten' = IF fileEvent[w.row] = w.seen THEN overwritten ELSE overwritten \cup {w.row}
<1>1. PICK t : t = links[r].todo
  OBVIOUS
<1>2. t \in SUBSET RowUpdate /\ t # {}
  BY <1>1 DEF AttrTyped, EventsTyped, LinkState, WriteRow
<1>3. PICK rows : rows = {w.row : w \in t}
  OBVIOUS
<1>4. rows \in SUBSET Nat /\ rows # {}
  BY <1>2, <1>3 DEF RowUpdate
<1>5. PICK m \in rows : \A x \in rows : m <= x
  BY <1>4, LeastThere
<1>6. \E v \in t : \A o \in t : v.row <= o.row
  BY <1>3, <1>5
<1>7. PICK w : w = CHOOSE v \in links[r].todo : \A o \in links[r].todo : v.row <= o.row
  OBVIOUS
<1>8. w \in links[r].todo
  BY <1>1, <1>6, <1>7
<1>9. /\ fileEvent' = [fileEvent EXCEPT ![w.row] = Applied(@, w)]
      /\ links' = [links EXCEPT ![r].todo = @ \ {w}]
      /\ overwritten' = IF fileEvent[w.row] = w.seen THEN overwritten ELSE overwritten \cup {w.row}
  BY <1>7, Zenon DEF WriteRow
<1> QED
  BY <1>8, <1>9

LEMMA WriteRowKeeps ==
    ASSUME AttrIInv, NEW r \in Requests, WriteRow(r)
    PROVE  AttrIInv'
<1>1. AttrTyped /\ UpdatesSound /\ NamesKnown /\ FillsKnown /\ NamesGiven /\ RecordsReach
  BY DEF AttrIInv
<1>2. RecordsRest /\ UNCHANGED <<posted, changes, passed>>
  BY DEF WriteRow, RecordsRest
<1>3. PICK w \in links[r].todo :
              /\ fileEvent' = [fileEvent EXCEPT ![w.row] = Applied(@, w)]
              /\ links' = [links EXCEPT ![r].todo = @ \ {w}]
              /\ overwritten' = IF fileEvent[w.row] = w.seen THEN overwritten ELSE overwritten \cup {w.row}
  BY <1>1, WriteRowIs
<1>4. links \in [Requests -> LinkState] /\ links[r] \in LinkState /\ fileEvent \in Seq(EventRow)
      /\ posted \in EventPost /\ overwritten \subseteq DOMAIN fileEvent
  BY <1>1 DEF AttrTyped, EventsTyped
<1>5. w \in RowUpdate /\ Follows(w.row, w.seen) /\ Decided(w)
  BY <1>1, <1>4 DEF UpdatesSound, StateSound, LinkState
<1>6. PICK h : h = w.row
  OBVIOUS
<1>7. h \in DOMAIN fileEvent
  BY <1>5, <1>6 DEF Follows
<1>8. PICK e \in EventRow : e = fileEvent[h]
  BY <1>4, <1>7
<1>9. PICK a : a = (h \in overwritten)
  OBVIOUS
<1>10. HasRecord(e, a)
  BY <1>1, <1>7, <1>8, <1>9 DEF NamesKnown
<1>11. PICK f : f = Applied(e, w)
  OBVIOUS
<1>12. f \in EventRow /\ f.path = e.path /\ f.at = e.at /\ f.actor # Nobody /\ HasRecord(f, a \/ e # w.seen)
  BY <1>1, <1>5, <1>6, <1>8, <1>10, <1>11, AppliedIs
<1>13. fileEvent' = [fileEvent EXCEPT ![h] = f] /\ DOMAIN fileEvent' = DOMAIN fileEvent
       /\ fileEvent' \in Seq(EventRow) /\ fileEvent'[h] = f
       /\ \A k \in DOMAIN fileEvent : k # h => fileEvent'[k] = fileEvent[k]
  BY <1>3, <1>4, <1>6, <1>7, <1>8, <1>11, <1>12
<1>14. overwritten' = IF e = w.seen THEN overwritten ELSE overwritten \cup {h}
  BY <1>3, <1>6, <1>8
<1>15. RecordsStay /\ stored' = stored /\ Unfilled' = Unfilled /\ RowsGoOn
  BY <1>2, <1>8, <1>12, <1>13, RestIs DEF RowsGoOn
<1>16. PICK s : s = [links[r] EXCEPT !.todo = @ \ {w}]
  OBVIOUS
<1>17. /\ s \in LinkState /\ s.todo = links[r].todo \ {w} /\ s.rows = links[r].rows /\ s.pc = links[r].pc
       /\ links' = [links EXCEPT ![r] = s]
  BY <1>3, <1>4, <1>16 DEF LinkState
<1>18. EventsTyped'
  <2>1. links' \in [Requests -> LinkState]
    BY <1>4, <1>17
  <2> QED
    BY <1>2, <1>4, <1>7, <1>13, <1>14, <2>1 DEF EventsTyped
<1>19. AttrTyped'
  BY <1>1, <1>2, <1>18, RestTyped DEF AttrTyped, LogTyped
<1>20. UpdatesSound'
  <2>1. StateSound(s)
    BY <1>1, <1>17 DEF UpdatesSound, StateSound
  <2> QED
    BY <1>1, <1>4, <1>15, <1>17, <2>1, UpdatesStaySound
<1>21. NamesKnown'
  <2>1. \A k \in DOMAIN fileEvent' : HasRecord(fileEvent[k], k \in overwritten)'
    <3> SUFFICES ASSUME NEW k \in DOMAIN fileEvent' PROVE HasRecord(fileEvent[k], k \in overwritten)'
      OBVIOUS
    <3>1. PICK g, b : g = fileEvent'[k] /\ b = (k \in overwritten')
      OBVIOUS
    <3>2. HasRecord(g, b)
      <4>1. CASE k = h
        BY <1>9, <1>12, <1>13, <1>14, <3>1, <4>1 DEF HasRecord
      <4>2. CASE k # h
        BY <1>1, <1>13, <1>14, <3>1, <4>2 DEF NamesKnown
      <4> QED
        BY <4>1, <4>2
    <3>3. HasRecord(g, b)'
      BY <1>15, <3>2, RecordsKeep
    <3> QED
      BY <3>1, <3>3 DEF HasRecord
  <2>2. posted'.pc \in {"look", "create"} => HasRecord(posted.event, FALSE)'
    <3>1. PICK g : g = posted.event
      OBVIOUS
    <3>2. HasRecord(g, FALSE) => HasRecord(g, FALSE)'
      BY <1>15, RecordsKeep
    <3> QED
      BY <1>1, <1>2, <3>1, <3>2 DEF NamesKnown, HasRecord
  <2> QED
    BY <2>1, <2>2 DEF NamesKnown
<1>22. r # "records" => links'["records"] = links["records"]
  BY <1>4, <1>17 DEF Requests
<1>23. r = "records" => activity.pc = "ingest"
  BY <1>1, <1>3 DEF FillsKnown, Rested
<1>24. FillsKnown'
  BY <1>1, <1>2, <1>15, <1>22, <1>23 DEF FillsKnown, RecordsRest, Rested
<1>25. ASSUME NEW k \in DOMAIN fileEvent, k # h PROVE Awaited(k) \subseteq Awaited(k)'
  <2>1. CASE r = "records"
    <3>1. \A v \in links["records"].todo : v.row = k => v \in links'["records"].todo
      BY <1>4, <1>6, <1>17, <1>25, <2>1
    <3> QED
      BY <1>2, <1>15, <3>1 DEF Awaited, Coming
  <2>2. CASE r # "records"
    BY <1>2, <1>15, <1>22, <2>2 DEF Awaited, Coming
  <2> QED
    BY <2>1, <2>2
<1>26. NamesGiven'
  <2>1. \A k \in DOMAIN fileEvent' :
               \/ fileEvent'[k].actor # Nobody
               \/ /\ k \in DOMAIN fileEvent /\ fileEvent'[k] = fileEvent[k]
                  /\ \A i \in Awaited(k) : i \in Awaited(k)' \/ i \notin Candidates(fileEvent[k], stored)
    BY <1>12, <1>13, <1>25
  <2> QED
    BY <1>1, <1>2, <1>15, <2>1, NamesStayGiven
<1> QED
  BY <1>1, <1>2, <1>19, <1>20, <1>21, <1>24, <1>26, RestReaches DEF AttrIInv

\* What the collector and a post of records leave alone until an update is written.
EventsRest == UNCHANGED <<log, changes, posted, fileEvent, overwritten>>

LEMMA EventsRestTyped ==
    ASSUME AttrTyped, EventsRest, links' \in [Requests -> LinkState], PostTyped', StoreTyped',
           BookmarksTyped', lostFirst' \in BOOLEAN
    PROVE  AttrTyped'
BY DEF AttrTyped, EventsRest, LogTyped, EventsTyped

\* Names have their records, as long as the store only grows.
LEMMA NamesStayKnown ==
    ASSUME NamesKnown, EventsRest, stored \subseteq stored'
    PROVE  NamesKnown' /\ RecordsStay /\ RowsGoOn
<1>1. RecordsStay /\ RowsGoOn
  BY DEF EventsRest, RecordsStay, RowsGoOn
<1>2. \A k \in DOMAIN fileEvent : HasRecord(fileEvent[k], k \in overwritten)'
  <2> SUFFICES ASSUME NEW k \in DOMAIN fileEvent PROVE HasRecord(fileEvent[k], k \in overwritten)'
    OBVIOUS
  <2>1. PICK e, a : e = fileEvent[k] /\ a = (k \in overwritten)
    OBVIOUS
  <2>2. HasRecord(e, a)'
    BY <1>1, <2>1, RecordsKeep DEF NamesKnown
  <2> QED
    BY <2>1, <2>2 DEF HasRecord, EventsRest
<1>3. posted'.pc \in {"look", "create"} => HasRecord(posted.event, FALSE)'
  <2>1. PICK e : e = posted.event
    OBVIOUS
  <2>2. HasRecord(e, FALSE) => HasRecord(e, FALSE)'
    BY <1>1, RecordsKeep
  <2> QED
    BY <2>1, <2>2 DEF NamesKnown, HasRecord, EventsRest
<1> QED
  BY <1>1, <1>2, <1>3 DEF NamesKnown, EventsRest

\* For the steps of the collector: what links and fills are under way stays so.
LEMMA CollectorStepKeeps ==
    ASSUME AttrIInv, EventsRest, UNCHANGED <<stored, links, passed>>, Unfilled' = Unfilled,
           activity'.pc = "ingest" \/ activity.pc # "ingest",
           PostTyped', BookmarksTyped', lostFirst' \in BOOLEAN, RecordsReach'
    PROVE  AttrIInv'
<1>1. AttrTyped /\ UpdatesSound /\ NamesKnown /\ FillsKnown /\ NamesGiven /\ RecordsReach
  BY DEF AttrIInv
<1>2. NamesKnown' /\ RecordsStay /\ RowsGoOn
  BY <1>1, NamesStayKnown
<1>3. StoreTyped' /\ links' \in [Requests -> LinkState]
  <2>1. log' = log
    BY DEF EventsRest
  <2> QED
    BY <1>1, <2>1, SteadyLog DEF AttrTyped, StoreTyped, EventsTyped
<1>4. AttrTyped'
  BY <1>1, <1>3, EventsRestTyped
<1>5. UpdatesSound'
  BY <1>1, <1>2, UpdatesUntouched
<1>6. FillsKnown'
  BY <1>1 DEF FillsKnown, Rested
<1>7. NamesGiven'
  <2>1. \A k : Awaited(k)' = Awaited(k)
    BY DEF Awaited, Coming
  <2> QED
    BY <1>1, <1>2, <2>1, NamesStayGiven DEF EventsRest
<1> QED
  BY <1>2, <1>4, <1>5, <1>6, <1>7 DEF AttrIInv

LEMMA ActivityIs ==
    ASSUME PostTyped
    PROVE  /\ activity = Quiet <=> activity.pc = "quiet"
           /\ activity # Quiet =>
                 /\ activity \in RecordPost /\ activity.ids \in SUBSET Ids /\ activity.fresh \in SUBSET Ids
                 /\ activity.to \in 0..Len(log)
           /\ \A i \in activity.ids : activity # Quiet => Usable(i)
           /\ activity.pc = "sent" => activity.fresh = {}
BY DEF PostTyped, RecordPost, Quiet

LEMMA SyncKeeps ==
    ASSUME AttrIInv, Sync
    PROVE  AttrIInv'
<1>1. AttrTyped /\ RecordsReach
  BY DEF AttrIInv
<1>2. /\ EventsRest /\ handed' = bookmark /\ UNCHANGED <<stored, links, passed>>
      /\ UNCHANGED <<bookmark, collector, activity, start, skipped, lostFirst>>
  BY DEF Sync, EventsRest
<1>3. /\ Ids' = Ids /\ Bookmarks' = Bookmarks /\ RecordPost' = RecordPost /\ StartsAt' = StartsAt
      /\ \A i : Usable(i)' <=> Usable(i)
  BY <1>2, SteadyLog DEF EventsRest
<1>4. PostTyped'
  BY <1>1, <1>2, <1>3 DEF AttrTyped, PostTyped
<1>5. BookmarksTyped' /\ lostFirst' \in BOOLEAN
  BY <1>1, <1>2, <1>3 DEF AttrTyped, BookmarksTyped
<1>6. InFlight' = InFlight /\ Unfilled' = Unfilled
  BY <1>2 DEF InFlight, Unfilled
<1>7. RecordsReach'
  <2>1. /\ Reached(bookmark, {}) => Reached(bookmark, {})' /\ Reached(handed, {})'
        /\ Reached(collector.local, InFlight) => Reached(collector.local, InFlight)'
        /\ Reached(activity.to, InFlight) => Reached(activity.to, InFlight)'
    BY <1>2, <1>3, <1>6 DEF Reached
  <2>2. start' = Null => NotBegun'
    BY <1>1, <1>2 DEF RecordsReach, NotBegun
  <2>3. ~lostFirst /\ handed' = Null => handed = Null
    BY <1>1, <1>2 DEF RecordsReach
  <2> QED
    BY <1>1, <1>2, <1>3, <2>1, <2>2, <2>3 DEF RecordsReach, Quiet
<1>8. activity'.pc = "ingest" \/ activity.pc # "ingest"
  BY <1>2
<1> QED
  BY <1>2, <1>4, <1>5, <1>6, <1>7, <1>8, CollectorStepKeeps

LEMMA PostLostKeeps ==
    ASSUME AttrIInv, PostLost
    PROVE  AttrIInv'
<1>1. AttrTyped /\ RecordsReach
  BY DEF AttrIInv
<1>2. /\ EventsRest /\ activity.pc = "sent" /\ activity' = Quiet /\ lostFirst' = (lostFirst \/ handed = Null)
      /\ collector' = [collector EXCEPT !.pc = "idle"] /\ UNCHANGED <<stored, links, passed>>
      /\ UNCHANGED <<bookmark, handed, start, skipped>>
  BY DEF PostLost, EventsRest
<1>3. /\ Ids' = Ids /\ Bookmarks' = Bookmarks /\ StartsAt' = StartsAt /\ \A i : Usable(i)' <=> Usable(i)
  BY <1>2, SteadyLog DEF EventsRest
<1>4. collector \in [pc : {"idle", "posting"}, local : Bookmarks]
  BY <1>1 DEF AttrTyped, BookmarksTyped
<1>5. PostTyped'
  BY <1>2 DEF PostTyped
<1>6. BookmarksTyped' /\ lostFirst' \in BOOLEAN
  BY <1>1, <1>2, <1>3, <1>4 DEF AttrTyped, BookmarksTyped
<1>7. Unfilled' = Unfilled
  <2>1. activity.fresh = {}
    BY <1>1, <1>2, ActivityIs DEF AttrTyped
  <2> QED
    BY <1>2, <2>1 DEF Unfilled
<1>8. RecordsReach'
  <2>1. /\ Reached(bookmark, {}) => Reached(bookmark, {})'
        /\ Reached(handed, {}) => Reached(handed, {})'
    BY <1>2, <1>3 DEF Reached
  <2>2. start' = Null => NotBegun'
    BY <1>1, <1>2, <1>4 DEF RecordsReach, NotBegun, Quiet
  <2> QED
    BY <1>1, <1>2, <1>3, <2>1, <2>2 DEF RecordsReach, Quiet
<1> QED
  BY <1>2, <1>5, <1>6, <1>7, <1>8, CollectorStepKeeps

LEMMA AgentRestartsKeeps ==
    ASSUME AttrIInv, AgentRestarts
    PROVE  AttrIInv'
<1>1. AttrTyped /\ RecordsReach
  BY DEF AttrIInv
<1>2. /\ EventsRest /\ handed' = bookmark /\ collector' = [pc |-> "idle", local |-> Null]
      /\ UNCHANGED <<stored, links, passed>> /\ UNCHANGED <<bookmark, activity, start, skipped, lostFirst>>
  BY DEF AgentRestarts, EventsRest
<1>3. /\ Ids' = Ids /\ Bookmarks' = Bookmarks /\ RecordPost' = RecordPost /\ StartsAt' = StartsAt
      /\ \A i : Usable(i)' <=> Usable(i)
  BY <1>2, SteadyLog DEF EventsRest
<1>4. PostTyped'
  BY <1>1, <1>2, <1>3 DEF AttrTyped, PostTyped
<1>5. BookmarksTyped' /\ lostFirst' \in BOOLEAN
  BY <1>1, <1>2, <1>3 DEF AttrTyped, BookmarksTyped, Bookmarks
<1>6. InFlight' = InFlight /\ Unfilled' = Unfilled
  BY <1>2 DEF InFlight, Unfilled
<1>7. RecordsReach'
  <2>1. /\ Reached(bookmark, {}) => Reached(bookmark, {})' /\ Reached(handed, {})'
        /\ Reached(activity.to, InFlight) => Reached(activity.to, InFlight)'
    BY <1>2, <1>3, <1>6 DEF Reached
  <2>2. Reached(collector.local, InFlight)'
    <3>1. start \in Int /\ start >= Null /\ Ids \in SUBSET Int /\ Null \in Int
      <4>1. Len(log) \in Nat /\ start \in {-1} \cup 0..Len(log)
        BY <1>1, StoredRecords DEF AttrTyped, BookmarksTyped, Bookmarks, Null
      <4> QED
        BY <4>1 DEF Ids, Null
    <3>2. \A i \in Ids : ~(i > start /\ i <= Null)
      BY <3>1
    <3> QED
      BY <1>2, <1>3, <3>2 DEF Reached
  <2>3. start' = Null => NotBegun'
    BY <1>1, <1>2 DEF RecordsReach, NotBegun
  <2> QED
    BY <1>1, <1>2, <1>3, <2>1, <2>2, <2>3 DEF RecordsReach, Quiet
<1>8. activity'.pc = "ingest" \/ activity.pc # "ingest"
  BY <1>2
<1> QED
  BY <1>2, <1>4, <1>5, <1>6, <1>7, <1>8, CollectorStepKeeps

\* Where a poll ends, and what it returned.
LEMMA PollIs ==
    ASSUME AttrTyped, NEW f \in 0..Len(log), NEW ids, ids = Returned(f)
    PROVE  ids \in SUBSET Ids /\ NextBookmark(f, ids) \in 0..Len(log)
<1>1. Len(log) \in Nat /\ Ids = 1..Len(log)
  BY StoredRecords
<1>2. ids \in SUBSET Ids
  BY DEF Returned
<1>3. PICK P : P = Parsed(ids)
  OBVIOUS
<1>4. P \in SUBSET (1..Len(log)) /\ P \in SUBSET (0..Len(log))
  BY <1>1, <1>2, <1>3 DEF Parsed
<1>5. PICK last : last = IF P = {} THEN f ELSE Newest(P)
  OBVIOUS
<1>6. last \in 0..Len(log)
  BY <1>1, <1>4, <1>5, NewestThere
<1>7. PICK end : end = IF f + IdWindow < Len(log) THEN f + IdWindow ELSE Len(log)
  OBVIOUS
<1>8. end \in 0..Len(log)
  BY <1>1, <1>7, AttributionAssumption
<1>9. NextBookmark(f, ids) \in {last, end}
  BY <1>3, <1>5, <1>7 DEF NextBookmark
<1> QED
  BY <1>2, <1>6, <1>8, <1>9

LEMMA PollKeeps ==
    ASSUME AttrIInv, Poll
    PROVE  AttrIInv'
<1>1. AttrTyped /\ RecordsReach
  BY DEF AttrIInv
<1>2. /\ EventsRest /\ activity = Quiet /\ UNCHANGED <<stored, links, passed>>
      /\ UNCHANGED <<bookmark, handed, lostFirst>>
  BY DEF Poll, EventsRest
<1>3. PICK first \in BOOLEAN : first <=> handed = Null /\ collector.local = Null
  OBVIOUS
<1>4. PICK from : from = PollFrom
  OBVIOUS
<1>5. PICK ids : ids = IF first THEN {} ELSE Returned(from)
  OBVIOUS
<1>6. PICK to : to = IF first THEN StartsAt ELSE NextBookmark(from, ids)
  OBVIOUS
<1>7. /\ collector' = [pc |-> "posting", local |-> to]
      /\ activity' = [pc |-> "sent", ids |-> {i \in ids : Usable(i)}, fresh |-> {}, to |-> to]
      /\ start' = (IF first THEN to ELSE start)
      /\ skipped' = skipped \cup {i \in Ids : i > from /\ i <= to /\ ~first /\ i \notin ids}
  BY <1>3, <1>4, <1>5, <1>6 DEF Poll
<1>8. /\ Len(log) \in Nat /\ Ids = 1..Len(log)
      /\ handed \in {-1} \cup 0..Len(log) /\ collector.local \in {-1} \cup 0..Len(log) /\ start \in {-1} \cup 0..Len(log)
      /\ bookmark \in {-1} \cup 0..Len(log)
  BY <1>1, StoredRecords DEF AttrTyped, BookmarksTyped, Bookmarks, Null
<1>9. StartsAt \in 0..Len(log)
  BY <1>8, AttributionAssumption DEF StartsAt
<1>10. from \in 0..Len(log) /\ (~first => from = IF handed # Null THEN handed ELSE collector.local)
  BY <1>3, <1>4, <1>8 DEF PollFrom, Null
<1>11. ids \in SUBSET Ids /\ to \in 0..Len(log)
  BY <1>1, <1>5, <1>6, <1>9, <1>10, PollIs
<1>12. /\ Ids' = Ids /\ Bookmarks' = Bookmarks /\ RecordPost' = RecordPost /\ StartsAt' = StartsAt
       /\ \A i : Usable(i)' <=> Usable(i)
  BY <1>2, SteadyLog DEF EventsRest
<1>13. PICK mine : mine = {i \in ids : Usable(i)}
  OBVIOUS
<1>14. mine \in SUBSET Ids /\ activity' = [pc |-> "sent", ids |-> mine, fresh |-> {}, to |-> to]
  BY <1>7, <1>11, <1>13
<1>15. PostTyped'
  BY <1>11, <1>12, <1>13, <1>14 DEF PostTyped, RecordPost
<1>16. BookmarksTyped' /\ lostFirst' \in BOOLEAN
  <2>1. to \in Bookmarks
    BY <1>11 DEF Bookmarks
  <2> QED
    BY <1>1, <1>2, <1>7, <1>12, <2>1 DEF AttrTyped, BookmarksTyped
<1>17. Unfilled' = Unfilled
  BY <1>2, <1>14 DEF Unfilled
<1>18. RecordsReach'
  <2>1. InFlight' = mine
    <3>1. activity' # Quiet /\ activity'.ids = mine
      BY <1>14 DEF Quiet
    <3> QED
      BY <3>1 DEF InFlight, Quiet
  <2>2. start' >= start /\ start' <= StartsAt' /\ start' # Null
    <3>1. CASE first
      BY <1>1, <1>6, <1>7, <1>8, <1>9, <1>12, <3>1 DEF RecordsReach, Null
    <3>2. CASE ~first
      BY <1>1, <1>3, <1>7, <1>8, <1>12, <3>2 DEF RecordsReach, NotBegun, Null
    <3> QED
      BY <3>1, <3>2
  <2>3. start' \in Int /\ start \in Int /\ Ids \in SUBSET Int
    BY <1>7, <1>8, <1>11
  <2>4. skipped \subseteq skipped'
    BY <1>7
  <2>5. \A b \in Int : Reached(b, {}) => Reached(b, {})'
    <3> SUFFICES ASSUME NEW b \in Int, Reached(b, {}), NEW i \in Ids, i > start', i <= b, Usable(i)
                 PROVE  i \in stored \cup skipped'
      BY <1>2, <1>12 DEF Reached
    <3>1. i > start
      BY <2>2, <2>3
    <3> QED
      BY <2>4, <3>1 DEF Reached
  <2>6. ~lostFirst => Reached(to, mine)'
    <3> SUFFICES ASSUME ~lostFirst, NEW i \in Ids, i > start', i <= to, Usable(i)
                 PROVE  i \in stored \cup skipped' \cup mine
      BY <1>2, <1>12 DEF Reached
    <3>1. ~first
      BY <1>7, <1>11, <2>3
    <3>2. Reached(from, {})
      <4>1. handed # Null => Reached(handed, {})
        BY <1>1 DEF RecordsReach
      <4>2. handed = Null => Reached(collector.local, {})
        BY <1>1, <1>2 DEF RecordsReach, InFlight, Quiet
      <4>3. CASE handed # Null
        BY <1>10, <3>1, <4>1, <4>3
      <4>4. CASE handed = Null
        <5>1. PICK b : b = collector.local
          OBVIOUS
        <5> QED
          BY <1>10, <3>1, <4>2, <4>4, <5>1
      <4> QED
        BY <4>3, <4>4
    <3>3. CASE i <= from
      <4>1. i > start
        BY <2>2, <2>3
      <4> QED
        BY <2>4, <3>2, <3>3, <4>1 DEF Reached
    <3>4. CASE ~(i <= from)
      <4>1. i > from
        BY <1>10, <2>3, <3>4
      <4>2. CASE i \in ids
        BY <1>13, <4>2
      <4>3. CASE i \notin ids
        BY <1>7, <3>1, <4>1, <4>3
      <4> QED
        BY <4>2, <4>3
    <3> QED
      BY <3>3, <3>4
  <2>7. /\ ~lostFirst => Reached(bookmark, {}) /\ Reached(handed, {})
        /\ handed # Null => bookmark # Null
    BY <1>1 DEF RecordsReach
  <2>8. ~lostFirst => Reached(bookmark, {})' /\ Reached(handed, {})'
    <3>1. PICK b \in Int : b = bookmark
      BY <1>8
    <3>2. PICK c \in Int : c = handed
      BY <1>8
    <3>3. bookmark' = b /\ handed' = c
      BY <1>2, <3>1, <3>2
    <3>4. ~lostFirst => Reached(b, {})' /\ Reached(c, {})'
      BY <2>5, <2>7, <3>1, <3>2
    <3> QED
      BY <3>3, <3>4 DEF Reached
  <2>9. ~lostFirst => Reached(collector.local, InFlight)' /\ Reached(activity.to, InFlight)'
    <3>1. collector'.local = to /\ activity'.to = to
      BY <1>7
    <3> QED
      BY <2>1, <2>6, <3>1 DEF Reached
  <2> QED
    BY <1>2, <2>2, <2>7, <2>8, <2>9 DEF RecordsReach
<1>19. activity.pc # "ingest"
  BY <1>2 DEF Quiet
<1> QED
  BY <1>2, <1>15, <1>16, <1>17, <1>18, <1>19, CollectorStepKeeps

\* A record is stored: an event without a name may fit it until it is filled in.
LEMMA StoreRecordKeeps ==
    ASSUME AttrIInv, StoreRecord
    PROVE  AttrIInv'
<1>1. AttrTyped /\ UpdatesSound /\ NamesKnown /\ FillsKnown /\ NamesGiven /\ RecordsReach
  BY DEF AttrIInv
<1>2. /\ EventsRest /\ UNCHANGED <<bookmark, handed, collector, start, skipped, lostFirst, passed>>
      /\ activity.pc # "quiet" /\ activity.ids # {}
  BY DEF StoreRecord, EventsRest
<1>3. /\ activity # Quiet /\ activity \in RecordPost /\ activity.ids \in SUBSET Ids
      /\ activity.fresh \in SUBSET Ids /\ activity.to \in 0..Len(log) /\ \A i \in activity.ids : Usable(i)
  BY <1>1, <1>2, ActivityIs DEF AttrTyped, Quiet
<1>4. Len(log) \in Nat /\ Ids = 1..Len(log) /\ links \in [Requests -> LinkState]
  BY <1>1, StoredRecords DEF AttrTyped, EventsTyped
<1>5. PICK ids \in SUBSET Ids, to \in 0..Len(log) : ids = activity.ids /\ to = activity.to
  BY <1>3
<1>6. PICK i \in ids : i = Earliest(activity.ids)
  BY <1>2, <1>4, <1>5, EarliestThere
<1>7. PICK new : new = IF i \notin stored THEN activity.fresh \cup {i} ELSE activity.fresh
  OBVIOUS
<1>8. activity' = [pc |-> "ingest", ids |-> ids \ {i}, fresh |-> new, to |-> to]
  BY <1>3, <1>5, <1>6, <1>7 DEF StoreRecord, RecordPost
<1>9. /\ stored' = stored \cup {i}
      /\ links' = IF i \notin stored THEN [links EXCEPT !["records"].pc = "renames"] ELSE links
  BY <1>6 DEF StoreRecord
<1>10. new \in SUBSET Ids /\ ids \ {i} \in SUBSET Ids /\ activity' # Quiet
  BY <1>3, <1>6, <1>7, <1>8 DEF Quiet
<1>11. /\ Ids' = Ids /\ Bookmarks' = Bookmarks /\ RecordPost' = RecordPost /\ StartsAt' = StartsAt
       /\ \A j : Usable(j)' <=> Usable(j)
  BY <1>2, SteadyLog DEF EventsRest
<1>12. PICK s : s = [links["records"] EXCEPT !.pc = "renames"]
  OBVIOUS
<1>13. /\ s \in LinkState /\ s.todo = links["records"].todo /\ s.rows = links["records"].rows
       /\ i \notin stored => links' = [links EXCEPT !["records"] = s]
  <2>1. links["records"] \in LinkState
    BY <1>4 DEF Requests
  <2> QED
    BY <1>9, <1>12, <2>1 DEF LinkState
<1>14. links' \in [Requests -> LinkState] /\ links'["records"].todo = links["records"].todo
  BY <1>4, <1>9, <1>13 DEF Requests
<1>15. AttrTyped'
  <2>1. PostTyped'
    BY <1>3, <1>5, <1>8, <1>10, <1>11 DEF PostTyped, RecordPost
  <2>2. StoreTyped'
    BY <1>1, <1>3, <1>5, <1>6, <1>9, <1>11 DEF AttrTyped, StoreTyped
  <2>3. BookmarksTyped' /\ lostFirst' \in BOOLEAN
    BY <1>1, <1>2, <1>11 DEF AttrTyped, BookmarksTyped
  <2> QED
    BY <1>1, <1>2, <1>14, <2>1, <2>2, <2>3, EventsRestTyped
<1>16. NamesKnown' /\ RecordsStay /\ RowsGoOn
  BY <1>1, <1>2, <1>9, NamesStayKnown
<1>17. UpdatesSound'
  <2>1. CASE i \notin stored
    <3>1. StateSound(s) /\ "records" \in Requests
      BY <1>1, <1>13 DEF UpdatesSound, StateSound, Requests
    <3> QED
      BY <1>1, <1>4, <1>13, <1>16, <2>1, <3>1, UpdatesStaySound
  <2>2. CASE i \in stored
    BY <1>1, <1>9, <1>16, <2>2, UpdatesUntouched
  <2> QED
    BY <2>1, <2>2
<1>18. Unfilled = activity.fresh /\ Unfilled' = new
  BY <1>3, <1>8, <1>10 DEF Unfilled, Quiet
<1>19. FillsKnown'
  BY <1>1, <1>2, <1>7, <1>8, <1>9, <1>18 DEF FillsKnown
<1>20. \A e, S, T : FitsOnly(e, S) /\ S \subseteq T /\ new \subseteq T => FitsOnly(e, T)'
  <2> SUFFICES ASSUME NEW e, NEW S, NEW T, FitsOnly(e, S), S \subseteq T, new \subseteq T PROVE FitsOnly(e, T)'
    OBVIOUS
  <2>1. \A j : j \in Candidates(e, stored)' => j \in stored' /\ (j \in stored => j \in Candidates(e, stored))
    BY <1>2 DEF EventsRest, Candidates, InWindow, Explains
  <2>2. \A j \in stored' : j \in stored \/ j \in new
    BY <1>7, <1>9
  <2> QED
    BY <2>1, <2>2 DEF FitsOnly
<1>21. NamesGiven'
  <2>1. \A k : Awaited(k) \subseteq Awaited(k)' /\ new \subseteq Awaited(k)'
    BY <1>2, <1>7, <1>14, <1>18 DEF Awaited, Coming
  <2>2. \A k \in DOMAIN fileEvent' : FitsOnly(fileEvent[k], Awaited(k))'
    <3> SUFFICES ASSUME NEW k \in DOMAIN fileEvent PROVE FitsOnly(fileEvent[k], Awaited(k))'
      BY <1>2 DEF EventsRest
    <3>1. PICK e : e = fileEvent[k]
      OBVIOUS
    <3>2. PICK S : S = Awaited(k)
      OBVIOUS
    <3>3. PICK T : T = Awaited(k)'
      OBVIOUS
    <3>4. FitsOnly(e, S)
      BY <1>1, <3>1, <3>2 DEF NamesGiven
    <3>5. FitsOnly(e, T)'
      BY <1>20, <2>1, <3>2, <3>3, <3>4
    <3> QED
      BY <1>2, <3>1, <3>3, <3>5 DEF FitsOnly, EventsRest
  <2>3. posted'.pc = "create" => FitsOnly(posted.event, passed \cup Unfilled)'
    <3> SUFFICES ASSUME posted.pc = "create" PROVE FitsOnly(posted.event, passed \cup Unfilled)'
      BY <1>2 DEF EventsRest
    <3>1. PICK e : e = posted.event
      OBVIOUS
    <3>2. PICK S : S = passed \cup Unfilled
      OBVIOUS
    <3>3. PICK T : T = (passed \cup Unfilled)'
      OBVIOUS
    <3>4. FitsOnly(e, S)
      BY <1>1, <3>1, <3>2 DEF NamesGiven
    <3>5. S \subseteq T /\ new \subseteq T
      BY <1>2, <1>7, <1>18, <3>2, <3>3
    <3>6. FitsOnly(e, T)'
      BY <1>20, <3>4, <3>5
    <3> QED
      BY <1>2, <3>1, <3>3, <3>6 DEF FitsOnly, EventsRest
  <2> QED
    BY <2>2, <2>3 DEF NamesGiven
<1>22. RecordsReach'
  <2>1. InFlight = ids /\ InFlight' = ids \ {i} /\ activity'.to = to
    BY <1>3, <1>5, <1>8, <1>10 DEF InFlight, Quiet
  <2>2. /\ Reached(bookmark, {}) => Reached(bookmark, {})'
        /\ Reached(handed, {}) => Reached(handed, {})'
        /\ Reached(collector.local, InFlight) => Reached(collector.local, InFlight)'
        /\ Reached(activity.to, InFlight) => Reached(activity.to, InFlight)'
    BY <1>2, <1>5, <1>9, <1>11, <2>1 DEF Reached
  <2>3. start' # Null
    BY <1>1, <1>2, <1>3 DEF RecordsReach, NotBegun
  <2> QED
    BY <1>1, <1>2, <1>3, <1>10, <1>11, <2>2, <2>3 DEF RecordsReach
<1> QED
  BY <1>15, <1>16, <1>17, <1>19, <1>21, <1>22 DEF AttrIInv

\* For Fill, Advance and IngestBreaks: what links and fills were under way is done,
\* goes on as decided, or was passed.
LEMMA RecordsStepKeeps ==
    ASSUME AttrIInv, EventsRest, stored' = stored,
           NEW s \in LinkState, StateSound(s), links' = [links EXCEPT !["records"] = s],
           activity'.pc = "ingest" \/ s = Rested,
           passed' \cup Unfilled' \subseteq stored, passed \cup Unfilled \subseteq (passed \cup Unfilled)'
                                                     \/ posted.pc # "create",
           \A k \in DOMAIN fileEvent : \A i \in Awaited(k) :
               i \in Awaited(k)' \/ i \notin Candidates(fileEvent[k], stored) \/ fileEvent[k].actor # Nobody,
           PostTyped', BookmarksTyped', lostFirst' \in BOOLEAN, RecordsReach'
    PROVE  AttrIInv'
<1>1. AttrTyped /\ UpdatesSound /\ NamesKnown /\ FillsKnown /\ NamesGiven /\ RecordsReach
  BY DEF AttrIInv
<1>2. NamesKnown' /\ RecordsStay /\ RowsGoOn
  BY <1>1, NamesStayKnown
<1>3. links \in [Requests -> LinkState] /\ "records" \in Requests
  BY <1>1 DEF AttrTyped, EventsTyped, Requests
<1>4. StoreTyped' /\ links' \in [Requests -> LinkState] /\ links'["records"] = s
  <2>1. log' = log
    BY DEF EventsRest
  <2>2. StoreTyped'
    BY <1>1, <2>1, SteadyLog DEF AttrTyped, StoreTyped
  <2> QED
    BY <1>3, <2>2
<1>5. AttrTyped'
  BY <1>1, <1>4, EventsRestTyped
<1>6. UpdatesSound'
  BY <1>1, <1>2, <1>3, UpdatesStaySound
<1>7. FillsKnown'
  BY <1>4 DEF FillsKnown, Rested
<1>8. NamesGiven'
  <2>1. \A k \in DOMAIN fileEvent' :
               \/ fileEvent'[k].actor # Nobody
               \/ /\ k \in DOMAIN fileEvent /\ fileEvent'[k] = fileEvent[k]
                  /\ \A i \in Awaited(k) : i \in Awaited(k)' \/ i \notin Candidates(fileEvent[k], stored)
    BY DEF EventsRest
  <2>2. \/ posted'.pc # "create"
        \/ posted' = posted /\ passed \cup Unfilled \subseteq (passed \cup Unfilled)'
    BY DEF EventsRest
  <2> QED
    BY <1>1, <1>2, <2>1, <2>2, NamesStayGiven
<1> QED
  BY <1>2, <1>5, <1>6, <1>7, <1>8 DEF AttrIInv

LEMMA FillKeeps ==
    ASSUME AttrIInv, Fill
    PROVE  AttrIInv'
<1>1. AttrTyped /\ UpdatesSound /\ FillsKnown /\ RecordsReach
  BY DEF AttrIInv
<1>2. /\ EventsRest /\ UNCHANGED <<stored, bookmark, handed, collector, start, skipped, lostFirst>>
      /\ activity.pc # "quiet" /\ activity.ids = {} /\ activity.fresh # {} /\ links["records"].todo = {}
  BY DEF Fill, EventsRest
<1>3. /\ activity # Quiet /\ activity \in RecordPost
      /\ activity.fresh \in SUBSET Ids /\ activity.to \in 0..Len(log)
  BY <1>1, <1>2, ActivityIs DEF AttrTyped, Quiet
<1>4. /\ Len(log) \in Nat /\ Ids = 1..Len(log) /\ links \in [Requests -> LinkState]
      /\ links["records"] \in LinkState /\ fileEvent \in Seq(EventRow)
  BY <1>1, StoredRecords DEF AttrTyped, EventsTyped, Requests
<1>5. PICK fresh \in SUBSET Ids, to \in 0..Len(log) : fresh = activity.fresh /\ to = activity.to
  BY <1>3
<1>6. PICK i \in fresh : i = Earliest(activity.fresh)
  BY <1>2, <1>4, <1>5, EarliestThere
<1>7. activity.pc = "ingest" /\ Unfilled = fresh /\ fresh \subseteq stored /\ passed \subseteq stored
  <2>1. activity.pc = "ingest"
    BY <1>1, <1>2, <1>3, ActivityIs DEF AttrTyped, RecordPost
  <2> QED
    BY <1>1, <1>3, <1>5, <2>1 DEF FillsKnown, Unfilled
<1>8. activity' = [pc |-> "ingest", ids |-> {}, fresh |-> fresh \ {i}, to |-> to] /\ activity' # Quiet
  <2>1. activity' = [pc |-> "ingest", ids |-> {}, fresh |-> fresh \ {i}, to |-> to]
    BY <1>2, <1>3, <1>5, <1>6, <1>7 DEF Fill, RecordPost
  <2> QED
    BY <2>1 DEF Quiet
<1>9. PICK t : t = FillUpdates(i)
  OBVIOUS
<1>10. links' = [links EXCEPT !["records"].todo = t] /\ passed' = IF posted.pc = "create" THEN passed \cup {i} ELSE passed
  BY <1>6, <1>9 DEF Fill
<1>11. PICK s : s = [links["records"] EXCEPT !.todo = t]
  OBVIOUS
<1>12. ASSUME NEW w \in t PROVE w \in RowUpdate /\ Follows(w.row, w.seen) /\ Decided(w)
  <2>1. PICK k \in DOMAIN fileEvent : /\ fileEvent[k].actor = Nobody /\ Candidates(fileEvent[k], {i}) # {}
                                      /\ w = Update(k, "actor", i)
    BY <1>9 DEF FillUpdates
  <2>2. PICK e \in EventRow : e = fileEvent[k] /\ k \in Nat
    BY <1>4
  <2>3. InWindow(e, i) /\ Explains(e, log[i])
    BY <2>1, <2>2 DEF Candidates
  <2>4. w = [row |-> k, seen |-> e, as |-> "actor", from |-> i] /\ i \in Nat
    BY <1>4, <2>1, <2>2 DEF Update
  <2>5. w \in RowUpdate
    BY <2>2, <2>4 DEF RowUpdate
  <2>6. Follows(w.row, w.seen)
    BY <2>2, <2>4 DEF Follows
  <2>7. Decided(w)
    BY <1>7, <2>1, <2>2, <2>3, <2>4 DEF Decided
  <2> QED
    BY <2>5, <2>6, <2>7
<1>13. s \in LinkState /\ s.todo = t /\ s.rows = links["records"].rows /\ links' = [links EXCEPT !["records"] = s]
       /\ links'["records"].todo = t
  BY <1>4, <1>10, <1>11, <1>12 DEF LinkState, Requests
<1>14. StateSound(s)
  BY <1>1, <1>12, <1>13 DEF StateSound, UpdatesSound, Requests
<1>15. Unfilled' = fresh \ {i}
  BY <1>8 DEF Unfilled
<1>16. passed' \cup Unfilled' \subseteq stored
  BY <1>7, <1>10, <1>15
<1>17. passed \cup Unfilled \subseteq (passed \cup Unfilled)' \/ posted.pc # "create"
  BY <1>7, <1>10, <1>15
<1>18. ASSUME NEW k \in DOMAIN fileEvent, NEW j \in Awaited(k)
       PROVE  j \in Awaited(k)' \/ j \notin Candidates(fileEvent[k], stored) \/ fileEvent[k].actor # Nobody
  <2>1. Coming(k) = {}
    BY <1>2 DEF Coming
  <2>2. CASE j # i
    BY <1>7, <1>10, <1>15, <1>18, <2>1, <2>2 DEF Awaited
  <2>3. CASE j = i
    <3> SUFFICES ASSUME i \in Candidates(fileEvent[k], stored), fileEvent[k].actor = Nobody
                 PROVE  i \in Awaited(k)'
      BY <2>3
    <3>1. i \in Candidates(fileEvent[k], {i})
      BY DEF Candidates
    <3>2. Update(k, "actor", i) \in t
      BY <1>9, <3>1 DEF FillUpdates
    <3>3. PICK w \in t : w.row = k /\ w.as = "actor" /\ w.from = i
      BY <3>2 DEF Update
    <3> QED
      BY <1>13, <3>3 DEF Awaited, Coming
  <2> QED
    BY <2>2, <2>3
<1>19. /\ Ids' = Ids /\ Bookmarks' = Bookmarks /\ RecordPost' = RecordPost /\ StartsAt' = StartsAt
       /\ \A j : Usable(j)' <=> Usable(j)
  BY <1>2, SteadyLog DEF EventsRest
<1>20. PostTyped'
  BY <1>5, <1>8, <1>19 DEF PostTyped, RecordPost
<1>21. BookmarksTyped' /\ lostFirst' \in BOOLEAN
  BY <1>1, <1>2, <1>19 DEF AttrTyped, BookmarksTyped
<1>22. RecordsReach'
  <2>1. InFlight = {} /\ InFlight' = {} /\ activity'.to = activity.to
    BY <1>2, <1>3, <1>5, <1>8 DEF InFlight
  <2>2. /\ Reached(bookmark, {}) => Reached(bookmark, {})'
        /\ Reached(handed, {}) => Reached(handed, {})'
        /\ Reached(collector.local, InFlight) => Reached(collector.local, InFlight)'
        /\ Reached(activity.to, InFlight) => Reached(activity.to, InFlight)'
    BY <1>2, <1>19, <2>1 DEF Reached
  <2>3. start' # Null
    BY <1>1, <1>2, <1>3 DEF RecordsReach, NotBegun
  <2> QED
    BY <1>1, <1>2, <1>3, <1>8, <1>19, <2>2, <2>3 DEF RecordsReach
<1>23. activity'.pc = "ingest" \/ s = Rested
  BY <1>8
<1> QED
  BY <1>2, <1>13, <1>14, <1>16, <1>17, <1>18, <1>20, <1>21, <1>22, <1>23, RecordsStepKeeps

LEMMA AdvanceKeeps ==
    ASSUME AttrIInv, Advance
    PROVE  AttrIInv'
<1>1. AttrTyped /\ UpdatesSound /\ FillsKnown /\ RecordsReach
  BY DEF AttrIInv
<1>2. /\ EventsRest /\ UNCHANGED <<stored, handed, start, skipped, lostFirst, links, passed>>
      /\ activity.pc # "quiet" /\ activity.ids = {} /\ activity.fresh = {} /\ links["records"] = Rested
      /\ bookmark' = activity.to /\ activity' = Quiet /\ collector' = [collector EXCEPT !.pc = "idle"]
  BY DEF Advance, EventsRest
<1>3. /\ Ids' = Ids /\ Bookmarks' = Bookmarks /\ StartsAt' = StartsAt /\ \A i : Usable(i)' <=> Usable(i)
  BY <1>2, SteadyLog DEF EventsRest
<1>4. collector \in [pc : {"idle", "posting"}, local : Bookmarks] /\ activity.to \in Bookmarks \ {Null}
      /\ activity # Quiet
  <2>1. activity # Quiet /\ activity.to \in 0..Len(log) /\ Len(log) \in Nat
    BY <1>1, <1>2, ActivityIs, StoredRecords DEF AttrTyped
  <2> QED
    BY <1>1, <2>1 DEF AttrTyped, BookmarksTyped, Bookmarks, Null
<1>5. PICK s : s = Rested
  OBVIOUS
<1>6. s \in LinkState /\ StateSound(s)
  <2>1. <<>> \in Seq(EventRow)
    OBVIOUS
  <2> QED
    BY <1>5, <2>1 DEF Rested, LinkState, StateSound
<1>7. links' = [links EXCEPT !["records"] = s]
  <2>1. links \in [Requests -> LinkState] /\ "records" \in Requests
    BY <1>1 DEF AttrTyped, EventsTyped, Requests
  <2> QED
    BY <1>2, <1>5, <2>1
<1>8. Unfilled = {} /\ Unfilled' = {}
  BY <1>2, <1>4 DEF Unfilled
<1>9. passed' \cup Unfilled' \subseteq stored /\ passed \cup Unfilled \subseteq (passed \cup Unfilled)'
  BY <1>1, <1>2, <1>8 DEF FillsKnown
<1>10. \A k : Awaited(k)' = Awaited(k)
  BY <1>2, <1>8 DEF Awaited, Coming
<1>11. PostTyped' /\ BookmarksTyped' /\ lostFirst' \in BOOLEAN
  BY <1>1, <1>2, <1>3, <1>4 DEF AttrTyped, PostTyped, BookmarksTyped
<1>12. RecordsReach'
  <2>1. InFlight = {} /\ InFlight' = {} /\ collector'.local = collector.local
    BY <1>2, <1>4 DEF InFlight
  <2>2. /\ Reached(handed, {}) => Reached(handed, {})'
        /\ Reached(collector.local, InFlight) => Reached(collector.local, InFlight)'
    BY <1>2, <1>3, <2>1 DEF Reached
  <2>3. ~lostFirst => Reached(activity.to, {})
    BY <1>1, <1>4, <2>1 DEF RecordsReach
  <2>4. ~lostFirst => Reached(bookmark, {})'
    BY <1>2, <1>3, <2>3 DEF Reached
  <2>5. start' # Null
    BY <1>1, <1>2, <1>4 DEF RecordsReach, NotBegun
  <2>6. handed' # Null => bookmark' # Null
    BY <1>2, <1>4
  <2> QED
    BY <1>1, <1>2, <1>3, <2>2, <2>4, <2>5, <2>6 DEF RecordsReach
<1> QED
  BY <1>2, <1>5, <1>6, <1>7, <1>9, <1>10, <1>11, <1>12, RecordsStepKeeps

LEMMA IngestBreaksKeeps ==
    ASSUME AttrIInv, IngestBreaks
    PROVE  AttrIInv'
<1>1. AttrTyped /\ UpdatesSound /\ FillsKnown /\ RecordsReach
  BY DEF AttrIInv
<1>2. /\ EventsRest /\ UNCHANGED <<stored, bookmark, handed, start, skipped>> /\ activity.pc = "ingest"
      /\ passed' = passed \cup activity.fresh \cup {w.from : w \in links["records"].todo}
      /\ links' = [links EXCEPT !["records"] = Rested] /\ lostFirst' = (lostFirst \/ handed = Null)
      /\ activity' = Quiet /\ collector' = [collector EXCEPT !.pc = "idle"]
  BY DEF IngestBreaks, EventsRest
<1>3. /\ Ids' = Ids /\ Bookmarks' = Bookmarks /\ StartsAt' = StartsAt /\ \A i : Usable(i)' <=> Usable(i)
  BY <1>2, SteadyLog DEF EventsRest
<1>4. collector \in [pc : {"idle", "posting"}, local : Bookmarks] /\ activity # Quiet
  BY <1>1, <1>2 DEF AttrTyped, BookmarksTyped, Quiet
<1>5. PICK s : s = Rested
  OBVIOUS
<1>6. s \in LinkState /\ StateSound(s)
  <2>1. <<>> \in Seq(EventRow)
    OBVIOUS
  <2> QED
    BY <1>5, <2>1 DEF Rested, LinkState, StateSound
<1>7. Unfilled = activity.fresh /\ Unfilled' = {}
  BY <1>2, <1>4 DEF Unfilled
<1>8. \A w \in links["records"].todo : w.from \in stored
  BY <1>1 DEF UpdatesSound, StateSound, Decided, Requests
<1>9. passed' \cup Unfilled' \subseteq stored /\ passed \cup Unfilled \subseteq (passed \cup Unfilled)'
  BY <1>1, <1>2, <1>7, <1>8 DEF FillsKnown
<1>10. \A k : Awaited(k) \subseteq Awaited(k)'
  <2>1. \A k : Coming(k) \subseteq passed'
    BY <1>2 DEF Coming
  <2> QED
    BY <1>9, <2>1 DEF Awaited
<1>11. PostTyped' /\ BookmarksTyped' /\ lostFirst' \in BOOLEAN
  BY <1>1, <1>2, <1>3, <1>4 DEF AttrTyped, PostTyped, BookmarksTyped
<1>12. RecordsReach'
  <2>1. /\ Reached(bookmark, {}) => Reached(bookmark, {})'
        /\ Reached(handed, {}) => Reached(handed, {})'
    BY <1>2, <1>3 DEF Reached
  <2>2. start' # Null
    BY <1>1, <1>2, <1>4 DEF RecordsReach, NotBegun
  <2> QED
    BY <1>1, <1>2, <1>3, <2>1, <2>2 DEF RecordsReach
<1> QED
  BY <1>2, <1>5, <1>6, <1>9, <1>10, <1>11, <1>12, RecordsStepKeeps

LEMMA AttrIInvStep == AttrIInv /\ [AttrNext]_attrVars => AttrIInv'
<1> SUFFICES ASSUME AttrIInv, [AttrNext]_attrVars PROVE AttrIInv'
  OBVIOUS
<1>1. CASE PeopleStep
  BY <1>1, PeopleGrow, GrownKeeps DEF AttrIInv
<1>2. ASSUME NEW c \in changes, Report(c) PROVE AttrIInv'
  BY <1>2, ReportKeeps
<1>3. ASSUME NEW r \in Requests, LinkStep(r) PROVE AttrIInv'
  BY <1>3, ReadRenamesKeeps, ReadCopiesKeeps, ReadReadsKeeps, WriteRowKeeps DEF LinkStep
<1>4. CASE EventStep
  BY <1>3, <1>4, LookKeeps, CreateKeeps, EventsDoneKeeps DEF EventStep, Requests
<1>5. CASE ActivityStep
  BY <1>3, <1>5, StoreRecordKeeps, FillKeeps, AdvanceKeeps DEF ActivityStep, Requests
<1>6. CASE Sync
  BY <1>6, SyncKeeps
<1>7. CASE Poll
  BY <1>7, PollKeeps
<1>8. CASE PostLost
  BY <1>8, PostLostKeeps
<1>9. CASE AgentRestarts
  BY <1>9, AgentRestartsKeeps
<1>10. CASE IngestBreaks
  BY <1>10, IngestBreaksKeeps
<1>11. CASE UNCHANGED attrVars
  <2>1. Grown
    <3>1. log \in Seq(LogRecord) /\ changes \subseteq ChangeNoticed /\ Len(log) \in Nat
      BY DEF AttrIInv, AttrTyped, LogTyped
    <3> QED
      BY <1>11, <3>1 DEF attrVars, Grown
  <2> QED
    BY <2>1, GrownKeeps DEF AttrIInv
<1> QED
  BY <1>1, <1>2, <1>4, <1>5, <1>6, <1>7, <1>8, <1>9, <1>10, <1>11 DEF AttrNext, PeopleStep

\* The records stored are usable ones of the log, a bookmark is a place in it, and an
\* event is named after a person or nobody.
THEOREM AttrTypeCorrect == AttrSpec => []AttrTypeOK
<1>1. AttrIInv => AttrTypeOK
  <2> SUFFICES ASSUME AttrIInv PROVE AttrTypeOK
    OBVIOUS
  <2>1. AttrTyped /\ FillsKnown
    BY DEF AttrIInv
  <2>2. \A k \in DOMAIN fileEvent : fileEvent[k] \in EventRow
    BY <2>1 DEF AttrTyped, EventsTyped
  <2>3. overwritten \subseteq DOMAIN fileEvent /\ passed \subseteq stored
    BY <2>1 DEF AttrTyped, EventsTyped, FillsKnown
  <2> QED
    BY <2>1, <2>2, <2>3 DEF AttrTypeOK, AttrTyped, StoreTyped, BookmarksTyped, Bookmarks, EventRow
<1> QED
  BY <1>1, AttrIInvInit, AttrIInvStep, PTL DEF AttrSpec

\* Whoever is named for an event has a stored record in its window, at its path or the
\* one it came from unless the row was written over after it had changed; an event
\* without a name fits, once no post of records is under way, only records that went
\* past it; and every usable record down to the bookmark is stored or was passed over
\* by a poll: for any people, files, log, windows and poll size, lost and broken posts
\* and restarts of the agent, and posts of events and of records across each other.
THEOREM NamesSound == AttrSpec => []NamesHold
<1>1. AttrIInv => NamesHold
  <2> SUFFICES ASSUME AttrIInv PROVE NamesHold
    OBVIOUS
  <2>1. AttrTyped /\ NamesKnown /\ FillsKnown /\ NamesGiven /\ RecordsReach
    BY DEF AttrIInv
  <2>2. NamesHaveRecords
    BY <2>1 DEF NamesHaveRecords, NamesKnown, HasRecord
  <2>3. NoneLeftUnnamed
    <3> SUFFICES ASSUME activity = Quiet, NEW k \in DOMAIN fileEvent, fileEvent[k].actor = Nobody
                 PROVE  Candidates(fileEvent[k], stored) \subseteq passed
      BY DEF NoneLeftUnnamed
    <3>1. Unfilled = {}
      BY DEF Unfilled
    <3>2. links["records"] = Rested
      BY <2>1 DEF FillsKnown, Quiet
    <3>3. Coming(k) = {}
      BY <3>2 DEF Coming, Rested
    <3> QED
      BY <2>1, <3>1, <3>3 DEF NamesGiven, FitsOnly, Awaited
  <2>4. RecordsArrive
    BY <2>1 DEF RecordsArrive, RecordsReach, Reached
  <2> QED
    BY <2>2, <2>3, <2>4 DEF NamesHold
<1> QED
  BY <1>1, AttrIInvInit, AttrIInvStep, PTL DEF AttrSpec

\* A name that an event has changes only by an update of a row that had changed since
\* the update was decided on: the backfill's and the links' own reads keep what is named.
THEOREM NamesNeverRewritten == AttrSpec => NamesStay
<1> DEFINE Stay == \A k \in DOMAIN fileEvent :
                      fileEvent[k].actor # Nobody /\ fileEvent'[k].actor # fileEvent[k].actor
                          => k \in overwritten'
<1>1. AttrIInv /\ [AttrNext]_attrVars => [Stay]_attrVars
  <2> SUFFICES ASSUME AttrIInv, AttrNext PROVE Stay
    BY Zenon
  <2>1. CASE fileEvent' = fileEvent
    BY <2>1
  <2>2. CASE Create
    <3>1. PICK s \in Seq(EventRow) : s = fileEvent
      BY DEF AttrIInv, AttrTyped, EventsTyped
    <3>2. PICK e : e = posted.event
      OBVIOUS
    <3>3. fileEvent' = Append(s, e)
      BY <2>2, <3>1, <3>2 DEF Create
    <3>4. \A k \in DOMAIN s : Append(s, e)[k] = s[k]
      <4>1. s \in Seq(EventRow \cup {e}) /\ e \in EventRow \cup {e}
        <5>1. Seq(EventRow) \subseteq Seq(EventRow \cup {e})
          OBVIOUS
        <5> QED
          BY <5>1
      <4> QED
        BY <4>1, AppendProperties
    <3> QED
      BY <3>1, <3>3, <3>4
  <2>3. ASSUME NEW r \in Requests, WriteRow(r) PROVE Stay
    <3>1. AttrTyped /\ UpdatesSound /\ NamesKnown
      BY DEF AttrIInv
    <3>2. PICK w \in links[r].todo :
              /\ fileEvent' = [fileEvent EXCEPT ![w.row] = Applied(@, w)]
              /\ overwritten' = IF fileEvent[w.row] = w.seen THEN overwritten ELSE overwritten \cup {w.row}
      BY <2>3, <3>1, WriteRowIs
    <3>3. w \in RowUpdate /\ Follows(w.row, w.seen) /\ Decided(w)
      BY <3>1 DEF UpdatesSound, StateSound, LinkState, AttrTyped, EventsTyped
    <3>4. PICK h : h = w.row
      OBVIOUS
    <3>5. h \in DOMAIN fileEvent /\ fileEvent \in Seq(EventRow)
      BY <3>1, <3>3, <3>4 DEF Follows, AttrTyped, EventsTyped
    <3>6. PICK e \in EventRow : e = fileEvent[h]
      BY <3>5
    <3>7. PICK a : a = (h \in overwritten)
      OBVIOUS
    <3>8. HasRecord(e, a)
      BY <3>1, <3>5, <3>6, <3>7 DEF NamesKnown
    <3>9. PICK f : f = Applied(e, w)
      OBVIOUS
    <3>10. e.actor # Nobody /\ f.actor # e.actor => e # w.seen
      BY <3>1, <3>3, <3>4, <3>6, <3>8, <3>9, AppliedIs
    <3>11. fileEvent' = [fileEvent EXCEPT ![h] = f]
           /\ overwritten' = IF e = w.seen THEN overwritten ELSE overwritten \cup {h}
      BY <3>2, <3>4, <3>5, <3>6, <3>9
    <3> QED
      BY <3>5, <3>6, <3>10, <3>11
  <2>4. fileEvent' = fileEvent \/ Create \/ \E r \in Requests : WriteRow(r)
    <3>1. PeopleStep => fileEvent' = fileEvent
      BY PeopleGrow DEF AttrIInv, Grown
    <3>2. (\E c \in changes : Report(c)) \/ Sync \/ Poll \/ PostLost \/ AgentRestarts \/ IngestBreaks
              => fileEvent' = fileEvent
      BY DEF Report, Sync, Poll, PostLost, AgentRestarts, IngestBreaks
    <3>3. Look \/ EventsDone \/ StoreRecord \/ Fill \/ Advance => fileEvent' = fileEvent
      BY DEF Look, EventsDone, StoreRecord, Fill, Advance
    <3>4. \A r \in Requests : LinkStep(r) => WriteRow(r) \/ fileEvent' = fileEvent
      BY DEF LinkStep, ReadRenames, ReadCopies, ReadReads
    <3>5. EventStep \/ ActivityStep => fileEvent' = fileEvent \/ Create \/ \E r \in Requests : WriteRow(r)
      BY <3>3, <3>4 DEF EventStep, ActivityStep, Requests
    <3> QED
      BY <3>1, <3>2, <3>5 DEF AttrNext, PeopleStep
  <2> QED
    BY <2>1, <2>2, <2>3, <2>4
<1>2. NamesStay <=> [][Stay]_attrVars
  BY DEF NamesStay
<1> HIDE DEF Stay
<1> QED
  BY <1>1, <1>2, AttrIInvInit, AttrIInvStep, PTL DEF AttrSpec
=============================================================================
