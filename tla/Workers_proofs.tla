---------------------------- MODULE Workers_proofs ----------------------------
(***************************************************************************)
(* Proofs about the page of the file servers: its tests of connections,    *)
(* for every set of forms and every number of tests and faults; its        *)
(* forms, for every set of browsers, servers and entries; the sweeps of    *)
(* the retention, for every set of rows, limits and days; the backup       *)
(* workers, for every number of them, of runs and of bundles kept; and     *)
(* content discovery with the classification worker, for every share,      *)
(* policy, number of ticks and of jobs.                                    *)
(***************************************************************************)
EXTENDS ConnectionTests, ServerForms, Retention, Backups, ContentDiscovery, FiniteSetTheorems,
        WellFoundedInduction, TLAPS
-----------------------------------------------------------------------------
(***************************************************************************)
(* ConnectionTests.                                                        *)
(***************************************************************************)
\* Taking one element out of a sequence leaves a sequence of such elements.
LEMMA WithoutAtType ==
    ASSUME NEW S, NEW q \in Seq(S), NEW i \in DOMAIN q
    PROVE  WithoutAt(q, i) \in Seq(S) /\ (Len(q) <= 1 => WithoutAt(q, i) = <<>>)
<1>1. SubSeq(q, 1, i - 1) \in Seq(S) /\ SubSeq(q, i + 1, Len(q)) \in Seq(S)
  OBVIOUS
<1>2. WithoutAt(q, i) \in Seq(S)
  BY <1>1 DEF WithoutAt
<1>3. Len(q) <= 1 => WithoutAt(q, i) = <<>>
  BY <1>1, <1>2 DEF WithoutAt
<1> QED
  BY <1>2, <1>3

\* Replacing one element leaves a sequence of the same length.
LEMMA ReplaceType ==
    ASSUME NEW S, NEW q \in Seq(S), NEW i \in DOMAIN q, NEW n \in S
    PROVE  [q EXCEPT ![i] = n] \in Seq(S) /\ Len([q EXCEPT ![i] = n]) = Len(q)
OBVIOUS
\* Appending makes a sequence that is not empty.
LEMMA AppendIsNotEmpty ==
    ASSUME NEW S, NEW q \in Seq(S), NEW e \in S
    PROVE  Append(q, e) \in Seq(S) /\ Len(Append(q, e)) = Len(q) + 1 /\ Append(q, e) # <<>>
<1>1. Append(q, e) \in Seq(S) /\ Len(Append(q, e)) = Len(q) + 1
  OBVIOUS
<1>2. Len(q) + 1 # Len(<<>>)
  OBVIOUS
<1> QED
  BY <1>1, <1>2

\* Sequences of numbers up to n are sequences of numbers up to any m from n on.
LEMMA SeqUpTo ==
    ASSUME NEW n \in Nat, NEW m \in Nat, n <= m, NEW q \in Seq(0..n)
    PROVE  q \in Seq(0..m)
OBVIOUS

LEMMA TestsTypeInit == TestsInit => TestsTypeOK
BY DEF TestsInit, TestsTypeOK

\* Every step keeps every variable in its type, and a form that waits with
\* something to wait for.
LEMMA TestsTypeStep == TestsTypeOK /\ [TestsNext]_testVars => TestsTypeOK'
<1> SUFFICES ASSUME TestsTypeOK, [TestsNext]_testVars PROVE TestsTypeOK'
    OBVIOUS
<1> USE DEF TestsTypeOK, TestStatus
<1>1. ASSUME NEW f \in TestForms, RunTest(f) PROVE TestsTypeOK'
  <2>1. starting[f] \in Seq(0..Len(testRows)) /\ 0 \in 0..Len(testRows)
    OBVIOUS
  <2>2. Append(starting[f], 0) \in Seq(0..Len(testRows)) /\ Append(starting[f], 0) # <<>>
    BY <2>1, AppendIsNotEmpty
  <2> QED
    BY <1>1, <2>2 DEF RunTest
<1>2. ASSUME NEW f \in TestForms, PollTest(f) PROVE TestsTypeOK'
  <2>1. testRows[polled[f]] \in TestStatus /\ polled[f] \in DOMAIN testRows
    BY <1>2 DEF PollTest
  <2> QED
    BY <1>2, <2>1 DEF PollTest, PollAnswer
<1>3. ASSUME NEW f \in TestForms, NEW i \in DOMAIN starting[f], Creates(f, i) PROVE TestsTypeOK'
  <2>1. /\ testRows' \in Seq(TestStatus) /\ Len(testRows') = Len(testRows) + 1
        /\ DOMAIN testRows \subseteq DOMAIN testRows'
    BY <1>3 DEF Creates
  <2>2. \A g \in TestForms : starting[g] \in Seq(0..Len(testRows'))
    BY <2>1, SeqUpTo
  <2>3. /\ [starting[f] EXCEPT ![i] = Len(testRows')] \in Seq(0..Len(testRows'))
        /\ Len([starting[f] EXCEPT ![i] = Len(testRows')]) = Len(starting[f])
    BY <2>1, <2>2, ReplaceType
  <2>4. starting' \in [TestForms -> Seq(0..Len(testRows'))]
    BY <1>3, <2>2, <2>3 DEF Creates
  <2>5. \A g \in TestForms : starting[g] # <<>> => starting'[g] # <<>>
    BY <1>3, <2>3 DEF Creates
  <2> QED
    BY <1>3, <2>1, <2>4, <2>5 DEF Creates
<1>4. ASSUME NEW f \in TestForms, NEW i \in DOMAIN starting[f], Started(f, i) PROVE TestsTypeOK'
  <2>1. WithoutAt(starting[f], i) \in Seq(0..Len(testRows)) /\ starting[f][i] \in 0..Len(testRows)
    BY WithoutAtType
  <2> QED
    BY <1>4, <2>1 DEF Started
<1>5. ASSUME NEW f \in TestForms, NEW i \in DOMAIN starting[f], StartFails(f, i) PROVE TestsTypeOK'
  <2>1. WithoutAt(starting[f], i) \in Seq(0..Len(testRows))
    BY WithoutAtType
  <2> QED
    BY <1>5, <2>1 DEF StartFails
<1>6. ASSUME NEW t \in DOMAIN testRows, NEW how \in {"SUCCEEDED", "FAILED"}, Reported(t, how) PROVE TestsTypeOK'
  <2>1. testRows' \in Seq(TestStatus) /\ Len(testRows') = Len(testRows) /\ DOMAIN testRows' = DOMAIN testRows
    BY <1>6, ReplaceType DEF Reported
  <2> QED
    BY <1>6, <2>1 DEF Reported
<1>7. ASSUME NEW p \in polling, PollAnswered(p) PROVE TestsTypeOK'
  <2>1. p.form \in TestForms /\ p.status \in TestStatus /\ polling' \subseteq polling
    BY <1>7 DEF PollAnswer, PollAnswered, Lands
  <2>2. CASE p.status = "PENDING"
    BY <1>7, <2>1, <2>2 DEF PollAnswered
  <2>3. CASE p.status # "PENDING"
    <3>1. /\ formResult' = [formResult EXCEPT ![p.form] = p.status] /\ polled' = [polled EXCEPT ![p.form] = 0]
          /\ UNCHANGED <<testRows, starting, lastTest, pollCrossed>>
      BY <1>7, <2>3 DEF PollAnswered, ShowsResult
    <3>2. formResult' \in [TestForms -> TestStatus \cup {"idle"}] /\ polled' \in [TestForms -> 0..Len(testRows)]
      BY <2>1, <3>1
    <3>3. \A f \in TestForms : formResult'[f] = "PENDING" => starting[f] # <<>> \/ polled'[f] # 0
      BY <2>1, <2>3, <3>1
    <3> QED
      BY <2>1, <3>1, <3>2, <3>3
  <2> QED
    BY <2>2, <2>3
<1>8. ASSUME NEW p \in polling, TestPollFails(p) PROVE TestsTypeOK'
  <2>1. p.form \in TestForms /\ polling' \subseteq polling
    BY <1>8 DEF PollAnswer, TestPollFails, Lands
  <2> QED
    BY <1>8, <2>1 DEF TestPollFails, ShowsResult
<1>9. CASE UNCHANGED testVars
  BY <1>9 DEF testVars
<1> QED
  BY <1>1, <1>2, <1>3, <1>4, <1>5, <1>6, <1>7, <1>8, <1>9 DEF TestsNext

\* Every variable holds values of its type in every reachable state, and a form
\* whose button is off has a request under way or a test to poll.
THEOREM TestsTypeCorrect == TestsSpec => []TestsTypeOK
BY TestsTypeInit, TestsTypeStep, PTL DEF TestsSpec
-----------------------------------------------------------------------------
(***************************************************************************)
(* The inductive invariant.  A form that was never begun over a poll of an *)
(* earlier test has one test at a time: while it is asked for there is     *)
(* nothing else, then its polls are all of the test made last, and when    *)
(* one of them settles the form nothing new is polled.  What a poll says   *)
(* in the end was settled in the row, which does not change any more.      *)
(***************************************************************************)
OneAtATime ==
    \A f \in TestForms \ pollCrossed :
        /\ Len(starting[f]) <= 1
        /\ starting[f] # <<>> =>
              /\ formResult[f] = "PENDING" /\ polled[f] = 0
              /\ starting[f][1] \in {0, lastTest[f]}
              /\ \A p \in polling : p.form # f
        /\ formResult[f] # "PENDING" => polled[f] = 0

PollsAreOfLast ==
    \A f \in TestForms \ pollCrossed :
        /\ polled[f] \in {0, lastTest[f]}
        /\ \A p \in polling : p.form = f => p.test = lastTest[f]

PollsAreTrue == \A p \in polling : p.status # "PENDING" => testRows[p.test] = p.status

TestsIInv == TestsTypeOK /\ OneAtATime /\ PollsAreOfLast /\ PollsAreTrue /\ TickIsOfLast

LEMMA TestsIInvInit == TestsInit => TestsIInv
BY TestsTypeInit DEF TestsInit, TestsIInv, OneAtATime, PollsAreOfLast, PollsAreTrue, TickIsOfLast
LEMMA TestsIInvStep == TestsIInv /\ [TestsNext]_testVars => TestsIInv'
<1> SUFFICES ASSUME TestsIInv, [TestsNext]_testVars PROVE TestsIInv'
    OBVIOUS
<1> DEFINE Rest == OneAtATime /\ PollsAreOfLast /\ PollsAreTrue /\ TickIsOfLast
<1>0. TestsTypeOK /\ TestsTypeOK' /\ Rest
  BY TestsTypeStep DEF TestsIInv
<1> SUFFICES Rest'
    BY <1>0 DEF TestsIInv
<1> USE <1>0 DEF TestsTypeOK, TestStatus, OneAtATime, PollsAreOfLast, PollsAreTrue, TickIsOfLast
<1>1. ASSUME NEW f \in TestForms, RunTest(f) PROVE Rest'
  <2>1. /\ formResult[f] # "PENDING" /\ starting'[f] = Append(starting[f], 0)
        /\ \A g \in TestForms \ {f} : starting'[g] = starting[g] /\ formResult'[g] = formResult[g]
        /\ formResult'[f] = "PENDING"
        /\ pollCrossed \subseteq pollCrossed' /\ (f \notin pollCrossed' => \A q \in polling : q.form # f)
        /\ UNCHANGED <<testRows, polled, polling, lastTest>>
    BY <1>1 DEF RunTest, MayTest
  <2>2. f \notin pollCrossed => Len(starting'[f]) = 1 /\ starting'[f][1] = 0
    BY <2>1
  <2> HIDE DEF TestsTypeOK
  <2>6. OneAtATime'
    BY <2>1, <2>2
  <2>7. PollsAreOfLast'
    BY <2>1
  <2>8. PollsAreTrue' /\ TickIsOfLast'
    BY <2>1
  <2> QED
    BY <2>6, <2>7, <2>8
<1>2. ASSUME NEW f \in TestForms, PollTest(f) PROVE Rest'
  BY <1>2 DEF PollTest
<1>3. ASSUME NEW f \in TestForms, NEW i \in DOMAIN starting[f], Creates(f, i) PROVE Rest'
  <2>1. /\ \A t \in DOMAIN testRows : testRows'[t] = testRows[t]
        /\ lastTest'[f] = Len(testRows') /\ Len(testRows') # 0 /\ starting'[f] = [starting[f] EXCEPT ![i] = Len(testRows')]
        /\ \A g \in TestForms \ {f} : starting'[g] = starting[g] /\ lastTest'[g] = lastTest[g]
        /\ UNCHANGED <<formResult, polled, polling, pollCrossed>>
    BY <1>3 DEF Creates
  <2>a. starting[f] \in Seq(Nat) /\ starting[f] # <<>> /\ i \in DOMAIN starting[f]
    OBVIOUS
  <2>b. Len(starting'[f]) = Len(starting[f]) /\ (i = 1 => starting'[f][1] = lastTest'[f])
    BY ONLY <2>a, <2>1
  <2>c. f \notin pollCrossed => Len(starting[f]) <= 1
    OBVIOUS
  <2>d. f \notin pollCrossed => i = 1
    BY ONLY <2>a, <2>c
  <2>2. /\ starting[f] # <<>> /\ Len(starting'[f]) = Len(starting[f])
        /\ f \notin pollCrossed => i = 1 /\ starting'[f][1] = lastTest'[f]
    BY <2>a, <2>b, <2>d
  <2>3. f \notin pollCrossed => formResult[f] = "PENDING" /\ polled[f] = 0 /\ \A p \in polling : p.form # f
    BY <2>2
  <2>4. \A p \in polling : testRows'[p.test] = testRows[p.test]
    BY <2>1
  <2>5. \A g \in TestForms : lastTest[g] # 0 => testRows'[lastTest[g]] = testRows[lastTest[g]]
    <3>1. \A g \in TestForms : lastTest[g] # 0 => lastTest[g] \in DOMAIN testRows
      OBVIOUS
    <3> QED
      BY ONLY <2>1, <3>1
  <2> HIDE DEF TestsTypeOK
  <2>6. OneAtATime'
    <3>1. ASSUME NEW g \in TestForms \ pollCrossed, g # f PROVE starting'[g] = starting[g] /\ lastTest'[g] = lastTest[g]
      BY <2>1, <3>1
    <3> QED
      BY <2>1, <2>2, <2>3, <3>1
  <2>7. PollsAreOfLast'
    BY <2>1, <2>3
  <2>8. PollsAreTrue'
    BY <2>1, <2>4
  <2>9. TickIsOfLast'
    BY <2>1, <2>3, <2>5
  <2> QED
    BY <2>6, <2>7, <2>8, <2>9
<1>4. ASSUME NEW f \in TestForms, NEW i \in DOMAIN starting[f], Started(f, i) PROVE Rest'
  <2>1. /\ starting[f] # <<>> /\ (f \notin pollCrossed => i = 1 /\ starting'[f] = <<>>)
        /\ polled'[f] = starting[f][i] /\ starting[f][i] # 0
        /\ \A g \in TestForms \ {f} : starting'[g] = starting[g] /\ polled'[g] = polled[g]
        /\ UNCHANGED <<testRows, formResult, polling, lastTest, pollCrossed>>
    BY <1>4, WithoutAtType DEF Started
  <2>2. f \notin pollCrossed => /\ formResult[f] = "PENDING" /\ polled'[f] = lastTest[f]
                               /\ \A p \in polling : p.form # f
    BY <2>1
  <2> HIDE DEF TestsTypeOK
  <2>6. OneAtATime'
    BY <2>1, <2>2
  <2>7. PollsAreOfLast'
    BY <2>1, <2>2
  <2>8. PollsAreTrue' /\ TickIsOfLast'
    BY <2>1
  <2> QED
    BY <2>6, <2>7, <2>8
<1>5. ASSUME NEW f \in TestForms, NEW i \in DOMAIN starting[f], StartFails(f, i) PROVE Rest'
  <2>1. /\ starting[f] # <<>> /\ (f \notin pollCrossed => starting'[f] = <<>>) /\ formResult'[f] = "FAILED"
        /\ \A g \in TestForms \ {f} : starting'[g] = starting[g] /\ formResult'[g] = formResult[g]
        /\ UNCHANGED <<testRows, polled, polling, lastTest, pollCrossed>>
    BY <1>5, WithoutAtType DEF StartFails
  <2>2. f \notin pollCrossed => formResult[f] = "PENDING" /\ polled[f] = 0
    BY <2>1
  <2> HIDE DEF TestsTypeOK
  <2>6. OneAtATime'
    BY <2>1, <2>2
  <2>7. PollsAreOfLast'
    BY <2>1
  <2>8. PollsAreTrue' /\ TickIsOfLast'
    BY <2>1
  <2> QED
    BY <2>6, <2>7, <2>8
<1>6. ASSUME NEW t \in DOMAIN testRows, NEW how \in {"SUCCEEDED", "FAILED"}, Reported(t, how) PROVE Rest'
  <2>1. \A u \in DOMAIN testRows : testRows[u] # "PENDING" => testRows'[u] = testRows[u]
    BY <1>6 DEF Reported
  <2> QED
    BY <1>6, <2>1 DEF Reported
<1>7. ASSUME NEW p \in polling, PollAnswered(p) PROVE Rest'
  <2>1. p.form \in TestForms /\ polling' \subseteq polling /\ UNCHANGED <<testRows, starting, lastTest, pollCrossed>>
    BY <1>7 DEF PollAnswer, PollAnswered, Lands
  <2>2. CASE p.status = "PENDING"
    BY <1>7, <2>1, <2>2 DEF PollAnswered
  <2>3. CASE p.status # "PENDING"
    <3>1. /\ formResult'[p.form] = p.status /\ polled'[p.form] = 0
          /\ \A g \in TestForms \ {p.form} : formResult'[g] = formResult[g] /\ polled'[g] = polled[g]
      BY <1>7, <2>1, <2>3 DEF PollAnswered, ShowsResult
    <3>3. p.form \notin pollCrossed => starting[p.form] = <<>> /\ p.test = lastTest[p.form]
      BY <2>1
    <3>4. p.test \in DOMAIN testRows
      OBVIOUS
    <3>2. p.form \notin pollCrossed => starting[p.form] = <<>> /\ p.test = lastTest[p.form] /\ p.test \in DOMAIN testRows
      BY <3>3, <3>4
    <3>6. OneAtATime'
      BY ONLY <1>0, <2>1, <2>3, <3>1, <3>2 DEF OneAtATime
    <3>7. PollsAreOfLast'
      BY ONLY <1>0, <2>1, <3>1 DEF PollsAreOfLast
    <3>8. PollsAreTrue'
      BY ONLY <1>0, <2>1, <3>1 DEF PollsAreTrue
    <3>5. p.form \notin pollCrossed /\ p.status = "SUCCEEDED" =>
              lastTest[p.form] # 0 /\ testRows[lastTest[p.form]] = "SUCCEEDED"
      <4>1. testRows[p.test] = p.status /\ p.test # 0
        BY <2>3
      <4> QED
        BY ONLY <3>3, <4>1
    <3>9. TickIsOfLast'
      BY ONLY <2>1, <3>1, <3>5, <1>0 DEF TickIsOfLast
    <3> QED
      BY <3>6, <3>7, <3>8, <3>9
  <2> QED
    BY <2>2, <2>3
<1>8. ASSUME NEW p \in polling, TestPollFails(p) PROVE Rest'
  <2>1. /\ p.form \in TestForms /\ polling' \subseteq polling /\ UNCHANGED <<testRows, starting, lastTest, pollCrossed>>
        /\ formResult' = [formResult EXCEPT ![p.form] = "FAILED"] /\ polled' = [polled EXCEPT ![p.form] = 0]
    BY <1>8 DEF PollAnswer, TestPollFails, Lands, ShowsResult
  <2>2. p.form \notin pollCrossed => starting[p.form] = <<>>
    BY <2>1
  <2> QED
    BY <2>1, <2>2
<1>9. CASE UNCHANGED testVars
  BY <1>9 DEF testVars
<1> QED
  BY <1>1, <1>2, <1>3, <1>4, <1>5, <1>6, <1>7, <1>8, <1>9 DEF TestsNext

\* A form that shows a working connection shows what came of the test made last
\* for it, whatever was refused, lost or answered late, as long as the test was
\* not begun while a poll of an earlier one was still on its way.
THEOREM TickOfLast == TestsSpec => []TickIsOfLast
<1>1. TestsIInv => TickIsOfLast
  BY DEF TestsIInv
<1> QED
  BY <1>1, TestsIInvInit, TestsIInvStep, PTL DEF TestsSpec
-----------------------------------------------------------------------------
(***************************************************************************)
(* ServerForms: the types, and the invariant.                              *)
(***************************************************************************)
Secrets == Typeds \cup {NothingTyped}
RowKinds == {"new", "there", "gone"}
ServerRow == [is : RowKinds, enabled : BOOLEAN, plain : Plains, secret : Secrets, activity : BOOLEAN, reads : BOOLEAN]
FilledFrom == [is : RowKinds, secret : Secrets, version : Nat]
OpenSheet == [open : {TRUE}, serial : Nat, busy : BOOLEAN, from : FilledFrom]
FormBody == [plain : Plains, secret : Secrets, activity : BOOLEAN, reads : BOOLEAN]
SendStates == {"sent", "done", "failed"}
SaveSend == [by : Browsers, row : FormRows, serial : Nat, at : SendStates, what : {"save"},
             with : [body : FormBody, from : FilledFrom]]
SwitchSend == [by : Browsers, row : FormRows, serial : Nat, at : SendStates, what : {"switch"}, with : BOOLEAN]
DeleteSend == [by : Browsers, row : FormRows, serial : Nat, at : SendStates, what : {"delete"}, with : Plains]
PageSend == SaveSend \cup SwitchSend \cup DeleteSend

FormsOK ==
    /\ serverRows \in [FormRows -> ServerRow]
    /\ shown \in [Browsers -> [FormRows -> [row : ServerRow, version : Nat]]]
    /\ sheet \in [Browsers -> [FormRows -> {NoForm} \cup OpenSheet]]
    /\ sends \subseteq PageSend /\ sendCount \in Nat
    /\ saveCount \in [FormRows -> Nat] /\ typedLast \in [FormRows -> Secrets]
    /\ entered \in [FormRows -> SUBSET (Plains \X Secrets)] /\ staleSave \subseteq FormRows

\* What a page has of version v of a row: no later version than there is, and of the
\* present one the present password.
AsOf(k, v, s) == v <= saveCount[k] /\ (v = saveCount[k] => s = serverRows[k].secret)

\* A row has a password as its kind has, reads with changes only, the password typed
\* last, and, where no save was stale, a login entered with it.
RowHolds(k) ==
    /\ serverRows[k].secret \in IF k \in FileServers THEN Typeds ELSE {NothingTyped}
    /\ serverRows[k].reads => serverRows[k].activity
    /\ serverRows[k].secret = typedLast[k]
    /\ k \notin staleSave => <<serverRows[k].plain, serverRows[k].secret>> \in entered[k]
RowsHold == \A k \in FormRows : RowHolds(k)

\* What the pages show, and what their forms were filled from.
ShownHolds == \A b \in Browsers, k \in FormRows : AsOf(k, shown[b][k].version, shown[b][k].row.secret)

SheetsHold ==
    \A b \in Browsers, k \in FormRows :
        sheet[b][k] # NoForm => AsOf(k, sheet[b][k].from.version, sheet[b][k].from.secret)

\* A save that is under way.
SaveHolds(r) ==
    /\ r.with.body.reads => r.with.body.activity
    /\ r.row \notin FileServers => r.with.body.secret = NothingTyped
    /\ AsOf(r.row, r.with.from.version, r.with.from.secret)
SavesHold == \A r \in sends : r.what = "save" => SaveHolds(r)

\* Requests are told apart by their numbers, and a form waits for its own.
SerialsDiffer ==
    /\ \A r \in sends : r.serial <= sendCount
    /\ \A q, r \in sends : q.serial = r.serial => q = r

WaitsFor(b, k, r) == r.serial = sheet[b][k].serial /\ r.by = b /\ r.row = k /\ r.what = "save"
BusyWaits ==
    \A b \in Browsers, k \in FormRows :
        sheet[b][k] # NoForm /\ sheet[b][k].busy => \E r \in sends : WaitsFor(b, k, r)

FormsIInv == FormsOK /\ RowsHold /\ ShownHolds /\ SheetsHold /\ SavesHold /\ SerialsDiffer /\ BusyWaits
-----------------------------------------------------------------------------
(***************************************************************************)
(* What the records are, and the frame of the steps.                       *)
(***************************************************************************)
LEMMA SendTypes ==
    ASSUME NEW r \in PageSend
    PROVE  /\ r.by \in Browsers /\ r.row \in FormRows /\ r.serial \in Nat /\ r.at \in SendStates
           /\ r.what \in {"save", "switch", "delete"}
           /\ r.what = "save" => /\ r.with.body \in FormBody /\ r.with.from \in FilledFrom
                                 /\ r.with.from.version \in Nat
           /\ r.what = "switch" => r.with \in BOOLEAN
BY DEF PageSend, SaveSend, SwitchSend, DeleteSend, FilledFrom

\* A request keeps what it asks whatever becomes of it.
LEMMA SettledSend ==
    ASSUME NEW r \in PageSend, NEW how \in SendStates
    PROVE  LET q == [r EXCEPT !.at = how] IN
           /\ q \in PageSend /\ q.by = r.by /\ q.row = r.row /\ q.serial = r.serial /\ q.what = r.what /\ q.with = r.with
<1>1. ASSUME r \in SaveSend
      PROVE  LET q == [r EXCEPT !.at = how] IN
             q \in SaveSend /\ q.by = r.by /\ q.row = r.row /\ q.serial = r.serial /\ q.what = r.what /\ q.with = r.with
  BY <1>1 DEF SaveSend
<1>2. ASSUME r \in SwitchSend
      PROVE  LET q == [r EXCEPT !.at = how] IN
             q \in SwitchSend /\ q.by = r.by /\ q.row = r.row /\ q.serial = r.serial /\ q.what = r.what /\ q.with = r.with
  BY <1>2 DEF SwitchSend
<1>3. ASSUME r \in DeleteSend
      PROVE  LET q == [r EXCEPT !.at = how] IN
             q \in DeleteSend /\ q.by = r.by /\ q.row = r.row /\ q.serial = r.serial /\ q.what = r.what /\ q.with = r.with
  BY <1>3 DEF DeleteSend
<1> QED
  BY <1>1, <1>2, <1>3 DEF PageSend

LEMMA AsOfKept ==
    ASSUME NEW k, NEW v \in Nat, NEW s, AsOf(k, v, s), saveCount[k] \in Nat, saveCount'[k] \in Nat,
           saveCount'[k] > saveCount[k] \/ (saveCount'[k] = saveCount[k] /\ serverRows'[k].secret = serverRows[k].secret)
    PROVE  AsOf(k, v, s)'
BY DEF AsOf

\* Where no row is saved and no password changes, what the pages have stays what it is.
LEMMA PagesKept ==
    ASSUME FormsIInv, FormsOK', \A k \in FormRows : serverRows'[k].secret = serverRows[k].secret,
           saveCount' = saveCount, NEW k \in FormRows, NEW v \in Nat, NEW s, AsOf(k, v, s)
    PROVE  AsOf(k, v, s)'
<1>1. saveCount[k] \in Nat /\ saveCount'[k] \in Nat
  BY DEF FormsIInv, FormsOK
<1> QED
  BY <1>1, AsOfKept

\* A request is settled: it goes, or stays with what it asked.
LEMMA TestSettles ==
    ASSUME FormsIInv, NEW r \in sends, NEW how \in {"done", "failed"}, Settles(r, how)
    PROVE  /\ sends' \subseteq PageSend
           /\ \A q \in sends' : \E p \in sends : q.by = p.by /\ q.row = p.row /\ q.serial = p.serial
                                                 /\ q.what = p.what /\ q.with = p.with
           /\ \A p \in sends : p.what = "save" => \E q \in sends' : q.by = p.by /\ q.row = p.row /\ q.serial = p.serial
                                                                    /\ q.what = p.what
           /\ \A p, q \in sends' : p.serial = q.serial => p = q
<1> DEFINE y == [r EXCEPT !.at = how]
<1>1. sends \subseteq PageSend /\ r \in PageSend /\ how \in SendStates
  BY DEF FormsIInv, FormsOK, SendStates
<1>2. y \in PageSend /\ y.by = r.by /\ y.row = r.row /\ y.serial = r.serial /\ y.what = r.what /\ y.with = r.with
  BY <1>1, SettledSend
<1>3. sends' = (sends \ {r}) \cup IF r.what = "save" THEN {y} ELSE {}
  BY DEF Settles
<1> HIDE DEF y
<1>4. \A p, q \in sends : p.serial = q.serial => p = q
  BY DEF FormsIInv, SerialsDiffer
<1>5. sends' \subseteq PageSend
  BY ONLY <1>1, <1>2, <1>3
<1>6. \A q \in sends' : \E p \in sends : q.by = p.by /\ q.row = p.row /\ q.serial = p.serial
                                         /\ q.what = p.what /\ q.with = p.with
  BY ONLY <1>2, <1>3, r \in sends
<1>7. \A p \in sends : p.what = "save" => \E q \in sends' : q.by = p.by /\ q.row = p.row /\ q.serial = p.serial
                                                            /\ q.what = p.what
  BY ONLY <1>2, <1>3
<1>8. \A p, q \in sends' : p.serial = q.serial => p = q
  BY ONLY <1>2, <1>3, <1>4, r \in sends
<1> QED
  BY ONLY <1>5, <1>6, <1>7, <1>8

\* What a settled request leaves of the parts about requests.
LEMMA SettledHolds ==
    ASSUME FormsIInv, NEW r \in sends, NEW how \in {"done", "failed"}, Settles(r, how), UNCHANGED <<sheet, sendCount>>
    PROVE  SerialsDiffer' /\ BusyWaits'
<1>1. /\ \A q \in sends' : \E p \in sends : q.serial = p.serial
      /\ \A p \in sends : p.what = "save" => \E q \in sends' : q.by = p.by /\ q.row = p.row /\ q.serial = p.serial
                                                               /\ q.what = p.what
      /\ \A p, q \in sends' : p.serial = q.serial => p = q
  BY TestSettles
<1>2. SerialsDiffer'
  BY <1>1 DEF FormsIInv, SerialsDiffer
<1>3. BusyWaits'
  <2> SUFFICES ASSUME NEW b \in Browsers, NEW k \in FormRows, sheet[b][k] # NoForm, sheet[b][k].busy
               PROVE  \E q \in sends' : q.serial = sheet[b][k].serial /\ q.by = b /\ q.row = k /\ q.what = "save"
    BY DEF BusyWaits, WaitsFor
  <2>1. PICK p \in sends : p.serial = sheet[b][k].serial /\ p.by = b /\ p.row = k /\ p.what = "save"
    BY DEF FormsIInv, BusyWaits, WaitsFor
  <2> QED
    BY <1>1, <2>1
<1> QED
  BY <1>2, <1>3
-----------------------------------------------------------------------------
(***************************************************************************)
(* The steps of the page.                                                  *)
(***************************************************************************)
LEMMA PollShowsHolds == ASSUME FormsIInv, NEW b \in Browsers, PollShows(b) PROVE FormsIInv'
<1>0. FormsOK
  BY DEF FormsIInv
<1>1. /\ shown' = [shown EXCEPT ![b] = [k \in FormRows |-> [row |-> serverRows[k], version |-> saveCount[k]]]]
      /\ sheet' = [sheet EXCEPT ![b] = [k \in FormRows |-> IF serverRows[k].is = "gone" THEN NoForm ELSE sheet[b][k]]]
      /\ UNCHANGED <<serverRows, sends, sendCount, sendsLost, saveCount, typedLast, entered, staleSave>>
  BY DEF PollShows, FormHistory
<1>2. shown' \in [Browsers -> [FormRows -> [row : ServerRow, version : Nat]]]
  BY <1>0, <1>1 DEF FormsOK
<1>3. sheet' \in [Browsers -> [FormRows -> {NoForm} \cup OpenSheet]]
  BY <1>0, <1>1 DEF FormsOK
<1>4. FormsOK'
  BY ONLY <1>0, <1>1, <1>2, <1>3 DEF FormsOK
<1>5. \A c \in Browsers, k \in FormRows :
         /\ shown'[c][k] \in {shown[c][k], [row |-> serverRows[k], version |-> saveCount[k]]}
         /\ sheet'[c][k] \in {sheet[c][k], NoForm}
  BY <1>0, <1>1 DEF FormsOK
<1>6. RowsHold' /\ SavesHold' /\ SerialsDiffer'
  BY <1>1 DEF FormsIInv, RowsHold, RowHolds, SavesHold, SaveHolds, AsOf, SerialsDiffer
<1>7. ShownHolds'
  <2> SUFFICES ASSUME NEW c \in Browsers, NEW k \in FormRows
               PROVE  AsOf(k, shown[c][k].version, shown[c][k].row.secret)'
    BY DEF ShownHolds
  <2>1. saveCount[k] \in Nat
    BY <1>0 DEF FormsOK
  <2>2. AsOf(k, shown[c][k].version, shown[c][k].row.secret)
    BY DEF FormsIInv, ShownHolds
  <2> QED
    BY <1>1, <1>5, <2>1, <2>2 DEF AsOf
<1>8. SheetsHold'
  BY <1>1, <1>5 DEF FormsIInv, SheetsHold, AsOf
<1>9. BusyWaits'
  BY <1>1, <1>5 DEF FormsIInv, BusyWaits, WaitsFor
<1> QED
  BY <1>4, <1>6, <1>7, <1>8, <1>9 DEF FormsIInv

\* One form changes, and perhaps a request is sent for it.
LEMMA SheetChanges ==
    ASSUME FormsIInv, NEW b \in Browsers, NEW k \in FormRows, NEW f \in {NoForm} \cup OpenSheet,
           sheet' = [sheet EXCEPT ![b][k] = f],
           UNCHANGED <<serverRows, shown, saveCount, typedLast, entered, staleSave>>,
           f # NoForm => AsOf(k, f.from.version, f.from.secret),
           sends' \subseteq PageSend, sendCount' \in Nat, sendCount <= sendCount',
           \A r \in sends' \ sends : r.what = "save" => SaveHolds(r),
           \A r \in sends' : r.serial <= sendCount',
           \A q, r \in sends' : q.serial = r.serial => q = r,
           f # NoForm /\ f.busy => \E r \in sends' : r.serial = f.serial /\ r.by = b /\ r.row = k /\ r.what = "save",
           \A r \in sends \ sends' : r.by = b /\ r.row = k
    PROVE  FormsIInv'
<1>0. FormsOK
  BY DEF FormsIInv
<1>1. sheet' \in [Browsers -> [FormRows -> {NoForm} \cup OpenSheet]]
  BY <1>0 DEF FormsOK
<1>2. FormsOK'
  BY ONLY <1>0, <1>1, sends' \subseteq PageSend, sendCount' \in Nat,
          UNCHANGED <<serverRows, shown, saveCount, typedLast, entered, staleSave>> DEF FormsOK
<1>3. /\ sheet'[b][k] = f
      /\ \A c \in Browsers, j \in FormRows : c # b \/ j # k => sheet'[c][j] = sheet[c][j]
  BY <1>0 DEF FormsOK
<1>4. RowsHold' /\ ShownHolds'
  BY DEF FormsIInv, RowsHold, RowHolds, ShownHolds, AsOf
<1>5. SheetsHold'
  <2> SUFFICES ASSUME NEW c \in Browsers, NEW j \in FormRows, sheet'[c][j] # NoForm
               PROVE  AsOf(j, sheet[c][j].from.version, sheet[c][j].from.secret)'
    BY DEF SheetsHold, NoForm
  <2> QED
    BY <1>3 DEF FormsIInv, SheetsHold, AsOf
<1>6. SavesHold'
  BY DEF FormsIInv, SavesHold, SaveHolds, AsOf
<1>7. SerialsDiffer'
  BY DEF SerialsDiffer
<1>8. BusyWaits'
  <2> SUFFICES ASSUME NEW c \in Browsers, NEW j \in FormRows, sheet'[c][j] # NoForm, sheet'[c][j].busy
               PROVE  \E r \in sends' : r.serial = sheet'[c][j].serial /\ r.by = c /\ r.row = j /\ r.what = "save"
    BY DEF BusyWaits, WaitsFor, NoForm
  <2>1. CASE c = b /\ j = k
    BY <1>3, <2>1
  <2>2. CASE c # b \/ j # k
    <3>1. sheet'[c][j] = sheet[c][j]
      BY <1>3, <2>2
    <3>2. PICK r \in sends : r.serial = sheet[c][j].serial /\ r.by = c /\ r.row = j /\ r.what = "save"
      BY <3>1 DEF FormsIInv, BusyWaits, WaitsFor
    <3> QED
      BY <2>2, <3>1, <3>2
  <2> QED
    BY <2>1, <2>2
<1> QED
  BY <1>2, <1>4, <1>5, <1>6, <1>7, <1>8 DEF FormsIInv

LEMMA OpenFormHolds == ASSUME FormsIInv, NEW b \in Browsers, NEW k \in FormRows, OpenForm(b, k) PROVE FormsIInv'
<1> DEFINE r == shown[b][k].row
           g == [is |-> r.is, secret |-> r.secret, version |-> shown[b][k].version]
<1>f. PICK f : f = [open |-> TRUE, serial |-> 0, busy |-> FALSE, from |-> g]
  OBVIOUS
<1>1. shown[b][k] \in [row : ServerRow, version : Nat] /\ FormsOK /\ sends \subseteq PageSend /\ sendCount \in Nat
  BY DEF FormsIInv, FormsOK
<1>2. f \in OpenSheet /\ f.from.version = shown[b][k].version /\ f.from.secret = shown[b][k].row.secret /\ ~f.busy
  <2>1. g \in FilledFrom /\ g.version = shown[b][k].version /\ g.secret = shown[b][k].row.secret
    BY <1>1 DEF ServerRow, FilledFrom
  <2> HIDE DEF g
  <2> QED
    BY <1>f, <2>1 DEF OpenSheet
<1>3. sheet' = [sheet EXCEPT ![b][k] = f]
      /\ UNCHANGED <<serverRows, shown, sends, sendCount, saveCount, typedLast, entered, staleSave>>
  BY <1>f DEF OpenForm, FormHistory
<1>4. AsOf(k, f.from.version, f.from.secret)
  BY <1>2 DEF FormsIInv, ShownHolds
<1>5. /\ sends' \subseteq PageSend /\ sendCount' \in Nat /\ sendCount <= sendCount' /\ sends' = sends
      /\ (\A q \in sends' : q.serial <= sendCount') /\ (\A q, p \in sends' : q.serial = p.serial => q = p)
  BY <1>1, <1>3 DEF FormsIInv, SerialsDiffer
<1> HIDE DEF r, g
<1> QED
  BY ONLY FormsIInv, b \in Browsers, k \in FormRows, <1>2, <1>3, <1>4, <1>5, SheetChanges

LEMMA CancelFormHolds == ASSUME FormsIInv, NEW b \in Browsers, NEW k \in FormRows, CancelForm(b, k) PROVE FormsIInv'
<1>1. sheet' = [sheet EXCEPT ![b][k] = NoForm]
      /\ UNCHANGED <<serverRows, shown, sends, sendCount, saveCount, typedLast, entered, staleSave>>
  BY DEF CancelForm, FormHistory
<1>2. /\ sends' \subseteq PageSend /\ sendCount' \in Nat /\ sendCount <= sendCount' /\ sends' = sends
      /\ (\A q \in sends' : q.serial <= sendCount') /\ (\A q, p \in sends' : q.serial = p.serial => q = p)
  BY <1>1 DEF FormsIInv, FormsOK, SerialsDiffer
<1>f. PICK f : f = NoForm
  OBVIOUS
<1> QED
  BY ONLY FormsIInv, b \in Browsers, k \in FormRows, <1>f, <1>1, <1>2, SheetChanges

\* A request that is sent has the next number.
LEMMA SentNext ==
    ASSUME FormsIInv, NEW b \in Browsers, NEW k \in FormRows, NEW what, NEW with, Send(b, k, what, with),
           NEW q, q = [by |-> b, row |-> k, serial |-> sendCount + 1, at |-> "sent", what |-> what, with |-> with],
           q \in PageSend
    PROVE  /\ sends' = sends \cup {q} /\ sends' \subseteq PageSend /\ sendCount' \in Nat /\ sendCount <= sendCount'
           /\ q.serial = sendCount + 1
           /\ \A r \in sends' : r.serial <= sendCount'
           /\ \A p, r \in sends' : p.serial = r.serial => p = r
<1>1. sends' = sends \cup {q} /\ sendCount' = sendCount + 1
  BY DEF Send
<1>2. sends \subseteq PageSend /\ sendCount \in Nat /\ (\A r \in sends : r.serial <= sendCount /\ r.serial \in Nat)
      /\ (\A p, r \in sends : p.serial = r.serial => p = r)
  BY SendTypes DEF FormsIInv, FormsOK, SerialsDiffer
<1>3. q.serial = sendCount + 1
  OBVIOUS
<1> QED
  BY ONLY <1>1, <1>2, <1>3, q \in PageSend

LEMMA SubmitHolds ==
    ASSUME FormsIInv, NEW b \in Browsers, NEW k \in FormRows, MaySubmit(b, k), NEW e \in Entries, Submit(b, k, e)
    PROVE  FormsIInv'
<1>0. FormsOK /\ sendCount \in Nat
  BY DEF FormsIInv, FormsOK
<1>1. sheet[b][k] \in OpenSheet /\ sheet[b][k].from \in FilledFrom
      /\ AsOf(k, sheet[b][k].from.version, sheet[b][k].from.secret)
  <2>1. sheet[b][k] # NoForm /\ sheet[b][k] \in {NoForm} \cup OpenSheet
    BY <1>0 DEF MaySubmit, FormsOK
  <2> QED
    BY <2>1 DEF FormsIInv, SheetsHold, OpenSheet
<1>2. Body(e) \in FormBody /\ (Body(e).reads => Body(e).activity) /\ Body(e).secret = e.secret
  <2>1. e \in FormBody
    BY FormsAssumption DEF FormBody, Secrets
  <2> QED
    BY <2>1 DEF Body, FormBody
<1>f. PICK f : f = [[sheet[b][k] EXCEPT !.busy = TRUE] EXCEPT !.serial = sendCount + 1]
  OBVIOUS
<1>3. f \in OpenSheet /\ f.busy /\ f.serial = sendCount + 1 /\ f.from = sheet[b][k].from
  <2> DEFINE p == [sheet[b][k] EXCEPT !.busy = TRUE]
  <2>1. p \in OpenSheet /\ p.busy /\ p.from = sheet[b][k].from
    BY <1>1 DEF OpenSheet
  <2>2. f = [p EXCEPT !.serial = sendCount + 1]
    BY <1>f
  <2>3. sendCount + 1 \in Nat
    BY <1>0
  <2> HIDE DEF p
  <2> QED
    BY ONLY <2>1, <2>2, <2>3 DEF OpenSheet
<1>w. PICK with : with = [body |-> Body(e), from |-> sheet[b][k].from]
  OBVIOUS
<1>4. with \in [body : FormBody, from : FilledFrom] /\ with.body = Body(e) /\ with.from = sheet[b][k].from
  BY <1>1, <1>2, <1>w
<1>q. PICK q : q = [by |-> b, row |-> k, serial |-> sendCount + 1, at |-> "sent", what |-> "save", with |-> with]
  OBVIOUS
<1>5. q \in SaveSend /\ q.by = b /\ q.row = k /\ q.serial = sendCount + 1 /\ q.what = "save" /\ q.with = with
  BY <1>0, <1>4, <1>q DEF SaveSend, SendStates
<1>6. sheet' = [sheet EXCEPT ![b][k] = f]
      /\ UNCHANGED <<serverRows, shown, saveCount, typedLast, entered, staleSave>> /\ Send(b, k, "save", with)
      /\ (k \notin FileServers => e.secret = NothingTyped)
  BY <1>f, <1>w DEF Submit, FormHistory
<1>7. q \in PageSend
  BY <1>5 DEF PageSend
<1>8. /\ sends' = sends \cup {q} /\ sends' \subseteq PageSend /\ sendCount' \in Nat /\ sendCount <= sendCount'
      /\ \A r \in sends' : r.serial <= sendCount'
      /\ \A p, r \in sends' : p.serial = r.serial => p = r
  BY ONLY FormsIInv, b \in Browsers, k \in FormRows, <1>6, <1>7, <1>q, SentNext
<1>9. SaveHolds(q)
  BY <1>1, <1>2, <1>4, <1>5, <1>6 DEF SaveHolds
<1>10. /\ \A r \in sends' \ sends : r.what = "save" => SaveHolds(r)
       /\ \E r \in sends' : r.serial = f.serial /\ r.by = b /\ r.row = k /\ r.what = "save"
       /\ sends \subseteq sends'
  BY ONLY <1>3, <1>5, <1>8, <1>9
<1>11. AsOf(k, f.from.version, f.from.secret)
  BY <1>1, <1>3
<1>12. f \in {NoForm} \cup OpenSheet /\ sheet' = [sheet EXCEPT ![b][k] = f]
       /\ UNCHANGED <<serverRows, shown, saveCount, typedLast, entered, staleSave>>
  BY <1>3, <1>6
<1> QED
  BY ONLY FormsIInv, b \in Browsers, k \in FormRows, <1>8, <1>10, <1>11, <1>12, SheetChanges

LEMMA PressHolds == ASSUME FormsIInv, NEW b \in Browsers, NEW k \in FormRows, Press(b, k) PROVE FormsIInv'
<1>0. FormsOK /\ sendCount \in Nat /\ sheet[b][k] \in {NoForm} \cup OpenSheet /\ shown[b][k].row.enabled \in BOOLEAN
      /\ sheet \in [Browsers -> [FormRows -> {NoForm} \cup OpenSheet]]
  BY DEF FormsIInv, FormsOK, ServerRow
<1>1. \E what, with : /\ Send(b, k, what, with)
                      /\ (what = "switch" /\ with \in BOOLEAN) \/ (what = "delete" /\ with \in Plains)
  BY <1>0 DEF Press
<1>2. PICK what, with : /\ Send(b, k, what, with)
                        /\ (what = "switch" /\ with \in BOOLEAN) \/ (what = "delete" /\ with \in Plains)
  BY <1>1
<1>q. PICK q : q = [by |-> b, row |-> k, serial |-> sendCount + 1, at |-> "sent", what |-> what, with |-> with]
  OBVIOUS
<1>3. q \in PageSend /\ q.what # "save"
  BY <1>0, <1>2, <1>q DEF PageSend, SwitchSend, DeleteSend, SendStates
<1>4. /\ sends' = sends \cup {q} /\ sends' \subseteq PageSend /\ sendCount' \in Nat /\ sendCount <= sendCount'
      /\ \A r \in sends' : r.serial <= sendCount'
      /\ \A p, r \in sends' : p.serial = r.serial => p = r
  BY ONLY FormsIInv, b \in Browsers, k \in FormRows, <1>2, <1>3, <1>q, SentNext
<1>f. PICK f : f = sheet[b][k]
  OBVIOUS
<1>5. sheet' = [sheet EXCEPT ![b][k] = f] /\ UNCHANGED <<serverRows, shown, saveCount, typedLast, entered, staleSave>>
      /\ f \in {NoForm} \cup OpenSheet
  BY <1>0, <1>f DEF Press, FormHistory
<1>6. f # NoForm => AsOf(k, f.from.version, f.from.secret)
  BY <1>f DEF FormsIInv, SheetsHold
<1>7. f = NoForm
  BY <1>f DEF Press
<1>8. (\A r \in sends' \ sends : r.what = "save" => SaveHolds(r)) /\ sends \subseteq sends'
  BY ONLY <1>3, <1>4
<1> QED
  BY ONLY FormsIInv, b \in Browsers, k \in FormRows, <1>4, <1>5, <1>6, <1>7, <1>8, SheetChanges
-----------------------------------------------------------------------------
(***************************************************************************)
(* The backend, and its answers.                                           *)
(***************************************************************************)
\* A request is done: row k becomes R, and has its history.
LEMMA DoneHolds ==
    ASSUME FormsIInv, NEW r \in sends, NEW how \in {"done", "failed"}, Settles(r, how), NEW k \in FormRows,
           NEW R \in ServerRow, serverRows' = [serverRows EXCEPT ![k] = R],
           UNCHANGED <<shown, sheet, sendCount>>,
           saveCount' \in [FormRows -> Nat], typedLast' \in [FormRows -> Secrets],
           entered' \in [FormRows -> SUBSET (Plains \X Secrets)], staleSave' \subseteq FormRows,
           \A j \in FormRows \ {k} : /\ saveCount'[j] = saveCount[j] /\ typedLast'[j] = typedLast[j]
                                     /\ entered'[j] = entered[j] /\ (j \in staleSave <=> j \in staleSave'),
           saveCount'[k] > saveCount[k] \/ (saveCount'[k] = saveCount[k] /\ R.secret = serverRows[k].secret),
           RowHolds(k)'
    PROVE  FormsIInv'
<1>0. FormsOK
  BY DEF FormsIInv
<1>1. /\ sends' \subseteq PageSend
      /\ \A q \in sends' : \E p \in sends : q.by = p.by /\ q.row = p.row /\ q.serial = p.serial
                                            /\ q.what = p.what /\ q.with = p.with
  BY TestSettles
<1>2. /\ serverRows' \in [FormRows -> ServerRow] /\ serverRows'[k] = R
      /\ \A j \in FormRows \ {k} : serverRows'[j] = serverRows[j]
  BY <1>0 DEF FormsOK
<1>3. FormsOK'
  BY ONLY <1>0, <1>1, <1>2, UNCHANGED <<shown, sheet, sendCount>>,
          saveCount' \in [FormRows -> Nat], typedLast' \in [FormRows -> Secrets],
          entered' \in [FormRows -> SUBSET (Plains \X Secrets)], staleSave' \subseteq FormRows DEF FormsOK
<1>4. RowsHold'
  <2> SUFFICES ASSUME NEW j \in FormRows \ {k} PROVE RowHolds(j)'
    BY DEF RowsHold
  <2> QED
    BY <1>2 DEF FormsIInv, RowsHold, RowHolds
<1>5. ASSUME NEW j \in FormRows, NEW v \in Nat, NEW s, AsOf(j, v, s) PROVE AsOf(j, v, s)'
  <2>1. saveCount[j] \in Nat /\ saveCount'[j] \in Nat
    BY <1>0, <1>3 DEF FormsOK
  <2>2. saveCount'[j] > saveCount[j] \/ (saveCount'[j] = saveCount[j] /\ serverRows'[j].secret = serverRows[j].secret)
    BY <1>2
  <2> QED
    BY <1>5, <2>1, <2>2, AsOfKept
<1>6. ShownHolds'
  <2> SUFFICES ASSUME NEW b \in Browsers, NEW j \in FormRows, NEW x, x = shown[b][j]
               PROVE  AsOf(j, x.version, x.row.secret)'
    BY DEF ShownHolds, AsOf
  <2>1. x \in [row : ServerRow, version : Nat] /\ AsOf(j, x.version, x.row.secret)
    BY <1>0 DEF FormsIInv, FormsOK, ShownHolds
  <2> QED
    BY <1>5, <2>1
<1>7. SheetsHold'
  <2>1. ASSUME NEW b \in Browsers, NEW j \in FormRows, sheet[b][j] # NoForm
        PROVE  AsOf(j, sheet[b][j].from.version, sheet[b][j].from.secret)'
    <3>f. PICK f : f = sheet[b][j]
      OBVIOUS
    <3>1. f \in OpenSheet /\ AsOf(j, f.from.version, f.from.secret)
      BY <1>0, <2>1, <3>f DEF FormsIInv, FormsOK, SheetsHold
    <3>2. f.from.version \in Nat
      BY <3>1 DEF OpenSheet, FilledFrom
    <3>3. AsOf(j, f.from.version, f.from.secret)'
      BY <1>5, <3>1, <3>2
    <3> QED
      BY ONLY <3>f, <3>3, UNCHANGED <<shown, sheet, sendCount>> DEF AsOf
  <2> QED
    BY ONLY <2>1, UNCHANGED <<shown, sheet, sendCount>> DEF SheetsHold, NoForm
<1>8. SavesHold'
  <2> SUFFICES ASSUME NEW q \in sends', q.what = "save" PROVE SaveHolds(q)'
    BY DEF SavesHold
  <2>1. PICK p \in sends : q.row = p.row /\ q.what = p.what /\ q.with = p.with
    BY <1>1
  <2>2. SaveHolds(p) /\ p \in PageSend
    BY <1>0, <2>1 DEF FormsIInv, FormsOK, SavesHold
  <2>3. p.row \in FormRows /\ p.with.from.version \in Nat
    BY <2>1, <2>2, SendTypes
  <2>4. AsOf(p.row, p.with.from.version, p.with.from.secret)'
    BY <1>5, <2>2, <2>3 DEF SaveHolds
  <2> QED
    BY <2>1, <2>2, <2>4 DEF SaveHolds
<1>9. SerialsDiffer' /\ BusyWaits'
  BY SettledHolds
<1> QED
  BY <1>3, <1>4, <1>6, <1>7, <1>8, <1>9 DEF FormsIInv

\* The fields that are written.
LEMMA WrittenRow ==
    ASSUME NEW x \in ServerRow, NEW body \in FormBody
    PROVE  LET y == Written(x, body) IN
           /\ y \in ServerRow /\ y.plain = body.plain /\ y.activity = body.activity /\ y.reads = body.reads
           /\ y.secret = IF body.secret = NothingTyped THEN x.secret ELSE body.secret
<1> DEFINE s == IF body.secret = NothingTyped THEN x.secret ELSE body.secret
           a == [x EXCEPT !.is = "there"]
           b == [a EXCEPT !.plain = body.plain]
           c == [b EXCEPT !.activity = body.activity]
           d == [c EXCEPT !.reads = body.reads]
           y == [d EXCEPT !.secret = s]
<1>0. s \in Secrets /\ body.plain \in Plains /\ body.activity \in BOOLEAN /\ body.reads \in BOOLEAN
  BY DEF FormBody, ServerRow
<1>1. Written(x, body) = y
  BY DEF Written, ServerRow
<1> HIDE DEF s
<1>2. a \in ServerRow /\ a.secret = x.secret
  BY DEF ServerRow, RowKinds
<1> HIDE DEF a
<1>3. b \in ServerRow /\ b.plain = body.plain
  BY ONLY <1>0, <1>2 DEF ServerRow
<1> HIDE DEF b
<1>4. c \in ServerRow /\ c.plain = body.plain /\ c.activity = body.activity
  BY ONLY <1>0, <1>3 DEF ServerRow
<1> HIDE DEF c
<1>5. d \in ServerRow /\ d.plain = body.plain /\ d.activity = body.activity /\ d.reads = body.reads
  BY ONLY <1>0, <1>4 DEF ServerRow
<1> HIDE DEF d
<1>6. y \in ServerRow /\ y.plain = body.plain /\ y.activity = body.activity /\ y.reads = body.reads /\ y.secret = s
  BY ONLY <1>0, <1>5 DEF ServerRow
<1> QED
  BY <1>1, <1>6 DEF s

LEMMA SavesDone ==
    ASSUME FormsIInv, NEW r \in sends, Saves(r), Settles(r, "done"), UNCHANGED <<shown, sheet, sendCount>>
    PROVE  FormsIInv'
<1>k. PICK k, body, from : k = r.row /\ body = r.with.body /\ from = r.with.from
  OBVIOUS
<1>s. PICK secret : secret = IF body.secret = NothingTyped THEN serverRows[k].secret ELSE body.secret
  OBVIOUS
<1>R. PICK R : R = Written(serverRows[k], body)
  OBVIOUS
<1>1. /\ r.what = "save"
      /\ serverRows' = [serverRows EXCEPT ![k] = R]
      /\ saveCount' = [saveCount EXCEPT ![k] = @ + 1]
      /\ typedLast' = [typedLast EXCEPT ![k] = IF body.secret = NothingTyped THEN typedLast[k] ELSE body.secret]
      /\ entered' = [entered EXCEPT ![k] =
                        entered[k] \cup {<<body.plain, IF body.secret = NothingTyped THEN from.secret ELSE body.secret>>}]
      /\ staleSave' = IF from.version < saveCount[k] THEN staleSave \cup {k} ELSE staleSave
  BY <1>k, <1>R DEF Saves
<1>2. FormsOK /\ r \in PageSend /\ SaveHolds(r)
  BY <1>1 DEF FormsIInv, FormsOK, SavesHold
<1>3. k \in FormRows /\ body \in FormBody /\ from \in FilledFrom
  BY <1>1, <1>2, <1>k, SendTypes
<1>4. /\ (body.reads => body.activity) /\ (k \notin FileServers => body.secret = NothingTyped)
      /\ AsOf(k, from.version, from.secret)
  BY <1>2, <1>k DEF SaveHolds
<1>5. /\ serverRows[k] \in ServerRow /\ saveCount[k] \in Nat /\ typedLast[k] \in Secrets /\ RowHolds(k)
      /\ serverRows \in [FormRows -> ServerRow] /\ saveCount \in [FormRows -> Nat] /\ typedLast \in [FormRows -> Secrets]
      /\ entered \in [FormRows -> SUBSET (Plains \X Secrets)] /\ staleSave \subseteq FormRows
      /\ body.plain \in Plains /\ body.secret \in Secrets /\ from.secret \in Secrets /\ from.version \in Nat
  BY <1>2, <1>3 DEF FormsIInv, FormsOK, RowsHold, FormBody, FilledFrom
<1>6. /\ R \in ServerRow /\ R.plain = body.plain /\ R.activity = body.activity /\ R.reads = body.reads
      /\ R.secret = secret
  BY <1>3, <1>5, <1>R, <1>s, WrittenRow
<1>7. saveCount' \in [FormRows -> Nat] /\ saveCount'[k] = saveCount[k] + 1
      /\ \A j \in FormRows \ {k} : saveCount'[j] = saveCount[j]
  BY ONLY <1>1, <1>3, <1>5
<1>8. /\ typedLast' \in [FormRows -> Secrets]
      /\ typedLast'[k] = IF body.secret = NothingTyped THEN typedLast[k] ELSE body.secret
      /\ \A j \in FormRows \ {k} : typedLast'[j] = typedLast[j]
  BY ONLY <1>1, <1>3, <1>5
<1>p. PICK pair : pair = <<body.plain, IF body.secret = NothingTyped THEN from.secret ELSE body.secret>>
  OBVIOUS
<1>9. /\ entered' \in [FormRows -> SUBSET (Plains \X Secrets)] /\ pair \in entered'[k]
      /\ \A j \in FormRows \ {k} : entered'[j] = entered[j]
  <2>1. pair \in Plains \X Secrets
    BY ONLY <1>5, <1>p
  <2>2. entered' = [entered EXCEPT ![k] = entered[k] \cup {pair}]
    BY ONLY <1>1, <1>p
  <2> QED
    BY ONLY <1>3, <1>5, <2>1, <2>2
<1>10. /\ staleSave' \subseteq FormRows /\ (\A j \in FormRows \ {k} : j \in staleSave <=> j \in staleSave')
       /\ k \notin staleSave' => from.version = saveCount[k]
  BY ONLY <1>1, <1>3, <1>4, <1>5 DEF AsOf
<1>11. serverRows'[k] = R
  BY <1>1, <1>3, <1>5
<1>12. secret \in IF k \in FileServers THEN Typeds ELSE {NothingTyped}
  BY <1>4, <1>5, <1>s DEF RowHolds, Secrets
<1>13. secret = typedLast'[k]
  BY ONLY <1>5, <1>8, <1>s DEF RowHolds
<1>14. k \notin staleSave' => <<body.plain, secret>> \in entered'[k]
  BY ONLY <1>4, <1>9, <1>10, <1>p, <1>s DEF AsOf
<1>15. RowHolds(k)'
  BY <1>4, <1>6, <1>11, <1>12, <1>13, <1>14 DEF RowHolds
<1>16. saveCount'[k] > saveCount[k]
  BY <1>5, <1>7
<1>17. serverRows' = [serverRows EXCEPT ![k] = R] /\ R \in ServerRow
  BY <1>1, <1>6
<1>18. "done" \in {"done", "failed"}
  OBVIOUS
<1> QED
  BY ONLY FormsIInv, r \in sends, Settles(r, "done"), UNCHANGED <<shown, sheet, sendCount>>, <1>3, <1>7, <1>8, <1>9,
          <1>10, <1>15, <1>16, <1>17, <1>18, DoneHolds

LEMMA DoesHolds == ASSUME FormsIInv, NEW r \in sends, Does(r) PROVE FormsIInv'
<1>1. Settles(r, "done") /\ UNCHANGED <<shown, sheet, sendCount>> /\ "done" \in {"done", "failed"}
  BY DEF Does
<1>2. CASE Saves(r)
  BY <1>1, <1>2, SavesDone
<1>3. CASE Switches(r) \/ Deletes(r)
  <2>k. PICK k : k = r.row
    OBVIOUS
  <2>1. r \in PageSend /\ k \in FormRows /\ FormsOK /\ (r.what = "switch" => r.with \in BOOLEAN)
    BY <2>k, SendTypes DEF FormsIInv, FormsOK
  <2>2. serverRows[k] \in ServerRow /\ RowHolds(k) /\ serverRows \in [FormRows -> ServerRow]
    BY <2>1 DEF FormsIInv, FormsOK, RowsHold
  <2>3. PICK R : /\ R \in ServerRow /\ serverRows' = [serverRows EXCEPT ![k] = R]
                 /\ R.secret = serverRows[k].secret /\ R.plain = serverRows[k].plain
                 /\ R.activity = serverRows[k].activity /\ R.reads = serverRows[k].reads
    <3>1. CASE Switches(r)
      <4>r. PICK R : R = [serverRows[k] EXCEPT !.enabled = r.with]
        OBVIOUS
      <4>1. R \in ServerRow /\ R.secret = serverRows[k].secret /\ R.plain = serverRows[k].plain
            /\ R.activity = serverRows[k].activity /\ R.reads = serverRows[k].reads
        BY <2>1, <2>2, <3>1, <4>r DEF Switches, ServerRow
      <4>2. serverRows' = [serverRows EXCEPT ![k] = R]
        BY <2>k, <3>1, <4>r DEF Switches
      <4> QED
        BY <4>1, <4>2
    <3>2. CASE Deletes(r)
      <4>r. PICK R : R = [serverRows[k] EXCEPT !.is = "gone"]
        OBVIOUS
      <4>1. R \in ServerRow /\ R.secret = serverRows[k].secret /\ R.plain = serverRows[k].plain
            /\ R.activity = serverRows[k].activity /\ R.reads = serverRows[k].reads
        BY <2>1, <2>2, <4>r DEF ServerRow, RowKinds
      <4>2. serverRows' = [serverRows EXCEPT ![k] = R]
        BY <2>k, <3>2, <4>r DEF Deletes
      <4> QED
        BY <4>1, <4>2
    <3> QED
      BY <1>3, <3>1, <3>2
  <2>4. UNCHANGED <<saveCount, typedLast, entered, staleSave>>
    BY <1>3 DEF Switches, Deletes, FormHistory
  <2>5. /\ saveCount' \in [FormRows -> Nat] /\ typedLast' \in [FormRows -> Secrets]
        /\ entered' \in [FormRows -> SUBSET (Plains \X Secrets)] /\ staleSave' \subseteq FormRows
    BY <2>1, <2>4 DEF FormsOK
  <2>6. RowHolds(k)'
    BY <2>1, <2>2, <2>3, <2>4 DEF RowHolds
  <2> QED
    BY ONLY FormsIInv, r \in sends, <1>1, <2>1, <2>3, <2>4, <2>5, <2>6, DoneHolds
<1> QED
  BY <1>2, <1>3 DEF Does

LEMMA SendFailsHolds == ASSUME FormsIInv, NEW r \in sends, SendFails(r) PROVE FormsIInv'
<1>1. /\ Settles(r, "failed") /\ UNCHANGED <<shown, sheet, sendCount>> /\ "failed" \in {"done", "failed"}
      /\ UNCHANGED <<serverRows, saveCount, typedLast, entered, staleSave>>
  BY DEF SendFails, FormHistory
<1>k. PICK k : k = r.row
  OBVIOUS
<1>2. r \in PageSend /\ k \in FormRows /\ FormsOK
  BY <1>k, SendTypes DEF FormsIInv, FormsOK
<1>R. PICK R : R = serverRows[k]
  OBVIOUS
<1>3. R \in ServerRow /\ RowHolds(k)' /\ serverRows' = [serverRows EXCEPT ![k] = R] /\ R.secret = serverRows[k].secret
  BY <1>1, <1>2, <1>R DEF FormsIInv, FormsOK, RowsHold, RowHolds
<1>4. /\ saveCount' \in [FormRows -> Nat] /\ typedLast' \in [FormRows -> Secrets]
      /\ entered' \in [FormRows -> SUBSET (Plains \X Secrets)] /\ staleSave' \subseteq FormRows
  BY <1>1, <1>2 DEF FormsOK
<1> QED
  BY ONLY FormsIInv, r \in sends, <1>1, <1>2, <1>3, <1>4, DoneHolds

LEMMA SendAnsweredHolds == ASSUME FormsIInv, NEW r \in sends, SendAnswered(r) PROVE FormsIInv'
<1>k. PICK b, k, f, g : b = r.by /\ k = r.row /\ f = sheet[b][k] /\ g = FormAfter(f, r)
  OBVIOUS
<1>1. /\ sends' = sends \ {r} /\ sheet' = [sheet EXCEPT ![b][k] = g]
      /\ UNCHANGED <<serverRows, shown, sendCount, saveCount, typedLast, entered, staleSave>>
  BY <1>k DEF SendAnswered, FormHistory
<1>2. r \in PageSend /\ b \in Browsers /\ k \in FormRows /\ FormsOK /\ f \in {NoForm} \cup OpenSheet
  BY <1>k, SendTypes DEF FormsIInv, FormsOK
<1>3. f = NoForm \/ (f \in OpenSheet /\ f # NoForm)
  BY <1>2
<1>4. \/ g = NoForm
      \/ f \in OpenSheet /\ f # NoForm /\ f.serial = r.serial /\ g = [f EXCEPT !.busy = FALSE]
      \/ f \in OpenSheet /\ f # NoForm /\ f.serial # r.serial /\ g = f
  BY <1>3, <1>k DEF FormAfter, OpenSheet, NoForm
<1>5. /\ g \in {NoForm} \cup OpenSheet
      /\ g # NoForm => f # NoForm /\ g.from = f.from /\ (g.busy => g = f /\ f.serial # r.serial)
  BY <1>4 DEF OpenSheet
<1>6. g # NoForm => AsOf(k, g.from.version, g.from.secret)
  BY <1>2, <1>5, <1>k DEF FormsIInv, SheetsHold
<1>7. g # NoForm /\ g.busy => \E q \in sends' : q.serial = g.serial /\ q.by = b /\ q.row = k /\ q.what = "save"
  BY <1>1, <1>2, <1>5, <1>k DEF FormsIInv, BusyWaits, WaitsFor
<1>8. /\ sends' \subseteq PageSend /\ sendCount' \in Nat /\ sendCount <= sendCount' /\ sends' \ sends = {}
      /\ (\A q \in sends' : q.serial <= sendCount') /\ (\A q, p \in sends' : q.serial = p.serial => q = p)
  BY <1>1, <1>2 DEF FormsIInv, FormsOK, SerialsDiffer
<1>9. \A q \in sends \ sends' : q.by = b /\ q.row = k
  BY <1>1, <1>k
<1>10. /\ b \in Browsers /\ k \in FormRows /\ g \in {NoForm} \cup OpenSheet /\ sheet' = [sheet EXCEPT ![b][k] = g]
       /\ UNCHANGED <<serverRows, shown, saveCount, typedLast, entered, staleSave>>
  BY <1>1, <1>2, <1>5
<1>11. \A q \in sends' \ sends : q.what = "save" => SaveHolds(q)
  BY ONLY <1>8
<1>12. sends' \subseteq PageSend /\ sendCount' \in Nat /\ sendCount <= sendCount'
       /\ (\A q \in sends' : q.serial <= sendCount') /\ (\A q, p \in sends' : q.serial = p.serial => q = p)
  BY ONLY <1>8
<1> QED
  BY ONLY FormsIInv, <1>6, <1>7, <1>9, <1>10, <1>11, <1>12, SheetChanges
-----------------------------------------------------------------------------
(***************************************************************************)
(* The invariant, and what it says of the file servers.                    *)
(***************************************************************************)
LEMMA FormsIInvInit == FormsInit => FormsIInv
<1> SUFFICES ASSUME FormsInit PROVE FormsIInv
  OBVIOUS
<1>p. PICK p, t : p = (CHOOSE q \in Plains : TRUE) /\ t = (CHOOSE q \in Typeds : TRUE)
  OBVIOUS
<1>1. p \in Plains /\ t \in Typeds
  BY <1>p, FormsAssumption
<1>a. PICK on \in BOOLEAN, a \in [FormRows -> {"new", "there", "gone"}] :
         serverRows = [k \in FormRows |->
            [is |-> a[k], enabled |-> on, plain |-> CHOOSE q \in Plains : TRUE, activity |-> FALSE, reads |-> FALSE,
             secret |-> IF k \in FileServers THEN CHOOSE q \in Typeds : TRUE ELSE NothingTyped]]
  BY DEF FormsInit
<1>2. serverRows = [k \in FormRows |->
            [is |-> a[k], enabled |-> on, plain |-> p, activity |-> FALSE, reads |-> FALSE,
             secret |-> IF k \in FileServers THEN t ELSE NothingTyped]]
  BY <1>p, <1>a
<1>3. \A k \in FormRows : /\ serverRows[k] \in ServerRow /\ serverRows[k].plain = p
                          /\ serverRows[k].secret = IF k \in FileServers THEN t ELSE NothingTyped
                          /\ serverRows[k].secret \in Secrets /\ ~serverRows[k].reads
  BY <1>1, <1>2 DEF ServerRow, RowKinds, Secrets
<1>4. serverRows \in [FormRows -> ServerRow]
  BY <1>2, <1>3
<1>5. /\ shown = [b \in Browsers |-> [k \in FormRows |-> [row |-> serverRows[k], version |-> 0]]]
      /\ sheet = [b \in Browsers |-> [k \in FormRows |-> NoForm]] /\ sends = {} /\ sendCount = 0
      /\ saveCount = [k \in FormRows |-> 0] /\ typedLast = [k \in FormRows |-> serverRows[k].secret]
      /\ entered = [k \in FormRows |-> {<<serverRows[k].plain, serverRows[k].secret>>}] /\ staleSave = {}
  BY DEF FormsInit
<1>6. FormsOK
  <2>1. shown \in [Browsers -> [FormRows -> [row : ServerRow, version : Nat]]]
    BY <1>3, <1>5
  <2>2. entered \in [FormRows -> SUBSET (Plains \X Secrets)]
    BY <1>1, <1>3, <1>5
  <2>3. /\ sheet \in [Browsers -> [FormRows -> {NoForm} \cup OpenSheet]] /\ saveCount \in [FormRows -> Nat]
        /\ typedLast \in [FormRows -> Secrets]
    BY <1>3, <1>5
  <2> QED
    BY <1>4, <1>5, <2>1, <2>2, <2>3 DEF FormsOK
<1>7. RowsHold /\ ShownHolds
  BY <1>1, <1>3, <1>5 DEF RowsHold, RowHolds, ShownHolds, AsOf
<1>8. SheetsHold /\ SavesHold /\ SerialsDiffer /\ BusyWaits
  BY <1>5 DEF SheetsHold, SavesHold, SerialsDiffer, BusyWaits
<1> QED
  BY <1>6, <1>7, <1>8 DEF FormsIInv

LEMMA FormsIInvStep == FormsIInv /\ [FormsNext]_formVars => FormsIInv'
<1> SUFFICES ASSUME FormsIInv, [FormsNext]_formVars PROVE FormsIInv'
  OBVIOUS
<1>1. ASSUME NEW b \in Browsers, PollShows(b) PROVE FormsIInv'
  BY <1>1, PollShowsHolds
<1>2. ASSUME NEW b \in Browsers, NEW k \in FormRows, OpenForm(b, k) \/ CancelForm(b, k) \/ Press(b, k) PROVE FormsIInv'
  BY <1>2, OpenFormHolds, CancelFormHolds, PressHolds
<1>3. ASSUME NEW b \in Browsers, NEW k \in FormRows, MaySubmit(b, k), NEW e \in Entries, Submit(b, k, e) PROVE FormsIInv'
  BY <1>3, SubmitHolds
<1>4. ASSUME NEW r \in sends, Does(r) \/ SendFails(r) \/ SendAnswered(r) PROVE FormsIInv'
  BY <1>4, DoesHolds, SendFailsHolds, SendAnsweredHolds
<1>5. CASE UNCHANGED formVars
  <2>1. UNCHANGED <<serverRows, shown, sheet, sends, sendCount, saveCount, typedLast, entered, staleSave>>
    BY <1>5 DEF formVars
  <2>2. FormsOK' /\ RowsHold'
    BY <2>1 DEF FormsIInv, FormsOK, RowsHold, RowHolds
  <2>3. ShownHolds' /\ SheetsHold' /\ SavesHold'
    BY <2>1 DEF FormsIInv, ShownHolds, SheetsHold, SavesHold, SaveHolds, AsOf
  <2>4. SerialsDiffer' /\ BusyWaits'
    BY <2>1 DEF FormsIInv, SerialsDiffer, BusyWaits, WaitsFor
  <2> QED
    BY <2>2, <2>3, <2>4 DEF FormsIInv
<1> QED
  BY <1>1, <1>2, <1>3, <1>4, <1>5 DEF FormsNext

\* FormsTypeOK: rows are of their kind, and a form of FileServersView waits only for a
\* request of the page that is under way.
THEOREM FormsTypeCorrect == FormsSpec => []FormsTypeOK
<1>1. FormsIInv => FormsTypeOK
  <2> SUFFICES ASSUME FormsIInv PROVE FormsTypeOK
    OBVIOUS
  <2>1. \A k \in FormRows : serverRows[k] \in ServerRow /\ RowHolds(k)
    BY DEF FormsIInv, FormsOK, RowsHold
  <2> QED
    <3>1. \A k \in FormRows :
             /\ serverRows[k].is \in {"new", "there", "gone"} /\ serverRows[k].plain \in Plains
             /\ serverRows[k].secret \in IF k \in FileServers THEN Typeds ELSE {NothingTyped}
      BY <2>1 DEF RowHolds, ServerRow, RowKinds
    <3>2. \A b \in Browsers, k \in FormRows :
             sheet[b][k] # NoForm /\ sheet[b][k].busy => \E r \in sends : r.serial = sheet[b][k].serial
      BY DEF FormsIInv, BusyWaits, WaitsFor
    <3> QED
      BY <3>1, <3>2 DEF FormsTypeOK
<1> QED
  BY <1>1, FormsIInvInit, FormsIInvStep, PTL DEF FormsSpec

\* FormsHold: forms of several administrators that cross (FileServersView, PUT
\* /file-servers/:id) leave a server with the password typed last, a login somebody
\* entered where no save was stale, and reads recorded with changes only.
THEOREM FormsSound == FormsSpec => []FormsHold
<1>1. FormsIInv => FormsHold
  BY DEF FormsIInv, RowsHold, RowHolds, FormsHold, ReadsNeedActivity, PasswordsTyped, CredentialsTogether
<1> QED
  BY <1>1, FormsIInvInit, FormsIInvStep, PTL DEF FormsSpec
-----------------------------------------------------------------------------
(***************************************************************************)
(* Retention.                                                              *)
(*                                                                         *)
(* What sweeps hold must outlive whatever happens between two of their     *)
(* statements.  The ids of alerts a sweep holds are of rows that are gone, *)
(* resolved, or known to have been taken up again; the instants it keeps   *)
(* have the newest snapshot of every source, or that one is younger than   *)
(* its cutoff.  That the sweeps together record no more than is gone needs *)
(* to say which deletions each of them counted: sets without a common      *)
(* member, of the size each sweep holds or has recorded.                   *)
(***************************************************************************)
SweepPcs == {"find", "matches", "jobs", "events", "newest", "snaps", "findAlerts", "actions", "alerts", "record"}
EventRow == [at : Int, job : {"none", "PENDING", "DONE"}, matches : BOOLEAN]
AlertLine == [at : Int, status : Statuses, actions : BOOLEAN]
BusySweep == [pc : SweepPcs, cutoff : Int, ids : SUBSET (Events \cup RetAlerts), batches : Nat, deleted : Nat,
              keep : SUBSET Int]
BusyHandler == [pc : {"update"}, todo : SUBSET RetAlerts, status : Statuses]

LimitsSound == limit \in Limits /\ form \in [RetPages -> Limits] /\ handler \in [Handlers -> {Free} \cup BusyHandler]

EventsSound ==
    /\ Present(event) \subseteq Events \ gone
    /\ \A e \in Present(event) : event[e] \in EventRow /\ (event[e].matches => event[e].job = "DONE")

AlertsSound ==
    /\ Present(alertRow) \subseteq RetAlerts \ gone /\ gone \subseteq Events \cup RetAlerts
    /\ \A a \in Present(alertRow) : alertRow[a] \in AlertLine

SnapsSound ==
    /\ today \in Nat /\ snaps \subseteq [source : Sources, at : Nat] /\ newest \in [Sources -> Int]
    /\ \A so \in Sources : newest[so] <= today
    /\ \A x \in snaps : x.at <= newest[x.source]
    /\ NewestStays

\* An alert a sweep is about to delete.
MayGo(a) == IF a \in Present(alertRow) THEN alertRow[a].status = "RESOLVED" \/ a \in reopened ELSE a \in gone

SweepSound(w) ==
    \/ w = Asleep
    \/ /\ w \in BusySweep /\ w.cutoff <= today /\ Cardinality(w.ids) <= RetBatch
       /\ w.pc \in {"actions", "alerts"} => \A a \in w.ids : MayGo(a)
       /\ w.pc = "snaps" =>
            \A so \in Sources : newest[so] >= 0 => newest[so] >= w.cutoff \/ newest[so] \in w.keep
SweepsSound == DOMAIN sweep = Sweepers /\ \A s \in Sweepers : SweepSound(sweep[s])

\* R is what the recorded runs deleted, H[s] what sweep s has deleted so far.
Count(w) == IF w = Asleep THEN 0 ELSE w.deleted
CountedBy(R, H) ==
    /\ lastRun = Cardinality(R)
    /\ \A s \in Sweepers : Count(sweep[s]) = Cardinality(H[s]) /\ H[s] \cap R = {}
    /\ \A s, t \in Sweepers : s # t => H[s] \cap H[t] = {}
CountsSound == \E R \in SUBSET (gone \cap Events), H \in [Sweepers -> SUBSET (gone \cap Events)] : CountedBy(R, H)

RetentionIInv == LimitsSound /\ EventsSound /\ AlertsSound /\ SnapsSound /\ SweepsSound /\ CountsSound

LEMMA RetentionIInvInit == RetentionInit => RetentionIInv
<1> SUFFICES ASSUME RetentionInit PROVE RetentionIInv
  OBVIOUS
<1>1. LimitsSound
  BY DEF RetentionInit, LimitsSound
<1>2. EventsSound /\ AlertsSound
  BY DEF RetentionInit, EventsSound, AlertsSound, Present
<1>3. SnapsSound
  BY DEF RetentionInit, SnapsSound, NewestStays
<1>4. SweepsSound
  BY DEF RetentionInit, SweepsSound, SweepSound
<1>5. CountsSound
  <2>1. CountedBy({}, [s \in Sweepers |-> {}])
    BY FS_EmptySet DEF RetentionInit, CountedBy, Count
  <2> QED
    BY <2>1 DEF CountsSound
<1> QED
  BY <1>1, <1>2, <1>3, <1>4, <1>5 DEF RetentionIInv

LEMMA LimitsStep == ASSUME RetentionIInv, RetentionNext PROVE LimitsSound'
<1>0. LimitsSound
  BY DEF RetentionIInv
<1>1. ASSUME NEW h \in Handlers, NEW ids \in SUBSET RetAlerts \ {{}}, NEW x \in Statuses, AskStatus(h, ids, x)
      PROVE  LimitsSound'
  <2> DEFINE todo == {a \in ids \cap Present(alertRow) : alertRow[a].status # x}
  <2>1. handler' = [handler EXCEPT ![h] = [pc |-> "update", todo |-> todo, status |-> x]] /\ UNCHANGED <<limit, form>>
    BY <1>1 DEF AskStatus
  <2>2. [pc |-> "update", todo |-> todo, status |-> x] \in BusyHandler
    BY DEF BusyHandler
  <2> HIDE DEF todo
  <2> QED
    BY <1>0, <2>1, <2>2 DEF LimitsSound
<1>2. ASSUME NEW h \in Handlers, UpdateStatus(h) PROVE LimitsSound'
  <2>1. handler[h] \in BusyHandler /\ UNCHANGED <<limit, form>>
    BY <1>0, <1>2 DEF UpdateStatus, LimitsSound, Free
  <2>2. \A a : [handler[h] EXCEPT !.todo = @ \ {a}] \in BusyHandler
    BY <2>1 DEF BusyHandler
  <2>3. \E R \in {Free} \cup BusyHandler : handler' = [handler EXCEPT ![h] = R]
    BY <1>2, <2>2 DEF UpdateStatus
  <2> QED
    BY <1>0, <2>1, <2>3 DEF LimitsSound
<1>3. ASSUME NEW p \in RetPages, NEW l \in Limits, LoadForm(p) \/ SaveForm(p, l) PROVE LimitsSound'
  BY <1>0, <1>3 DEF LimitsSound, LoadForm, SaveForm
<1>4. ASSUME NEW p \in RetPages, LoadForm(p) PROVE LimitsSound'
  BY <1>0, <1>4 DEF LimitsSound, LoadForm
<1>5. CASE UNCHANGED <<limit, form, handler>>
  BY <1>0, <1>5 DEF LimitsSound
<1>6. ASSUME NEW s \in Sweepers, StartSweep(s) \/ SweepStep(s) PROVE UNCHANGED <<limit, form, handler>>
  BY <1>6 DEF StartSweep, SweepStep, FindEvents, DeleteMatches, DeleteJobs, DeleteEvents, FindNewest, DeleteSnapshots,
         FindAlerts, DeleteActions, DeleteAlerts, RecordRun
<1>7. \/ \E e \in Events : Classify(e) \/ \E at \in 0..LastDay : RecordEvent(e, at)
      \/ \E so \in Sources : TakeSnapshot(so)
      \/ \E a \in RetAlerts : AlertArrives(a) \/ SuggestAction(a)
      \/ ThinSnapshots \/ DayPasses
      => UNCHANGED <<limit, form, handler>>
  BY DEF Classify, RecordEvent, TakeSnapshot, AlertArrives, SuggestAction, ThinSnapshots, DayPasses
<1> QED
  BY <1>1, <1>2, <1>3, <1>4, <1>5, <1>6, <1>7 DEF RetentionNext
-----------------------------------------------------------------------------
(***************************************************************************)
(* The rows.                                                               *)
(***************************************************************************)
LEMMA EventsStep == ASSUME RetentionIInv, RetentionNext PROVE EventsSound'
<1>0. EventsSound /\ AlertsSound
  BY DEF RetentionIInv
<1>1. ASSUME NEW e \in Events, NEW at \in 0..LastDay, RecordEvent(e, at) PROVE EventsSound'
  <2>1. PICK sampled \in BOOLEAN :
           event' = With(event, e, [at |-> at, job |-> IF sampled THEN "PENDING" ELSE "none", matches |-> FALSE])
    BY <1>1 DEF RecordEvent
  <2>2. e \notin gone /\ gone' = gone
    BY <1>1 DEF RecordEvent
  <2> QED
    BY <1>0, <2>1, <2>2 DEF EventsSound, EventRow, Present, With
<1>2. ASSUME NEW e \in Events, Classify(e) PROVE EventsSound'
  <2> DEFINE R == [[event[e] EXCEPT !.job = "DONE"] EXCEPT !.matches = TRUE]
  <2>1. e \in Present(event) /\ event' = [event EXCEPT ![e] = R] /\ gone' = gone
    BY <1>2 DEF Classify, Present
  <2>2. R \in EventRow /\ R.job = "DONE"
    <3> DEFINE q == [event[e] EXCEPT !.job = "DONE"]
    <3>1. q \in EventRow /\ q.job = "DONE"
      BY <1>0, <2>1 DEF EventsSound, EventRow
    <3>2. R = [q EXCEPT !.matches = TRUE]
      OBVIOUS
    <3> HIDE DEF q, R
    <3> QED
      BY ONLY <3>1, <3>2 DEF EventRow
  <2> HIDE DEF R
  <2> QED
    BY <1>0, <2>1, <2>2 DEF EventsSound, Present
<1>3. ASSUME NEW s \in Sweepers, DeleteMatches(s) PROVE EventsSound'
  <2>1. event' = [e \in Present(event) |-> IF e \in sweep[s].ids THEN [event[e] EXCEPT !.matches = FALSE] ELSE event[e]]
        /\ gone' = gone
    BY <1>3 DEF DeleteMatches
  <2>2. \A e \in Present(event) : [event[e] EXCEPT !.matches = FALSE] \in EventRow
                                  /\ ~[event[e] EXCEPT !.matches = FALSE].matches
    BY <1>0 DEF EventsSound, EventRow
  <2> QED
    BY <1>0, <2>1, <2>2 DEF EventsSound, Present
<1>4. ASSUME NEW s \in Sweepers, DeleteJobs(s) PROVE EventsSound'
  <2>1. CASE event' = event /\ gone' = gone
    BY <1>0, <2>1 DEF EventsSound, Present
  <2>2. CASE /\ ~DeleteRefused(s) /\ gone' = gone
             /\ event' = [e \in Present(event) |->
                             IF e \in sweep[s].ids THEN [event[e] EXCEPT !.job = "none"] ELSE event[e]]
    <3>1. \A e \in Present(event) : [event[e] EXCEPT !.job = "none"] \in EventRow
                                    /\ [event[e] EXCEPT !.job = "none"].matches = event[e].matches
      BY <1>0 DEF EventsSound, EventRow
    <3>2. \A e \in Present(event) : e \in sweep[s].ids => ~event[e].matches
      BY <2>2 DEF DeleteRefused
    <3>3. Present(event)' = Present(event)
      BY <2>2 DEF Present
    <3>4. \A e \in Present(event) : event'[e] \in EventRow /\ (event'[e].matches => event'[e].job = "DONE")
      BY <1>0, <2>2, <3>1, <3>2 DEF EventsSound
    <3> QED
      BY <1>0, <2>2, <3>3, <3>4 DEF EventsSound
  <2> QED
    BY <1>4, <2>1, <2>2 DEF DeleteJobs
<1>5. ASSUME NEW s \in Sweepers, DeleteEvents(s) PROVE EventsSound'
  BY <1>0, <1>5 DEF DeleteEvents, EventsSound, Present, Dropping
<1>6. ASSUME NEW s \in Sweepers, DeleteAlerts(s) PROVE EventsSound'
  <2>1. event' = event /\ gone' \subseteq gone \cup Present(alertRow)
    BY <1>6 DEF DeleteAlerts
  <2>2. Present(event) \cap Present(alertRow) = {}
    BY <1>0, RetentionAssumption DEF EventsSound, AlertsSound
  <2> QED
    BY <1>0, <2>1, <2>2 DEF EventsSound, Present
<1>7. CASE UNCHANGED <<event, gone>>
  BY <1>0, <1>7 DEF EventsSound, Present
<1>8. ASSUME NEW s \in Sweepers, \/ StartSweep(s) \/ FindEvents(s) \/ FindNewest(s) \/ DeleteSnapshots(s)
                                 \/ FindAlerts(s) \/ DeleteActions(s) \/ RecordRun(s)
      PROVE  UNCHANGED <<event, gone>>
  BY <1>8 DEF StartSweep, FindEvents, FindNewest, DeleteSnapshots, FindAlerts, DeleteActions, RecordRun
<1>9. \/ \E so \in Sources : TakeSnapshot(so)
      \/ \E a \in RetAlerts : AlertArrives(a) \/ SuggestAction(a)
      \/ \E h \in Handlers : UpdateStatus(h) \/ \E ids, x : AskStatus(h, ids, x)
      \/ \E p \in RetPages : LoadForm(p) \/ \E l \in Limits : SaveForm(p, l)
      \/ ThinSnapshots \/ DayPasses
      => UNCHANGED <<event, gone>>
  BY DEF TakeSnapshot, AlertArrives, SuggestAction, UpdateStatus, AskStatus, LoadForm, SaveForm, ThinSnapshots, DayPasses
<1> QED
  BY <1>1, <1>2, <1>3, <1>4, <1>5, <1>6, <1>7, <1>8, <1>9 DEF RetentionNext, SweepStep

LEMMA AlertsStep == ASSUME RetentionIInv, RetentionNext PROVE AlertsSound'
<1>0. EventsSound /\ AlertsSound
  BY DEF RetentionIInv
<1>1. ASSUME NEW a \in RetAlerts, AlertArrives(a) PROVE AlertsSound'
  <2>1. a \notin gone /\ gone' = gone /\ alertRow' = With(alertRow, a, [at |-> today, status |-> "OPEN", actions |-> FALSE])
    BY <1>1 DEF AlertArrives
  <2>2. [at |-> today, status |-> "OPEN", actions |-> FALSE] \in AlertLine
    BY DEF AlertLine, Statuses, RetentionIInv, SnapsSound
  <2> QED
    BY <1>0, <2>1, <2>2 DEF AlertsSound, Present, With
<1>2. ASSUME NEW a \in RetAlerts, SuggestAction(a) PROVE AlertsSound'
  <2>1. a \in Present(alertRow) /\ gone' = gone /\ alertRow' = [alertRow EXCEPT ![a] = [alertRow[a] EXCEPT !.actions = TRUE]]
    BY <1>2 DEF SuggestAction
  <2>2. [alertRow[a] EXCEPT !.actions = TRUE] \in AlertLine
    BY <1>0, <2>1 DEF AlertsSound, AlertLine
  <2> QED
    BY <1>0, <2>1, <2>2 DEF AlertsSound, Present
<1>3. ASSUME NEW h \in Handlers, UpdateStatus(h) PROVE AlertsSound'
  <2>1. gone' = gone /\ handler[h].status \in Statuses
    BY <1>3 DEF UpdateStatus, RetentionIInv, LimitsSound, BusyHandler, Free
  <2>2. alertRow' = alertRow \/ \E a \in Present(alertRow) :
            alertRow' = [alertRow EXCEPT ![a] = [alertRow[a] EXCEPT !.status = handler[h].status]]
    BY <1>3 DEF UpdateStatus
  <2>3. \A a \in Present(alertRow) : [alertRow[a] EXCEPT !.status = handler[h].status] \in AlertLine
    BY <1>0, <2>1 DEF AlertsSound, AlertLine
  <2> QED
    BY <1>0, <2>1, <2>2, <2>3 DEF AlertsSound, Present
<1>4. ASSUME NEW s \in Sweepers, DeleteActions(s) PROVE AlertsSound'
  <2>1. gone' = gone /\ alertRow' = [a \in Present(alertRow) |->
            IF a \in sweep[s].ids THEN [alertRow[a] EXCEPT !.actions = FALSE] ELSE alertRow[a]]
    BY <1>4 DEF DeleteActions
  <2>2. \A a \in Present(alertRow) : [alertRow[a] EXCEPT !.actions = FALSE] \in AlertLine
    BY <1>0 DEF AlertsSound, AlertLine
  <2> QED
    BY <1>0, <2>1, <2>2 DEF AlertsSound, Present
<1>5. ASSUME NEW s \in Sweepers, DeleteAlerts(s) PROVE AlertsSound'
  <2>1. alertRow' = alertRow \/ alertRow' = Dropping(alertRow, sweep[s].ids)
    BY <1>5 DEF DeleteAlerts
  <2>2. gone' = gone \cup (Present(alertRow) \ Present(alertRow'))
    BY <1>5 DEF DeleteAlerts
  <2> QED
    BY <1>0, <2>1, <2>2 DEF AlertsSound, Present, Dropping
<1>6. ASSUME NEW s \in Sweepers, DeleteEvents(s) PROVE AlertsSound'
  <2>1. alertRow' = alertRow /\ gone' \subseteq gone \cup Present(event) 
    BY <1>6 DEF DeleteEvents
  <2>2. Present(event) \cap RetAlerts = {} /\ Present(event) \subseteq Events
    BY <1>0, RetentionAssumption DEF EventsSound
  <2> QED
    BY <1>0, <2>1, <2>2 DEF AlertsSound, Present
<1>7. CASE UNCHANGED <<alertRow, gone>>
  BY <1>0, <1>7 DEF AlertsSound, Present
<1>8. ASSUME NEW s \in Sweepers, \/ StartSweep(s) \/ FindEvents(s) \/ FindNewest(s) \/ DeleteSnapshots(s)
                                 \/ FindAlerts(s) \/ DeleteMatches(s) \/ DeleteJobs(s) \/ RecordRun(s)
      PROVE  UNCHANGED <<alertRow, gone>>
  BY <1>8 DEF StartSweep, FindEvents, FindNewest, DeleteSnapshots, FindAlerts, DeleteMatches, DeleteJobs, RecordRun
<1>9. \/ \E so \in Sources : TakeSnapshot(so)
      \/ \E e \in Events : Classify(e) \/ \E at \in 0..LastDay : RecordEvent(e, at)
      \/ \E h \in Handlers : \E ids, x : AskStatus(h, ids, x)
      \/ \E p \in RetPages : LoadForm(p) \/ \E l \in Limits : SaveForm(p, l)
      \/ ThinSnapshots \/ DayPasses
      => UNCHANGED <<alertRow, gone>>
  BY DEF TakeSnapshot, Classify, RecordEvent, AskStatus, LoadForm, SaveForm, ThinSnapshots, DayPasses
<1> QED
  BY <1>1, <1>2, <1>3, <1>4, <1>5, <1>6, <1>7, <1>8, <1>9 DEF RetentionNext, SweepStep

\* The newest snapshot of a source is not among those a sweep or the thinning takes.
LEMMA SnapsStep == ASSUME RetentionIInv, RetentionNext PROVE SnapsSound'
<1>0. SnapsSound /\ today \in Nat
  BY DEF RetentionIInv, SnapsSound
<1>1. ASSUME NEW so \in Sources, TakeSnapshot(so) PROVE SnapsSound'
  <2>1. snaps' = snaps \cup {[source |-> so, at |-> today]} /\ newest' = [newest EXCEPT ![so] = today] /\ today' = today
    BY <1>1 DEF TakeSnapshot
  <2> QED
    BY <1>0, <2>1 DEF SnapsSound, NewestStays
<1>2. ASSUME NEW s \in Sweepers, DeleteSnapshots(s) PROVE SnapsSound'
  <2>1. /\ snaps' = {x \in snaps : x.at >= sweep[s].cutoff \/ x.at \in sweep[s].keep}
        /\ UNCHANGED <<newest, today>> /\ sweep[s].pc = "snaps"
    BY <1>2 DEF DeleteSnapshots
  <2>2. \A so \in Sources : newest[so] >= 0 => newest[so] >= sweep[s].cutoff \/ newest[so] \in sweep[s].keep
    BY <2>1 DEF RetentionIInv, SweepsSound, SweepSound, Asleep
  <2> QED
    BY <1>0, <2>1, <2>2 DEF SnapsSound, NewestStays
<1>3. ASSUME ThinSnapshots PROVE SnapsSound'
  <2>1. /\ snaps' = {x \in snaps : x.at >= today - 1 \/ ~\E y \in snaps :
                        y.source = x.source /\ y.at \div 2 = x.at \div 2 /\ y.at > x.at}
        /\ UNCHANGED <<newest, today>>
    BY <1>3 DEF ThinSnapshots
  <2>2. \A so \in Sources : newest[so] >= 0 => [source |-> so, at |-> newest[so]] \in snaps'
    <3> SUFFICES ASSUME NEW so \in Sources, newest[so] >= 0 PROVE [source |-> so, at |-> newest[so]] \in snaps'
      OBVIOUS
    <3>1. PICK x \in snaps : x = [source |-> so, at |-> newest[so]]
      BY <1>0 DEF SnapsSound, NewestStays
    <3>2. \A y \in snaps : y.source = x.source => y.at \in Nat /\ y.at <= x.at /\ x.at \in Nat
      BY <1>0, <3>1 DEF SnapsSound
    <3>3. ~\E y \in snaps : y.source = x.source /\ y.at \div 2 = x.at \div 2 /\ y.at > x.at
      BY <3>2
    <3> QED
      BY <2>1, <3>1, <3>3
  <2> QED
    BY <1>0, <2>1, <2>2 DEF SnapsSound, NewestStays
<1>4. ASSUME DayPasses PROVE SnapsSound'
  BY <1>0, <1>4 DEF DayPasses, SnapsSound, NewestStays
<1>5. CASE UNCHANGED <<today, snaps, newest>>
  BY <1>0, <1>5 DEF SnapsSound, NewestStays
<1>6. ASSUME NEW s \in Sweepers,
             \/ StartSweep(s) \/ FindEvents(s) \/ FindNewest(s) \/ DeleteEvents(s) \/ FindAlerts(s) \/ DeleteMatches(s)
             \/ DeleteJobs(s) \/ DeleteActions(s) \/ DeleteAlerts(s) \/ RecordRun(s)
      PROVE  UNCHANGED <<today, snaps, newest>>
  BY <1>6 DEF StartSweep, FindEvents, FindNewest, DeleteEvents, FindAlerts, DeleteMatches, DeleteJobs, DeleteActions,
         DeleteAlerts, RecordRun
<1>7. \/ \E e \in Events : Classify(e) \/ \E at \in 0..LastDay : RecordEvent(e, at)
      \/ \E a \in RetAlerts : AlertArrives(a) \/ SuggestAction(a)
      \/ \E h \in Handlers : UpdateStatus(h) \/ \E ids, x : AskStatus(h, ids, x)
      \/ \E p \in RetPages : LoadForm(p) \/ \E l \in Limits : SaveForm(p, l)
      => UNCHANGED <<today, snaps, newest>>
  BY DEF Classify, RecordEvent, AlertArrives, SuggestAction, UpdateStatus, AskStatus, LoadForm, SaveForm
<1> QED
  BY <1>1, <1>2, <1>3, <1>4, <1>5, <1>6, <1>7 DEF RetentionNext, SweepStep
-----------------------------------------------------------------------------
(***************************************************************************)
(* What a sweep holds, while others act.                                   *)
(***************************************************************************)
LEMMA HeldStays == ASSUME RetentionIInv, RetentionNext, AlertsSound', NEW a \in Held, MayGo(a) PROVE MayGo(a)'
<1>0. AlertsSound
  BY DEF RetentionIInv
<1>1. ASSUME NEW b \in RetAlerts, AlertArrives(b) \/ SuggestAction(b) PROVE MayGo(a)'
  <2>1. CASE AlertArrives(b)
    BY <1>0, <2>1 DEF AlertArrives, MayGo, Present, With
  <2>2. CASE SuggestAction(b)
    <3>1. /\ b \in Present(alertRow) /\ UNCHANGED <<gone, reopened>>
          /\ alertRow' = [alertRow EXCEPT ![b] = [alertRow[b] EXCEPT !.actions = TRUE]]
      BY <2>2 DEF SuggestAction
    <3>2. [alertRow[b] EXCEPT !.actions = TRUE].status = alertRow[b].status
      BY <1>0, <3>1 DEF AlertsSound, AlertLine
    <3> QED
      BY <3>1, <3>2 DEF MayGo, Present
  <2> QED
    BY <1>1, <2>1, <2>2
<1>2. ASSUME NEW h \in Handlers, UpdateStatus(h) PROVE MayGo(a)'
  <2>1. gone' = gone
    BY <1>2 DEF UpdateStatus
  <2>2. CASE UNCHANGED <<alertRow, reopened>>
    BY <2>1, <2>2 DEF MayGo, Present
  <2>3. ASSUME NEW b \in Present(alertRow),
               alertRow' = [alertRow EXCEPT ![b] = [alertRow[b] EXCEPT !.status = handler[h].status]],
               reopened' = IF handler[h].status # "RESOLVED" THEN reopened \cup (Held \cap {b}) ELSE reopened
        PROVE  MayGo(a)'
    <3>1. [alertRow[b] EXCEPT !.status = handler[h].status].status = handler[h].status
      BY <1>0 DEF AlertsSound, AlertLine
    <3> QED
      BY <2>1, <2>3, <3>1 DEF MayGo, Present
  <2> QED
    BY <1>2, <2>2, <2>3 DEF UpdateStatus
<1>3. ASSUME NEW s \in Sweepers, DeleteActions(s) PROVE MayGo(a)'
  <2>1. /\ UNCHANGED <<gone, reopened>>
        /\ alertRow' = [b \in Present(alertRow) |->
               IF b \in sweep[s].ids THEN [alertRow[b] EXCEPT !.actions = FALSE] ELSE alertRow[b]]
    BY <1>3 DEF DeleteActions
  <2>2. \A b \in Present(alertRow) : [alertRow[b] EXCEPT !.actions = FALSE].status = alertRow[b].status
    BY <1>0 DEF AlertsSound, AlertLine
  <2> QED
    BY <2>1, <2>2 DEF MayGo, Present
<1>4. ASSUME NEW s \in Sweepers, DeleteAlerts(s) PROVE MayGo(a)'
  <2>1. alertRow' = alertRow \/ alertRow' = Dropping(alertRow, sweep[s].ids)
    BY <1>4 DEF DeleteAlerts
  <2>2. gone' = gone \cup (Present(alertRow) \ Present(alertRow')) /\ reopened' = reopened
    BY <1>4 DEF DeleteAlerts
  <2> QED
    BY <2>1, <2>2 DEF MayGo, Present, Dropping
<1>5. CASE alertRow' = alertRow /\ gone \subseteq gone' /\ reopened' = reopened
  BY <1>5 DEF MayGo, Present
<1>6. ASSUME NEW s \in Sweepers, \/ StartSweep(s) \/ FindEvents(s) \/ FindNewest(s) \/ DeleteSnapshots(s) \/ DeleteEvents(s)
                                 \/ FindAlerts(s) \/ DeleteMatches(s) \/ DeleteJobs(s) \/ RecordRun(s)
      PROVE  alertRow' = alertRow /\ gone \subseteq gone' /\ reopened' = reopened
  BY <1>6 DEF StartSweep, FindEvents, FindNewest, DeleteSnapshots, DeleteEvents, FindAlerts, DeleteMatches, DeleteJobs,
         RecordRun
<1>7. \/ \E so \in Sources : TakeSnapshot(so)
      \/ \E e \in Events : Classify(e) \/ \E at \in 0..LastDay : RecordEvent(e, at)
      \/ \E h \in Handlers : \E ids, x : AskStatus(h, ids, x)
      \/ \E p \in RetPages : LoadForm(p) \/ \E l \in Limits : SaveForm(p, l)
      \/ ThinSnapshots \/ DayPasses
      => alertRow' = alertRow /\ gone \subseteq gone' /\ reopened' = reopened
  BY DEF TakeSnapshot, Classify, RecordEvent, AskStatus, LoadForm, SaveForm, ThinSnapshots, DayPasses
<1> QED
  BY <1>1, <1>2, <1>3, <1>4, <1>5, <1>6, <1>7 DEF RetentionNext, SweepStep

\* A newer snapshot is of the day.
LEMMA NewestSince ==
    ASSUME RetentionIInv, RetentionNext
    PROVE  today' >= today /\ \A so \in Sources : newest'[so] = newest[so] \/ newest'[so] = today'
<1>0. SnapsSound /\ today \in Nat
  BY DEF RetentionIInv, SnapsSound
<1>1. ASSUME NEW so \in Sources, TakeSnapshot(so) PROVE today' = today /\ newest' = [newest EXCEPT ![so] = today]
  BY <1>1 DEF TakeSnapshot
<1>2. DayPasses => today' = today + 1 /\ newest' = newest
  BY DEF DayPasses
<1>3. ASSUME NEW s \in Sweepers,
             \/ StartSweep(s) \/ FindEvents(s) \/ FindNewest(s) \/ DeleteEvents(s) \/ FindAlerts(s) \/ DeleteMatches(s)
             \/ DeleteJobs(s) \/ DeleteActions(s) \/ DeleteAlerts(s) \/ RecordRun(s) \/ DeleteSnapshots(s)
      PROVE  UNCHANGED <<today, newest>>
  BY <1>3 DEF StartSweep, FindEvents, FindNewest, DeleteEvents, FindAlerts, DeleteMatches, DeleteJobs, DeleteActions,
         DeleteAlerts, RecordRun, DeleteSnapshots
<1>4. \/ \E e \in Events : Classify(e) \/ \E at \in 0..LastDay : RecordEvent(e, at)
      \/ \E a \in RetAlerts : AlertArrives(a) \/ SuggestAction(a)
      \/ \E h \in Handlers : UpdateStatus(h) \/ \E ids, x : AskStatus(h, ids, x)
      \/ \E p \in RetPages : LoadForm(p) \/ \E l \in Limits : SaveForm(p, l)
      \/ ThinSnapshots
      => UNCHANGED <<today, newest>>
  BY DEF Classify, RecordEvent, AlertArrives, SuggestAction, UpdateStatus, AskStatus, LoadForm, SaveForm, ThinSnapshots
<1>5. \/ UNCHANGED <<today, newest>> \/ DayPasses \/ \E so \in Sources : TakeSnapshot(so)
  BY <1>3, <1>4 DEF RetentionNext, SweepStep
<1>6. ASSUME NEW so \in Sources, TakeSnapshot(so)
      PROVE  today' >= today /\ \A x \in Sources : newest'[x] = newest[x] \/ newest'[x] = today'
  BY <1>0, <1>1, <1>6 DEF SnapsSound
<1> QED
  BY <1>0, <1>2, <1>5, <1>6

LEMMA SweepRests ==
    ASSUME RetentionIInv, RetentionNext, AlertsSound', SnapsSound', NEW s \in Sweepers, NEW w, w = sweep[s]
    PROVE  SweepSound(w)'
<1>1. SweepSound(w) /\ (w # Asleep => w \in BusySweep /\ w.cutoff \in Int) /\ today \in Nat /\ today' \in Nat
  BY DEF RetentionIInv, SweepsSound, SnapsSound, SweepSound, BusySweep
<1>2. today' >= today /\ \A so \in Sources : newest'[so] = newest[so] \/ newest'[so] = today'
  BY NewestSince
<1>3. ASSUME w.pc \in {"actions", "alerts"}, NEW a \in w.ids, MayGo(a) PROVE MayGo(a)'
  <2>1. a \in Held
    BY <1>3 DEF Held
  <2> QED
    BY <1>3, <2>1, HeldStays
<1>4. CASE w = Asleep
  BY <1>4 DEF SweepSound
<1>5. CASE w # Asleep
  <2>1. w.cutoff <= today'
    BY <1>1, <1>2, <1>5 DEF SweepSound
  <2>2. w.pc \in {"actions", "alerts"} => \A a \in w.ids : MayGo(a)'
    BY <1>1, <1>3, <1>5 DEF SweepSound
  <2>3. w.pc = "snaps" =>
            \A so \in Sources : newest'[so] >= 0 => newest'[so] >= w.cutoff \/ newest'[so] \in w.keep
    BY <1>1, <1>2, <1>5, <2>1 DEF SweepSound
  <2> QED
    BY <1>1, <1>5, <2>1, <2>2, <2>3 DEF SweepSound
<1> QED
  BY <1>4, <1>5

LEMMA SweepMoves ==
    ASSUME RetentionIInv, RetentionNext, AlertsSound', SnapsSound', NEW s \in Sweepers, NEW R,
           sweep' = [sweep EXCEPT ![s] = R], SweepSound(R)'
    PROVE  SweepsSound'
<1>1. DOMAIN sweep = Sweepers
  BY DEF RetentionIInv, SweepsSound
<1>2. ASSUME NEW t \in Sweepers PROVE SweepSound(sweep[t])'
  <2>1. CASE t = s
    BY <1>1, <2>1
  <2>2. CASE t # s
    <3>1. PICK w : w = sweep[t]
      OBVIOUS
    <3>2. sweep'[t] = w
      BY <1>1, <2>2, <3>1
    <3>3. SweepSound(w)'
      BY <3>1, SweepRests
    <3> QED
      BY <3>2, <3>3 DEF SweepSound
  <2> QED
    BY <2>1, <2>2
<1> QED
  BY <1>1, <1>2 DEF SweepsSound
-----------------------------------------------------------------------------
(***************************************************************************)
(* The steps of a sweep.                                                   *)
(***************************************************************************)
LEMMA BusyFields ==
    ASSUME NEW w \in BusySweep, NEW p \in SweepPcs
    PROVE  LET q == [w EXCEPT !.pc = p] IN
           /\ q \in BusySweep /\ q.pc = p /\ q.cutoff = w.cutoff /\ q.ids = w.ids /\ q.deleted = w.deleted /\ q.keep = w.keep
BY DEF BusySweep

LEMMA BusyIds ==
    ASSUME NEW w \in BusySweep, NEW ids \in SUBSET (Events \cup RetAlerts)
    PROVE  LET q == [w EXCEPT !.ids = ids] IN
           /\ q \in BusySweep /\ q.pc = w.pc /\ q.cutoff = w.cutoff /\ q.ids = ids /\ q.deleted = w.deleted /\ q.keep = w.keep
BY DEF BusySweep

LEMMA BusyBatches ==
    ASSUME NEW w \in BusySweep, NEW n \in Nat
    PROVE  LET q == [w EXCEPT !.batches = n] IN
           /\ q \in BusySweep /\ q.pc = w.pc /\ q.cutoff = w.cutoff /\ q.ids = w.ids /\ q.deleted = w.deleted /\ q.keep = w.keep
BY DEF BusySweep

LEMMA BusyDeleted ==
    ASSUME NEW w \in BusySweep, NEW n \in Nat
    PROVE  LET q == [w EXCEPT !.deleted = n] IN
           /\ q \in BusySweep /\ q.pc = w.pc /\ q.cutoff = w.cutoff /\ q.ids = w.ids /\ q.deleted = n /\ q.keep = w.keep
BY DEF BusySweep

LEMMA BusyKeep ==
    ASSUME NEW w \in BusySweep, NEW keep \in SUBSET Int
    PROVE  LET q == [w EXCEPT !.keep = keep] IN
           /\ q \in BusySweep /\ q.pc = w.pc /\ q.cutoff = w.cutoff /\ q.ids = w.ids /\ q.deleted = w.deleted /\ q.keep = keep
BY DEF BusySweep

\* A sweep that is under way.
LEMMA BusySound ==
    ASSUME RetentionIInv, NEW s \in Sweepers, sweep[s].pc \in SweepPcs
    PROVE  sweep[s] \in BusySweep /\ sweep[s] # Asleep /\ DOMAIN sweep = Sweepers /\ SweepSound(sweep[s])
           /\ sweep[s].deleted \in Nat /\ Count(sweep[s]) = sweep[s].deleted /\ sweep[s].cutoff <= today
           /\ Cardinality(sweep[s].ids) <= RetBatch /\ sweep[s].ids \subseteq Events \cup RetAlerts
<1>1. DOMAIN sweep = Sweepers /\ SweepSound(sweep[s]) /\ sweep[s] # Asleep
  BY DEF RetentionIInv, SweepsSound, Asleep, SweepPcs
<1>2. sweep[s] \in BusySweep /\ sweep[s].cutoff <= today /\ Cardinality(sweep[s].ids) <= RetBatch
  BY <1>1 DEF SweepSound
<1> QED
  BY <1>1, <1>2 DEF BusySweep, Count

\* A batch of ids, no more than RetBatch of them, or the next table.
LEMMA BatchesMove ==
    ASSUME RetentionIInv, NEW s \in Sweepers, sweep[s] \in BusySweep, NEW old \in SUBSET (Events \cup RetAlerts),
           NEW found \in SweepPcs, NEW next \in SweepPcs, Batches(s, old, found, next)
    PROVE  \E R \in BusySweep :
              /\ sweep' = [sweep EXCEPT ![s] = R] /\ R.cutoff = sweep[s].cutoff /\ R.deleted = sweep[s].deleted
              /\ R.pc \in {found, next} /\ R.ids \subseteq old /\ Cardinality(R.ids) <= RetBatch
<1>w. PICK w : w = sweep[s]
  OBVIOUS
<1>0. DOMAIN sweep = Sweepers /\ w \in BusySweep /\ w.batches \in Nat /\ RetBatch \in Nat
  BY <1>w, RetentionAssumption DEF RetentionIInv, SweepsSound, BusySweep
<1>1. ASSUME NEW p \in {found, next}, NEW n \in Nat, NEW ids \in SUBSET old, Cardinality(ids) <= RetBatch,
             sweep' = [sweep EXCEPT ![s].pc = p, ![s].batches = n, ![s].ids = ids]
      PROVE  \E R \in BusySweep :
                /\ sweep' = [sweep EXCEPT ![s] = R] /\ R.cutoff = w.cutoff /\ R.deleted = w.deleted
                /\ R.pc \in {found, next} /\ R.ids \subseteq old /\ Cardinality(R.ids) <= RetBatch
  <2> DEFINE q1 == [w EXCEPT !.pc = p]  q2 == [q1 EXCEPT !.batches = n]  R == [q2 EXCEPT !.ids = ids]
  <2>1. sweep' = [sweep EXCEPT ![s] = R]
    BY <1>0, <1>1, <1>w
  <2>2. p \in SweepPcs /\ ids \in SUBSET (Events \cup RetAlerts)
    OBVIOUS
  <2>3. q1 \in BusySweep /\ q1.pc = p /\ q1.cutoff = w.cutoff /\ q1.deleted = w.deleted
    BY ONLY <1>0, <2>2, BusyFields
  <2> HIDE DEF q1
  <2>4. q2 \in BusySweep /\ q2.pc = p /\ q2.cutoff = w.cutoff /\ q2.deleted = w.deleted
    BY ONLY <2>3, n \in Nat, BusyBatches
  <2> HIDE DEF q2
  <2>5. R \in BusySweep /\ R.pc = p /\ R.cutoff = w.cutoff /\ R.deleted = w.deleted /\ R.ids = ids
    BY ONLY <2>2, <2>4, BusyIds
  <2> HIDE DEF R
  <2> QED
    BY <1>1, <2>1, <2>5
<1>2. Cardinality({}) = 0 /\ IsFiniteSet(old) /\ Cardinality(old) \in Nat
  <2>1. IsFiniteSet(Events \cup RetAlerts)
    BY RetentionAssumption, FS_Union
  <2>2. IsFiniteSet(old)
    BY <2>1, FS_Subset
  <2> QED
    BY <2>2, FS_EmptySet, FS_CardinalityType
<1>3. CASE sweep' = [sweep EXCEPT ![s].pc = next, ![s].batches = 0, ![s].ids = {}]
  <2>1. next \in {found, next} /\ 0 \in Nat /\ {} \in SUBSET old /\ Cardinality({}) <= RetBatch
    BY <1>0, <1>2
  <2> QED
    BY ONLY <1>1, <1>3, <1>w, <2>1
<1>4. ASSUME NEW ids \in SUBSET old,
             Cardinality(ids) = IF Cardinality(old) < RetBatch THEN Cardinality(old) ELSE RetBatch,
             sweep' = [sweep EXCEPT ![s].pc = found, ![s].batches = @ + 1, ![s].ids = ids]
      PROVE  \E R \in BusySweep :
                /\ sweep' = [sweep EXCEPT ![s] = R] /\ R.cutoff = w.cutoff /\ R.deleted = w.deleted
                /\ R.pc \in {found, next} /\ R.ids \subseteq old /\ Cardinality(R.ids) <= RetBatch
  <2>1. Cardinality(ids) <= RetBatch
    BY <1>0, <1>2, <1>4
  <2>2. sweep' = [sweep EXCEPT ![s].pc = found, ![s].batches = w.batches + 1, ![s].ids = ids]
    BY <1>0, <1>4, <1>w, BusyFields
  <2>3. w.batches + 1 \in Nat
    BY <1>0
  <2> QED
    BY <1>1, <2>1, <2>2, <2>3
<1> QED
  BY <1>3, <1>4, <1>w DEF Batches
\* A step of a sweep leaves it as it should be.  What it counts changes only where
\* events go and where the run is recorded.
Counting(s, R) ==
    \/ lastRun' = lastRun /\ gone \subseteq gone' /\ Count(R) \in {0, Count(sweep[s])}
    \/ DeleteEvents(s) /\ Count(R) = Count(sweep[s]) + Cardinality(Deleted(s))
    \/ RecordRun(s) /\ R = Asleep
MovesOn(s) == \E R : sweep' = [sweep EXCEPT ![s] = R] /\ SweepSound(R)' /\ Counting(s, R)

LEMMA StartSweepMoves == ASSUME RetentionIInv, NEW s \in Sweepers, StartSweep(s) PROVE MovesOn(s)
<1> DEFINE R == [pc |-> "find", cutoff |-> today - limit.days, ids |-> {}, batches |-> 0, deleted |-> 0, keep |-> {}]
<1>1. sweep' = [sweep EXCEPT ![s] = R] /\ UNCHANGED <<today, lastRun, gone>>
  BY DEF StartSweep
<1>2. today \in Nat /\ limit.days \in Nat
  BY RetentionAssumption DEF RetentionIInv, SnapsSound, LimitsSound
<1>3. R \in BusySweep /\ R.cutoff <= today /\ R.ids = {} /\ R.pc = "find" /\ R.deleted = 0 /\ R # Asleep
  BY <1>2 DEF BusySweep, SweepPcs, Asleep
<1> HIDE DEF R
<1>4. Cardinality({}) = 0 /\ RetBatch >= 0
  BY FS_EmptySet, RetentionAssumption
<1> QED
  BY <1>1, <1>3, <1>4 DEF MovesOn, SweepSound, Counting, Count

\* Only how far it is, which statement of its own it is at, or that it ends.
LEMMA PlainMoves ==
    ASSUME RetentionIInv, NEW s \in Sweepers, sweep[s].pc \in SweepPcs, NEW p \in SweepPcs \ {"actions", "alerts", "snaps"},
           sweep' = [sweep EXCEPT ![s].pc = p] \/ sweep' = [sweep EXCEPT ![s] = Asleep],
           UNCHANGED <<today, lastRun>>, gone \subseteq gone'
    PROVE  MovesOn(s)
<1>w. PICK w : w = sweep[s]
  OBVIOUS
<1>0. w \in BusySweep /\ w # Asleep /\ Count(w) = w.deleted /\ w.cutoff <= today /\ Cardinality(w.ids) <= RetBatch
  BY <1>w, BusySound
<1>1. CASE sweep' = [sweep EXCEPT ![s].pc = p]
  <2>1. PICK R : R = [w EXCEPT !.pc = p]
    OBVIOUS
  <2>2. R \in BusySweep /\ R.pc = p /\ R.cutoff = w.cutoff /\ R.ids = w.ids /\ R.deleted = w.deleted
    BY <1>0, <2>1, BusyFields
  <2>3. sweep' = [sweep EXCEPT ![s] = R]
    BY <1>1, <1>w, <2>1
  <2>4. SweepSound(R)'
    BY <1>0, <2>2 DEF SweepSound
  <2>5. Count(R) \in {0, Count(w)}
    BY <1>0, <2>2 DEF Count
  <2> QED
    BY <1>w, <2>3, <2>4, <2>5 DEF MovesOn, Counting
<1>2. CASE sweep' = [sweep EXCEPT ![s] = Asleep]
  BY <1>2 DEF MovesOn, Counting, SweepSound, Count
<1> QED
  BY <1>1, <1>2

LEMMA FindEventsMoves == ASSUME RetentionIInv, NEW s \in Sweepers, FindEvents(s) PROVE MovesOn(s)
<1>1. /\ sweep[s].pc = "find" /\ Batches(s, OldEvents(sweep[s].cutoff), "matches", "newest")
      /\ UNCHANGED <<today, lastRun, gone>>
  BY DEF FindEvents
<1>2. sweep[s] \in BusySweep /\ Count(sweep[s]) = sweep[s].deleted /\ sweep[s].cutoff <= today
  BY <1>1, BusySound DEF SweepPcs
<1>3. OldEvents(sweep[s].cutoff) \in SUBSET (Events \cup RetAlerts) /\ "matches" \in SweepPcs /\ "newest" \in SweepPcs
  BY DEF OldEvents, RetentionIInv, EventsSound, SweepPcs
<1>4. PICK R \in BusySweep : /\ sweep' = [sweep EXCEPT ![s] = R] /\ R.cutoff = sweep[s].cutoff /\ R.deleted = sweep[s].deleted
                             /\ R.pc \in {"matches", "newest"} /\ Cardinality(R.ids) <= RetBatch
  BY <1>1, <1>2, <1>3, BatchesMove
<1>5. SweepSound(R)' /\ Count(R) \in {0, Count(sweep[s])}
  BY <1>1, <1>2, <1>4 DEF SweepSound, Count
<1> QED
  BY <1>1, <1>4, <1>5 DEF MovesOn, Counting

LEMMA FindAlertsMoves == ASSUME RetentionIInv, NEW s \in Sweepers, FindAlerts(s) PROVE MovesOn(s)
<1>1. /\ sweep[s].pc = "findAlerts" /\ Batches(s, OldAlerts(sweep[s].cutoff), "actions", "record")
      /\ UNCHANGED <<today, lastRun, gone, alertRow, reopened>>
  BY DEF FindAlerts
<1>2. sweep[s] \in BusySweep /\ Count(sweep[s]) = sweep[s].deleted /\ sweep[s].cutoff <= today
  BY <1>1, BusySound DEF SweepPcs
<1>3. OldAlerts(sweep[s].cutoff) \in SUBSET (Events \cup RetAlerts) /\ "actions" \in SweepPcs /\ "record" \in SweepPcs
  BY DEF OldAlerts, RetentionIInv, AlertsSound, SweepPcs
<1>4. PICK R \in BusySweep : /\ sweep' = [sweep EXCEPT ![s] = R] /\ R.cutoff = sweep[s].cutoff /\ R.deleted = sweep[s].deleted
                             /\ R.pc \in {"actions", "record"} /\ Cardinality(R.ids) <= RetBatch
                             /\ R.ids \subseteq OldAlerts(sweep[s].cutoff)
  BY <1>1, <1>2, <1>3, BatchesMove
<1>5. \A a \in R.ids : MayGo(a)'
  BY <1>1, <1>4 DEF MayGo, OldAlerts, Present
<1>6. SweepSound(R)' /\ Count(R) \in {0, Count(sweep[s])}
  BY <1>1, <1>2, <1>4, <1>5 DEF SweepSound, Count
<1> QED
  BY <1>1, <1>4, <1>6 DEF MovesOn, Counting

\* What is kept has the newest snapshot of every source.
LEMMA NewestIsMax ==
    ASSUME SnapsSound, NEW so \in Sources, newest[so] >= 0
    PROVE  Max({x.at : x \in {y \in snaps : y.source = so}}) = newest[so]
<1> DEFINE ats == {x.at : x \in {y \in snaps : y.source = so}}
<1>1. ats \subseteq Nat /\ newest[so] \in ats /\ \A n \in ats : newest[so] >= n
  BY DEF SnapsSound, NewestStays
<1> HIDE DEF ats
<1>m. PICK m : m = Max(ats)
  OBVIOUS
<1>2. m \in ats /\ m >= newest[so]
  BY <1>1, <1>m DEF Max
<1>3. m \in Nat /\ newest[so] \in Nat /\ newest[so] >= m
  BY <1>1, <1>2
<1>4. Max(ats) = newest[so]
  BY <1>2, <1>3, <1>m
<1> QED
  BY <1>4 DEF ats

LEMMA NewestFound ==
    ASSUME SnapsSound, NEW so \in Sources, newest[so] >= 0
    PROVE  newest[so] \in SnapsKept
<1>1. PICK z \in snaps : z.source = so
  BY DEF SnapsSound, NewestStays
<1>2. Max({x.at : x \in {y \in snaps : y.source = z.source}}) = newest[so]
  BY <1>1, NewestIsMax
<1> QED
  BY <1>2 DEF SnapsKept

LEMMA FindNewestMoves == ASSUME RetentionIInv, NEW s \in Sweepers, FindNewest(s) PROVE MovesOn(s)
<1>k. PICK keep : keep = IF snaps = {} THEN {} ELSE SnapsKept
  OBVIOUS
<1>w. PICK w : w = sweep[s]
  OBVIOUS
<1>1. /\ w.pc = "newest" /\ sweep' = [sweep EXCEPT ![s].pc = "snaps", ![s].keep = keep]
      /\ UNCHANGED <<today, lastRun, gone, newest>>
  BY <1>k, <1>w DEF FindNewest
<1>2. w \in BusySweep /\ Count(w) = w.deleted /\ w.cutoff <= today /\ Cardinality(w.ids) <= RetBatch /\ DOMAIN sweep = Sweepers
  BY <1>1, <1>w, BusySound DEF SweepPcs
<1>3. SnapsSound
  BY DEF RetentionIInv
<1>4. \A so \in Sources : newest[so] >= 0 => newest[so] \in keep
  BY <1>3, <1>k, NewestFound DEF SnapsSound, NewestStays
<1>5. keep \in SUBSET Int
  <2> SUFFICES ASSUME NEW z \in snaps PROVE Max({x.at : x \in {y \in snaps : y.source = z.source}}) \in Int
    BY <1>k DEF SnapsKept
  <2>1. z.source \in Sources /\ z.at \in Nat /\ z.at <= newest[z.source] /\ newest[z.source] \in Int
    BY <1>3 DEF SnapsSound
  <2>2. newest[z.source] >= 0
    BY <2>1
  <2> QED
    BY <1>3, <2>1, <2>2, NewestIsMax
<1> DEFINE q == [w EXCEPT !.pc = "snaps"]  R == [q EXCEPT !.keep = keep]
<1>6. sweep' = [sweep EXCEPT ![s] = R]
  BY <1>1, <1>2, <1>w
<1>7. q \in BusySweep /\ q.pc = "snaps" /\ q.cutoff = w.cutoff /\ q.ids = w.ids /\ q.deleted = w.deleted
  BY <1>2, BusyFields DEF SweepPcs
<1> HIDE DEF q
<1>8. R \in BusySweep /\ R.pc = "snaps" /\ R.cutoff = w.cutoff /\ R.ids = w.ids /\ R.deleted = w.deleted /\ R.keep = keep
  BY ONLY <1>5, <1>7, BusyKeep
<1> HIDE DEF R
<1>9. SweepSound(R)' /\ Count(R) \in {0, Count(w)}
  BY <1>1, <1>2, <1>4, <1>8 DEF SweepSound, Count
<1> QED
  BY <1>1, <1>6, <1>9, <1>w DEF MovesOn, Counting

LEMMA DeleteSnapshotsMoves == ASSUME RetentionIInv, NEW s \in Sweepers, DeleteSnapshots(s) PROVE MovesOn(s)
<1>w. PICK w : w = sweep[s]
  OBVIOUS
<1>1. /\ w.pc = "snaps" /\ sweep' = [sweep EXCEPT ![s].pc = "findAlerts", ![s].keep = {}]
      /\ UNCHANGED <<today, lastRun, gone>>
  BY <1>w DEF DeleteSnapshots
<1>2. w \in BusySweep /\ Count(w) = w.deleted /\ w.cutoff <= today /\ Cardinality(w.ids) <= RetBatch /\ DOMAIN sweep = Sweepers
  BY <1>1, <1>w, BusySound DEF SweepPcs
<1> DEFINE q == [w EXCEPT !.pc = "findAlerts"]  R == [q EXCEPT !.keep = {}]
<1>6. sweep' = [sweep EXCEPT ![s] = R]
  BY <1>1, <1>2, <1>w
<1>7. q \in BusySweep /\ q.pc = "findAlerts" /\ q.cutoff = w.cutoff /\ q.ids = w.ids /\ q.deleted = w.deleted
  BY <1>2, BusyFields DEF SweepPcs
<1> HIDE DEF q
<1>8. R \in BusySweep /\ R.pc = "findAlerts" /\ R.cutoff = w.cutoff /\ R.ids = w.ids /\ R.deleted = w.deleted
  BY ONLY <1>7, {} \in SUBSET Int, BusyKeep
<1> HIDE DEF R
<1>9. SweepSound(R)' /\ Count(R) \in {0, Count(w)}
  BY <1>1, <1>2, <1>8 DEF SweepSound, Count
<1> QED
  BY <1>1, <1>6, <1>9, <1>w DEF MovesOn, Counting

LEMMA DeleteActionsMoves ==
    ASSUME RetentionIInv, RetentionNext, AlertsSound', SnapsSound', NEW s \in Sweepers, DeleteActions(s) PROVE MovesOn(s)
<1>w. PICK w : w = sweep[s]
  OBVIOUS
<1>1. /\ w.pc = "actions" /\ sweep' = [sweep EXCEPT ![s].pc = "alerts"]
      /\ UNCHANGED <<today, lastRun, gone>>
  BY <1>w DEF DeleteActions, At
<1>2. w \in BusySweep /\ Count(w) = w.deleted /\ w # Asleep
  BY <1>1, <1>w, BusySound DEF SweepPcs
<1>3. SweepSound(w)'
  BY <1>w, SweepRests
<1>r. PICK R : R = [w EXCEPT !.pc = "alerts"]
  OBVIOUS
<1>4. sweep' = [sweep EXCEPT ![s] = R]
  BY <1>1, <1>w, <1>r
<1>5. R \in BusySweep /\ R.pc = "alerts" /\ R.cutoff = w.cutoff /\ R.ids = w.ids /\ R.deleted = w.deleted
  BY <1>2, <1>r, BusyFields DEF SweepPcs
<1>6. SweepSound(R)' /\ Count(R) \in {0, Count(w)}
  BY <1>1, <1>2, <1>3, <1>5 DEF SweepSound, Count
<1> QED
  BY <1>1, <1>4, <1>6, <1>w DEF MovesOn, Counting

LEMMA DeleteAlertsMoves == ASSUME RetentionIInv, NEW s \in Sweepers, DeleteAlerts(s) PROVE MovesOn(s)
<1>w. PICK w : w = sweep[s]
  OBVIOUS
<1>1. /\ w.pc = "alerts" /\ UNCHANGED <<today, lastRun>> /\ gone \subseteq gone'
      /\ \/ sweep' = [sweep EXCEPT ![s] = Asleep]
         \/ sweep' = [sweep EXCEPT ![s].pc = "findAlerts", ![s].ids = {}]
  BY <1>w DEF DeleteAlerts
<1>2. w \in BusySweep /\ Count(w) = w.deleted /\ w.cutoff <= today /\ DOMAIN sweep = Sweepers /\ sweep[s].pc \in SweepPcs
  BY <1>1, <1>w, BusySound DEF SweepPcs
<1>3. CASE sweep' = [sweep EXCEPT ![s] = Asleep]
  BY <1>1, <1>3 DEF MovesOn, Counting, SweepSound, Count
<1>4. CASE sweep' = [sweep EXCEPT ![s].pc = "findAlerts", ![s].ids = {}]
  <2> DEFINE q == [w EXCEPT !.pc = "findAlerts"]  R == [q EXCEPT !.ids = {}]
  <2>1. sweep' = [sweep EXCEPT ![s] = R]
    BY <1>2, <1>4, <1>w
  <2>2. q \in BusySweep /\ q.pc = "findAlerts" /\ q.cutoff = w.cutoff /\ q.deleted = w.deleted
    BY <1>2, BusyFields DEF SweepPcs
  <2> HIDE DEF q
  <2>3. R \in BusySweep /\ R.pc = "findAlerts" /\ R.cutoff = w.cutoff /\ R.ids = {} /\ R.deleted = w.deleted
    BY ONLY <2>2, {} \in SUBSET (Events \cup RetAlerts), BusyIds
  <2> HIDE DEF R
  <2>4. Cardinality({}) = 0 /\ RetBatch >= 0
    BY FS_EmptySet, RetentionAssumption
  <2>5. SweepSound(R)' /\ Count(R) \in {0, Count(w)}
    BY <1>1, <1>2, <2>3, <2>4 DEF SweepSound, Count
  <2> QED
    BY <1>1, <1>w, <2>1, <2>5 DEF MovesOn, Counting
<1> QED
  BY <1>1, <1>3, <1>4

\* The events a statement deletes are counted.
LEMMA DeletedFinite ==
    ASSUME RetentionIInv, NEW s \in Sweepers
    PROVE  IsFiniteSet(Deleted(s)) /\ Cardinality(Deleted(s)) \in Nat /\ Deleted(s) \subseteq Events \ gone
<1>1. Deleted(s) \subseteq Events \ gone
  BY DEF Deleted, RetentionIInv, EventsSound
<1>2. IsFiniteSet(Deleted(s))
  BY <1>1, RetentionAssumption, FS_Subset
<1> QED
  BY <1>1, <1>2, FS_CardinalityType

LEMMA DeleteEventsMoves == ASSUME RetentionIInv, NEW s \in Sweepers, DeleteEvents(s) PROVE MovesOn(s)
<1>w. PICK w : w = sweep[s]
  OBVIOUS
<1>c. PICK c : c = Cardinality(Deleted(s))
  OBVIOUS
<1>1. /\ w.pc = "events" /\ UNCHANGED <<today, lastRun>>
      /\ sweep' = [sweep EXCEPT ![s].pc = "find", ![s].deleted = @ + c, ![s].ids = {}]
  BY <1>w, <1>c DEF DeleteEvents
<1>2. w \in BusySweep /\ Count(w) = w.deleted /\ w.cutoff <= today /\ DOMAIN sweep = Sweepers /\ w.deleted \in Nat
  BY <1>1, <1>w, BusySound DEF SweepPcs
<1>3. c \in Nat
  BY <1>c, DeletedFinite
<1> DEFINE q1 == [w EXCEPT !.pc = "find"]  q2 == [q1 EXCEPT !.deleted = w.deleted + c]  R == [q2 EXCEPT !.ids = {}]
<1>5. q1 \in BusySweep /\ q1.pc = "find" /\ q1.cutoff = w.cutoff /\ q1.deleted = w.deleted
  BY <1>2, BusyFields DEF SweepPcs
<1>4. sweep' = [sweep EXCEPT ![s] = R]
  BY <1>1, <1>2, <1>5, <1>w
<1> HIDE DEF q1
<1>6. q2 \in BusySweep /\ q2.pc = "find" /\ q2.cutoff = w.cutoff /\ q2.deleted = w.deleted + c
  <2>1. w.deleted + c \in Nat
    BY <1>2, <1>3
  <2> QED
    BY ONLY <1>5, <2>1, BusyDeleted
<1> HIDE DEF q2
<1>7. R \in BusySweep /\ R.pc = "find" /\ R.cutoff = w.cutoff /\ R.ids = {} /\ R.deleted = w.deleted + c
  BY ONLY <1>6, {} \in SUBSET (Events \cup RetAlerts), BusyIds
<1> HIDE DEF R
<1>8. Cardinality({}) = 0 /\ RetBatch >= 0
  BY FS_EmptySet, RetentionAssumption
<1>9. SweepSound(R)' /\ Count(R) = Count(w) + c
  BY <1>1, <1>2, <1>7, <1>8 DEF SweepSound, Count, Asleep
<1> QED
  BY <1>1, <1>4, <1>9, <1>w, <1>c DEF MovesOn, Counting

LEMMA SweepStepMoves ==
    ASSUME RetentionIInv, RetentionNext, AlertsSound', SnapsSound', NEW s \in Sweepers, StartSweep(s) \/ SweepStep(s)
    PROVE  MovesOn(s)
<1>1. ASSUME DeleteMatches(s) \/ DeleteJobs(s) PROVE MovesOn(s)
  <2>1. UNCHANGED <<today, lastRun>> /\ gone \subseteq gone' /\ sweep[s].pc \in SweepPcs
    BY <1>1 DEF DeleteMatches, DeleteJobs, SweepPcs
  <2>2. PICK p \in {"jobs", "events"} : sweep' = [sweep EXCEPT ![s].pc = p] \/ sweep' = [sweep EXCEPT ![s] = Asleep]
    BY <1>1 DEF DeleteMatches, DeleteJobs, At
  <2>3. p \in SweepPcs \ {"actions", "alerts", "snaps"}
    BY DEF SweepPcs
  <2> QED
    BY <2>1, <2>2, <2>3, PlainMoves
<1>2. ASSUME RecordRun(s) PROVE MovesOn(s)
  BY <1>2 DEF RecordRun, MovesOn, Counting, SweepSound
<1> QED
  BY <1>1, <1>2, StartSweepMoves, FindEventsMoves, FindAlertsMoves, FindNewestMoves, DeleteSnapshotsMoves,
     DeleteActionsMoves, DeleteAlertsMoves, DeleteEventsMoves DEF SweepStep

LEMMA SweepsUnmoved ==
    ASSUME RetentionNext, ~(\E s \in Sweepers : StartSweep(s) \/ SweepStep(s)) PROVE UNCHANGED <<sweep, lastRun, gone>>
BY DEF RetentionNext, Classify, RecordEvent, TakeSnapshot, AlertArrives, SuggestAction, UpdateStatus, AskStatus, LoadForm,
       SaveForm, ThinSnapshots, DayPasses

LEMMA SweepsStep == ASSUME RetentionIInv, RetentionNext, AlertsSound', SnapsSound' PROVE SweepsSound'
<1>1. ASSUME NEW s \in Sweepers, StartSweep(s) \/ SweepStep(s) PROVE SweepsSound'
  <2>1. PICK R : sweep' = [sweep EXCEPT ![s] = R] /\ SweepSound(R)'
    BY <1>1, SweepStepMoves DEF MovesOn
  <2> QED
    BY <2>1, SweepMoves
<1>2. CASE ~\E s \in Sweepers : StartSweep(s) \/ SweepStep(s)
  <2>1. sweep' = sweep /\ DOMAIN sweep = Sweepers
    BY <1>2, SweepsUnmoved DEF RetentionIInv, SweepsSound
  <2>2. ASSUME NEW t \in Sweepers PROVE SweepSound(sweep[t])'
    <3>1. PICK w : w = sweep[t]
      OBVIOUS
    <3>2. SweepSound(w)'
      BY <3>1, SweepRests
    <3> QED
      BY <2>1, <3>1, <3>2 DEF SweepSound
  <2> QED
    BY <2>1, <2>2 DEF SweepsSound
<1> QED
  BY <1>1, <1>2
-----------------------------------------------------------------------------
(***************************************************************************)
(* What the sweeps count.                                                  *)
(***************************************************************************)
\* What is held and recorded stays, or is let go.
LEMMA CountsKept ==
    ASSUME CountsSound, lastRun' = lastRun, gone \subseteq gone',
           \A t \in Sweepers : Count(sweep[t])' \in {0, Count(sweep[t])}
    PROVE  CountsSound'
<1>1. PICK R \in SUBSET (gone \cap Events), H \in [Sweepers -> SUBSET (gone \cap Events)] : CountedBy(R, H)
  BY DEF CountsSound
<1> DEFINE G == [t \in Sweepers |-> IF Count(sweep[t])' = 0 THEN {} ELSE H[t]]
<1>2. G \in [Sweepers -> SUBSET (gone' \cap Events)] /\ R \in SUBSET (gone' \cap Events)
  OBVIOUS
<1>3. /\ lastRun' = Cardinality(R)
      /\ \A s \in Sweepers : Count(sweep[s])' = Cardinality(G[s]) /\ G[s] \cap R = {}
      /\ \A s, t \in Sweepers : s # t => G[s] \cap G[t] = {}
  BY <1>1, FS_EmptySet DEF CountedBy
<1> HIDE DEF G
<1> QED
  BY <1>2, <1>3 DEF CountsSound, CountedBy, Count

LEMMA CountsStep == ASSUME RetentionIInv, RetentionNext, AlertsSound', SnapsSound' PROVE CountsSound'
<1>0. CountsSound /\ DOMAIN sweep = Sweepers
  BY DEF RetentionIInv, SweepsSound
<1>1. CASE ~\E s \in Sweepers : StartSweep(s) \/ SweepStep(s)
  BY <1>0, <1>1, SweepsUnmoved, CountsKept DEF Count
<1>2. ASSUME NEW s \in Sweepers, StartSweep(s) \/ SweepStep(s) PROVE CountsSound'
  <2>r. PICK r : sweep' = [sweep EXCEPT ![s] = r] /\ Counting(s, r)
    BY <1>2, SweepStepMoves DEF MovesOn
  <2>1. sweep'[s] = r /\ \A t \in Sweepers \ {s} : sweep'[t] = sweep[t]
    BY <1>0, <2>r
  <2>2. CASE lastRun' = lastRun /\ gone \subseteq gone' /\ Count(r) \in {0, Count(sweep[s])}
    <3>1. \A t \in Sweepers : Count(sweep[t])' \in {0, Count(sweep[t])}
      BY <2>1, <2>2 DEF Count
    <3> QED
      BY <1>0, <2>2, <3>1, CountsKept
  <2>p. PICK R \in SUBSET (gone \cap Events), H \in [Sweepers -> SUBSET (gone \cap Events)] : CountedBy(R, H)
    BY <1>0 DEF CountsSound
  <2>f. IsFiniteSet(R) /\ IsFiniteSet(H[s])
    BY RetentionAssumption, FS_Subset
  <2>3. CASE DeleteEvents(s) /\ Count(r) = Count(sweep[s]) + Cardinality(Deleted(s))
    <3> DEFINE G == [H EXCEPT ![s] = H[s] \cup Deleted(s)]
    <3>1. gone' = gone \cup Deleted(s) /\ lastRun' = lastRun
      BY <2>3 DEF DeleteEvents, Deleted
    <3>2. IsFiniteSet(Deleted(s)) /\ Deleted(s) \subseteq Events \ gone
      BY DeletedFinite
    <3>3. Cardinality(H[s] \cup Deleted(s)) = Cardinality(H[s]) + Cardinality(Deleted(s)) - Cardinality(H[s] \cap Deleted(s))
      BY <2>f, <3>2, FS_Union
    <3>4. Cardinality(H[s] \cap Deleted(s)) = 0
      <4>1. H[s] \cap Deleted(s) = {}
        BY <3>2
      <4> QED
        BY ONLY <4>1, FS_EmptySet, Zenon
    <3>5. Cardinality(H[s]) \in Nat /\ Cardinality(Deleted(s)) \in Nat
      BY <2>f, <3>2, FS_CardinalityType
    <3>6. Cardinality(H[s] \cup Deleted(s)) = Count(r)
      <4>1. Count(sweep[s]) = Cardinality(H[s])
        BY <2>p DEF CountedBy
      <4>2. Cardinality(H[s] \cup Deleted(s)) = Cardinality(H[s]) + Cardinality(Deleted(s))
        BY ONLY <3>3, <3>4, <3>5
      <4> QED
        BY ONLY <2>3, <4>1, <4>2
    <3>7. G \in [Sweepers -> SUBSET (gone' \cap Events)] /\ R \in SUBSET (gone' \cap Events)
      BY <3>1, <3>2
    <3>8. /\ lastRun' = Cardinality(R)
          /\ \A t \in Sweepers : Count(sweep'[t]) = Cardinality(G[t]) /\ G[t] \cap R = {}
          /\ \A t, v \in Sweepers : t # v => G[t] \cap G[v] = {}
      <4>1. G[s] = H[s] \cup Deleted(s) /\ \A t \in Sweepers \ {s} : G[t] = H[t]
        OBVIOUS
      <4>2. \A t \in Sweepers : H[t] \cap Deleted(s) = {}
        BY <3>2
      <4>3. R \cap Deleted(s) = {}
        BY <3>2
      <4>4. /\ lastRun = Cardinality(R)
            /\ \A t \in Sweepers : Count(sweep[t]) = Cardinality(H[t]) /\ H[t] \cap R = {}
            /\ \A t, v \in Sweepers : t # v => H[t] \cap H[v] = {}
        BY <2>p DEF CountedBy
      <4> HIDE DEF G
      <4>5. \A t \in Sweepers : Count(sweep'[t]) = Cardinality(G[t]) /\ G[t] \cap R = {}
        BY <2>1, <3>6, <4>1, <4>3, <4>4
      <4>6. \A t, v \in Sweepers : t # v => G[t] \cap G[v] = {}
        BY <4>1, <4>2, <4>4
      <4> QED
        BY <3>1, <4>4, <4>5, <4>6
    <3> HIDE DEF G
    <3> QED
      BY <3>7, <3>8 DEF CountsSound, CountedBy, Count
  <2>4. CASE RecordRun(s) /\ r = Asleep
    <3> DEFINE G == [H EXCEPT ![s] = {}]
               S == R \cup H[s]
    <3>1. lastRun' = lastRun + sweep[s].deleted /\ gone' = gone /\ sweep[s].pc = "record"
      BY <2>4 DEF RecordRun
    <3>2. Count(sweep[s]) = sweep[s].deleted
      BY <3>1 DEF Count, Asleep
    <3>3. /\ lastRun = Cardinality(R)
          /\ \A t \in Sweepers : Count(sweep[t]) = Cardinality(H[t]) /\ H[t] \cap R = {}
          /\ \A t, v \in Sweepers : t # v => H[t] \cap H[v] = {}
      BY <2>p DEF CountedBy
    <3>4. Cardinality(S) = Cardinality(R) + Cardinality(H[s])
      <4>1. Cardinality(S) = Cardinality(R) + Cardinality(H[s]) - Cardinality(R \cap H[s])
        BY <2>f, FS_Union
      <4>2. Cardinality(R \cap H[s]) = 0
        <5>1. R \cap H[s] = {}
          BY <3>3
        <5> QED
          BY ONLY <5>1, FS_EmptySet, Zenon
      <4>3. Cardinality(R) \in Nat /\ Cardinality(H[s]) \in Nat
        BY <2>f, FS_CardinalityType
      <4> QED
        BY <4>1, <4>2, <4>3
    <3>5. G \in [Sweepers -> SUBSET (gone' \cap Events)] /\ S \in SUBSET (gone' \cap Events)
      BY <3>1
    <3>6. G[s] = {} /\ \A t \in Sweepers \ {s} : G[t] = H[t]
      OBVIOUS
    <3> HIDE DEF G
    <3>7. Count(sweep'[s]) = 0 /\ Cardinality({}) = 0
      BY <2>1, <2>4, FS_EmptySet DEF Count
    <3>8. /\ lastRun' = Cardinality(S)
          /\ \A t \in Sweepers : Count(sweep'[t]) = Cardinality(G[t]) /\ G[t] \cap S = {}
          /\ \A t, v \in Sweepers : t # v => G[t] \cap G[v] = {}
      <4>1. lastRun' = Cardinality(S)
        BY <3>1, <3>2, <3>3, <3>4
      <4>2. \A t \in Sweepers : Count(sweep'[t]) = Cardinality(G[t])
        BY <2>1, <3>3, <3>6, <3>7
      <4>3. \A t \in Sweepers : G[t] \cap S = {}
        BY <3>3, <3>6
      <4>4. \A t, v \in Sweepers : t # v => G[t] \cap G[v] = {}
        BY <3>3, <3>6
      <4> HIDE DEF S
      <4> QED
        BY <4>1, <4>2, <4>3, <4>4
    <3> HIDE DEF S
    <3> QED
      BY <3>5, <3>8 DEF CountsSound, CountedBy, Count
  <2> QED
    BY <2>r, <2>2, <2>3, <2>4 DEF Counting
<1> QED
  BY <1>1, <1>2
-----------------------------------------------------------------------------
LEMMA RetentionIInvStep == RetentionIInv /\ [RetentionNext]_retVars => RetentionIInv'
<1> SUFFICES ASSUME RetentionIInv, [RetentionNext]_retVars PROVE RetentionIInv'
  OBVIOUS
<1>1. CASE RetentionNext
  <2>1. LimitsSound' /\ EventsSound' /\ AlertsSound' /\ SnapsSound'
    BY <1>1, LimitsStep, EventsStep, AlertsStep, SnapsStep
  <2>2. SweepsSound' /\ CountsSound'
    BY <1>1, <2>1, SweepsStep, CountsStep
  <2> QED
    BY <2>1, <2>2 DEF RetentionIInv
<1>2. CASE UNCHANGED retVars
  <2>1. LimitsSound' /\ EventsSound' /\ AlertsSound' /\ SnapsSound'
    BY <1>2 DEF retVars, RetentionIInv, LimitsSound, EventsSound, AlertsSound, SnapsSound, NewestStays, Present
  <2>2. SweepsSound'
    BY <1>2 DEF retVars, RetentionIInv, SweepsSound, SweepSound, MayGo, Present
  <2>3. CountsSound'
    BY <1>2 DEF retVars, RetentionIInv, CountsSound, CountedBy, Count
  <2> QED
    BY <2>1, <2>2, <2>3 DEF RetentionIInv
<1> QED
  BY <1>1, <1>2

LEMMA RetentionIInvAlways == RetentionSpec => []RetentionIInv
BY RetentionIInvInit, RetentionIInvStep, PTL DEF RetentionSpec

\* RetentionTypeOK: the rows are of their kind, none that is gone is there, and a sweep
\* holds no more ids than a batch has.
THEOREM RetentionTypeCorrect == RetentionSpec => []RetentionTypeOK
<1>1. RetentionIInv => RetentionTypeOK
  <2> SUFFICES ASSUME RetentionIInv PROVE RetentionTypeOK
    OBVIOUS
  <2>1. \A s \in Sweepers : sweep[s].pc # "asleep" => Cardinality(sweep[s].ids) <= RetBatch
    BY DEF RetentionIInv, SweepsSound, SweepSound, Asleep
  <2> QED
    BY <2>1 DEF RetentionIInv, EventsSound, AlertsSound, AlertLine, RetentionTypeOK
<1> QED
  BY <1>1, RetentionIInvAlways, PTL

\* RetentionHolds: however sweeps, thinning and new rows interleave (runRetention,
\* thinSnapshots), every source keeps its newest snapshot, and together the sweeps record
\* no more deletions than there were.
THEOREM RetentionSound == RetentionSpec => []RetentionHolds
<1>1. RetentionIInv => RetentionHolds
  <2> SUFFICES ASSUME RetentionIInv PROVE RetentionHolds
    OBVIOUS
  <2>1. PICK R \in SUBSET (gone \cap Events) : lastRun = Cardinality(R)
    BY DEF RetentionIInv, CountsSound, CountedBy
  <2>2. IsFiniteSet(gone \cap Events)
    BY RetentionAssumption, FS_Subset
  <2>3. Cardinality(R) <= Cardinality(gone \cap Events)
    BY <2>2, FS_Subset
  <2> QED
    BY <2>1, <2>3 DEF RetentionHolds, CountedOnce, RetentionIInv, SnapsSound
<1> QED
  BY <1>1, RetentionIInvAlways, PTL

\* OpenAlertsStay: a sweep deletes no alert that is not resolved, unless somebody took it
\* up again between the sweep's search and its deletion.
THEOREM OpenAlertsKept == RetentionSpec => OpenAlertsStay
<1> DEFINE GoesResolved == \A a \in Present(alertRow) \ Present(alertRow)' : alertRow[a].status = "RESOLVED" \/ a \in reopened
<1>1. RetentionIInv /\ [RetentionNext]_retVars => GoesResolved
  <2> SUFFICES ASSUME RetentionIInv, [RetentionNext]_retVars,
                      NEW a \in Present(alertRow), a \notin Present(alertRow)'
               PROVE  alertRow[a].status = "RESOLVED" \/ a \in reopened
    OBVIOUS
  <2>1. ASSUME NEW s \in Sweepers, DeleteAlerts(s) PROVE alertRow[a].status = "RESOLVED" \/ a \in reopened
    <3>1. sweep[s].pc = "alerts" /\ a \in sweep[s].ids
      BY <2>1 DEF DeleteAlerts, Dropping, Present
    <3>2. MayGo(a)
      BY <3>1 DEF RetentionIInv, SweepsSound, SweepSound, Asleep
    <3> QED
      BY <3>2 DEF MayGo
  <2>2. ASSUME ~\E s \in Sweepers : DeleteAlerts(s) PROVE Present(alertRow) \subseteq Present(alertRow)'
    BY <2>2 DEF RetentionNext, retVars, Present, Classify, RecordEvent, TakeSnapshot, AlertArrives, SuggestAction, UpdateStatus,
           AskStatus, LoadForm, SaveForm, ThinSnapshots, DayPasses, StartSweep, SweepStep, FindEvents, DeleteMatches,
           DeleteJobs, DeleteEvents, FindNewest, DeleteSnapshots, FindAlerts, DeleteActions, RecordRun, With
  <2> QED
    BY <2>1, <2>2
<1> QED
  BY <1>1, RetentionIInvAlways, PTL DEF RetentionSpec, OpenAlertsStay
-----------------------------------------------------------------------------
(***************************************************************************)
(* Backups.                                                                *)
(*                                                                         *)
(* As long as no two workers were alive together, the one that is up holds *)
(* a run that is marked RUNNING, what it is about to prune is of what is   *)
(* on the destination, and after pruning a bundle no older than its own is *)
(* still there.  Every upload recorded, not just the newest, then has a    *)
(* bundle no older than itself: retention always leaves the newest of what *)
(* it was shown.  Whatever overlaps, a backup that is past its dump has    *)
(* one beside it.                                                          *)
(***************************************************************************)
SettingsRow == [enabled : BOOLEAN, since : Nat, type : Types \cup {None},
                creds : Types \cup {None}, key : BOOLEAN]
FitsTogether(row) == /\ row \in SettingsRow /\ row.since <= time
                     /\ row.type = row.creds /\ (row.type # None => row.key)
SavesSound ==
    /\ FitsTogether(settings)
    /\ saver \in [Savers -> [pc : {"idle"}] \cup [pc : {"write"}, existing : SettingsRow]]
    /\ \A r \in Savers : saver[r].pc = "write" => FitsTogether(saver[r].existing)

RunRow == [kind : Kinds, slot : Nat, status : Settled \cup {"PENDING", "RUNNING"},
           uploaded : Types \cup {None}, stamp : Nat, finished : Nat]
RunsSound ==
    /\ runs \in Seq(RunRow)
    /\ \A i \in RunIds : runs[i].slot <= time /\ runs[i].stamp <= stamp /\ runs[i].finished <= finishes

StoreSound ==
    /\ time \in Nat \ {0} /\ stamp \in Nat /\ finishes \in Nat /\ crashes \in Nat
    /\ overlapped \in BOOLEAN
    /\ dumps \subseteq 1..stamp /\ bundles \in [Types -> SUBSET (1..stamp)]
    /\ alerted \subseteq RunIds

Begun == [pc : {"dump", "check", "test"}, run : Nat, to : Types \cup {None}]
Storing == [pc : {"upload", "list", "prune"}, run : Nat, to : Types \cup {None},
            stamp : Nat, listing : SUBSET Nat]
Ended == [pc : {"done"}, run : Nat, to : Types \cup {None}, stamp : Nat]
Scheduling == [pc : {"due"}, kind : {"BACKUP", "VERIFY"}, cfg : SettingsRow, now : Nat]
Adding == [pc : {"add"}, kind : {"BACKUP", "VERIFY"}, cfg : SettingsRow, now : Nat, slot : Nat]
WorkerStates == [pc : {"idle", "claim", "down"}] \cup Scheduling \cup Adding \cup Begun
                \cup [pc : {"load", "fail", "alert"}, run : Nat] \cup Storing \cup Ended

\* A worker that has claimed a run and not yet settled it.
Carrying == {"load", "fail", "dump", "check", "test", "upload", "list", "prune", "done"}

\* What a worker holds, whoever else is alive.
Serves(m) ==
    /\ m \in WorkerStates
    /\ m.pc \in {"due", "add"} => m.now \in 1..time
    /\ m.pc = "add" => m.slot \in 0..time
    /\ m.pc \in Carrying \cup {"alert"} => m.run \in RunIds
    /\ m.pc \in {"dump", "upload", "list", "prune"} => runs[m.run].kind = "BACKUP"
    /\ m.pc \in {"check", "test"} => runs[m.run].kind # "BACKUP"
    /\ m.pc \in {"upload", "list"} => m.to # None
    /\ m.pc \in {"upload", "list", "prune", "done"} => m.stamp <= stamp
    /\ m.pc = "prune" => m.listing \subseteq 1..stamp
    /\ m.pc \in {"upload", "list", "prune"} => m.stamp # 0 /\ dumps # {}
    /\ m.pc = "done" => (runs[m.run].kind = "BACKUP" => dumps # {})
WorkersServe == \A w \in Workers : Serves(worker[w])

NoOlder(t, n) == \E b \in bundles[t] : n <= b
\* What it holds if it is the only one.
OwnsRun(m) ==
    /\ m.pc \in Carrying => runs[m.run].status = "RUNNING"
    /\ m.pc = "prune" => (m.to # None => m.listing \subseteq bundles[m.to] /\ m.stamp \in m.listing)
    /\ m.pc = "done" => (m.to # None => NoOlder(m.to, m.stamp))
OneWorkerUp ==
    /\ ~overlapped => \A v, w \in Workers : worker[v].pc # "down" /\ worker[w].pc # "down" => v = w
    /\ crashes = 0 => worker[FirstWorker].pc # "down"
Alone == ~overlapped => \A w \in Workers : OwnsRun(worker[w])

Recorded(i) == runs[i].status = "SUCCEEDED" /\ runs[i].uploaded # None
UploadsKept == ~overlapped => \A i \in RunIds : Recorded(i) => NoOlder(runs[i].uploaded, runs[i].stamp)
DumpBeside == \A i \in RunIds : runs[i].kind = "BACKUP" /\ runs[i].status = "SUCCEEDED" => dumps # {}

BackupsIInv ==
    /\ SavesSound /\ RunsSound /\ StoreSound
    /\ worker \in [Workers -> WorkerStates] /\ WorkersServe
    /\ OneWorkerUp /\ Alone /\ UploadsKept /\ DumpBeside
    /\ OneRunPerSlot /\ FailuresAlert
\* The natural numbers that are not above a bound, and any set of them that is
\* not empty, have a greatest and a least member.
LEMMA LessWellFounded ==
    IsWellFoundedOn({p \in Nat \X Nat : p[1] < p[2]}, Nat)
BY NatLessThanWellFounded DEF OpToRel

LEMMA LeastThere ==
    ASSUME NEW S \in SUBSET Nat, S # {}
    PROVE  \E m \in S : \A x \in S : m <= x
<1> DEFINE Less == {p \in Nat \X Nat : p[1] < p[2]}
<1>1. \E m \in S : \A k \in S : ~(<<k, m>> \in Less)
  <2>1. IsWellFoundedOn(Less, Nat)
    BY LessWellFounded
  <2> HIDE DEF Less
  <2> QED
    BY <2>1, WFMin, Zenon
<1>2. \A k, m \in S : ~(<<k, m>> \in Less) => m <= k
  OBVIOUS
<1> HIDE DEF Less
<1> QED
  BY <1>1, <1>2

LEMMA GreatestThere ==
    ASSUME NEW n \in Nat, NEW S \in SUBSET (0..n), S # {}
    PROVE  \E m \in S : \A x \in S : x <= m
<1> DEFINE Bounds == {k \in Nat : \A x \in S : x <= k}
<1>1. Bounds \in SUBSET Nat /\ n \in Bounds
  OBVIOUS
<1>2. PICK m \in Bounds : \A k \in Bounds : m <= k
  <2> HIDE DEF Bounds
  <2> QED
    BY <1>1, LeastThere
<1>3. m \in S
  <2> SUFFICES ASSUME m \notin S PROVE FALSE
    OBVIOUS
  <2>1. PICK y \in S : TRUE
    OBVIOUS
  <2>2. m \in Nat /\ y <= m /\ y \in Nat /\ y # m
    OBVIOUS
  <2>3. m - 1 \in Bounds
    BY <2>2
  <2> QED
    BY <1>2, <2>2, <2>3
<1> QED
  BY <1>3
\* Retention keeps the newest of what it is shown.
LEMMA NewestRetained ==
    ASSUME NEW n \in Nat, NEW S \in SUBSET (0..n), NEW x \in S
    PROVE  \E m \in Retained(S) : x <= m
<1>1. PICK m \in S : \A y \in S : y <= m
  BY GreatestThere
<1>2. {k \in S : k > m} = {}
  <2>1. \A k \in S : k \in Nat /\ m \in Nat /\ k <= m
    BY <1>1
  <2>2. \A k \in S : ~(k > m)
    BY <2>1
  <2> QED
    BY <2>2
<1>3. Cardinality({k \in S : k > m}) = 0
  BY <1>2, FS_EmptySet
<1>4. 0 < Keep
  BY BackupsAssumption
<1> QED
  BY <1>1, <1>3, <1>4 DEF Retained

LEMMA BackupsIInvInit == BackupInit => BackupsIInv
<1> SUFFICES ASSUME BackupInit PROVE BackupsIInv
  OBVIOUS
<1> USE DEF BackupInit
<1>1. PICK type \in AtFirst : settings = [enabled |-> TRUE, since |-> 0, type |-> type,
                                          creds |-> type, key |-> type # None]
  OBVIOUS
<1>2. SavesSound
  <2>1. type \in Types \cup {None} /\ (type # None) \in BOOLEAN
    BY BackupsAssumption DEF None
  <2>2. PICK key \in BOOLEAN : key = (type # None)
    BY <2>1
  <2>3. settings = [enabled |-> TRUE, since |-> 0, type |-> type, creds |-> type, key |-> key]
    BY <1>1, <2>2
  <2>4. FitsTogether(settings)
    <3>1. settings \in SettingsRow /\ settings.since = 0 /\ settings.type = type /\ settings.creds = type
      BY <2>1, <2>2, <2>3 DEF SettingsRow
    <3>2. settings.key = (type # None)
      BY <2>2, <2>3
    <3>3. settings.type # None => settings.key
      BY ONLY <3>1, <3>2
    <3> QED
      BY <3>1, <3>3 DEF FitsTogether
  <2> QED
    BY <2>4 DEF SavesSound
<1>3. RunsSound /\ RunIds = {}
  BY DEF RunsSound, RunIds
<1>4. StoreSound
  <2>1. bundles \in [Types -> SUBSET (1..stamp)]
    OBVIOUS
  <2>2. dumps \subseteq 1..stamp /\ alerted \subseteq RunIds
    OBVIOUS
  <2>3. time = 1 /\ stamp = 0 /\ finishes = 0 /\ crashes = 0 /\ overlapped = FALSE
    OBVIOUS
  <2>4. overlapped \in BOOLEAN
    BY <2>3
  <2>5. time \in Nat \ {0} /\ stamp \in Nat /\ finishes \in Nat /\ crashes \in Nat
    BY ONLY <2>3
  <2> QED
    BY ONLY <2>1, <2>2, <2>3, <2>4, <2>5 DEF StoreSound
<1>5. worker \in [Workers -> WorkerStates] /\ \A w \in Workers : worker[w].pc \in {"idle", "down"}
  BY DEF WorkerStates, Idle, Down
<1>6. WorkersServe
  BY <1>5 DEF WorkersServe, Serves, Carrying
<1>7. OneWorkerUp
  <2>1. \A w \in Workers : worker[w].pc # "down" => w = FirstWorker
    BY DEF Idle, Down
  <2>2. worker[FirstWorker].pc # "down"
    BY BackupsAssumption DEF Idle, Down
  <2> QED
    BY <2>1, <2>2 DEF OneWorkerUp
<1>8. Alone
  BY <1>5 DEF Alone, OwnsRun, Carrying
<1>9. UploadsKept /\ DumpBeside /\ OneRunPerSlot /\ FailuresAlert
  BY <1>3 DEF UploadsKept, DumpBeside, OneRunPerSlot, FailuresAlert
<1> QED
  BY <1>2, <1>3, <1>4, <1>5, <1>6, <1>7, <1>8, <1>9 DEF BackupsIInv

-----------------------------------------------------------------------------
\* What the steps do to the runs: none, one more that is pending, one replaced.
LEMMA RunAdded ==
    ASSUME BackupsIInv, NEW row \in RunRow, runs' = Append(runs, row)
    PROVE  /\ runs' \in Seq(RunRow) /\ RunIds \subseteq RunIds'
           /\ \A i \in RunIds : runs'[i] = runs[i]
           /\ \A i \in RunIds' : i \in RunIds \/ (i = Len(runs) + 1 /\ runs'[i] = row)
<1>1. runs \in Seq(RunRow)
  BY DEF BackupsIInv, RunsSound
<1> HIDE DEF RunRow
<1> QED
  BY <1>1 DEF RunIds

LEMMA RunReplaced ==
    ASSUME BackupsIInv, NEW k \in RunIds, NEW row \in RunRow, runs' = [runs EXCEPT ![k] = row]
    PROVE  /\ runs' \in Seq(RunRow) /\ RunIds' = RunIds /\ runs'[k] = row
           /\ \A i \in RunIds \ {k} : runs'[i] = runs[i]
<1>1. runs \in Seq(RunRow)
  BY DEF BackupsIInv, RunsSound
<1> HIDE DEF RunRow
<1> QED
  BY <1>1 DEF RunIds

LEMMA NewRunType ==
    ASSUME NEW kind \in Kinds, NEW slot \in Nat
    PROVE  /\ NewRun(kind, slot) \in RunRow /\ NewRun(kind, slot).kind = kind
           /\ NewRun(kind, slot).slot = slot /\ NewRun(kind, slot).status = "PENDING"
           /\ NewRun(kind, slot).stamp = 0 /\ NewRun(kind, slot).finished = 0
BY DEF NewRun, RunRow

LEMMA RunType ==
    ASSUME BackupsIInv, NEW i \in RunIds
    PROVE  /\ runs[i] \in RunRow /\ i \in Nat
           /\ runs[i].slot <= time /\ runs[i].stamp <= stamp /\ runs[i].finished <= finishes
<1>1. runs \in Seq(RunRow)
  BY DEF BackupsIInv, RunsSound
<1>2. i \in 1..Len(runs)
  BY <1>1 DEF RunIds
<1> HIDE DEF RunRow
<1> QED
  BY <1>1, <1>2 DEF BackupsIInv, RunsSound, RunIds

\* The one that is claimed is pending.
LEMMA ClaimedIsPending ==
    ASSUME BackupsIInv, Claimable # {}
    PROVE  Min(Claimable) \in Claimable
<1>1. Claimable \in SUBSET Nat
  BY RunType DEF Claimable
<1>2. \E m \in Claimable : \A x \in Claimable : m <= x
  BY <1>1, LeastThere
<1> QED
  BY <1>2 DEF Min
-----------------------------------------------------------------------------
\* Time, names and rows only ever grow, and a row keeps its kind.
Later ==
    /\ time <= time' /\ time' \in Nat /\ stamp <= stamp' /\ stamp' \in Nat
    /\ RunIds \subseteq RunIds' /\ \A i \in RunIds : runs'[i].kind = runs[i].kind
    /\ dumps # {} => dumps' # {}
    /\ overlapped => overlapped'

\* The parts of what a worker holds that its place calls for.
LEMMA StateFields ==
    ASSUME NEW m \in WorkerStates
    PROVE  /\ m.pc \in Carrying \cup {"alert"} => m.run \in Nat
           /\ m.pc \in {"due", "add"} => m.now \in Nat /\ m.cfg \in SettingsRow /\ m.kind \in {"BACKUP", "VERIFY"}
           /\ m.pc = "add" => m.slot \in Nat
           /\ m.pc \in {"dump", "check", "test", "upload", "list", "prune", "done"} => m.to \in Types \cup {None}
           /\ m.pc \in {"upload", "list", "prune", "done"} => m.stamp \in Nat
           /\ m.pc \in {"upload", "list", "prune"} => m.listing \in SUBSET Nat
           /\ m.pc = "alert" => m = [pc |-> "alert", run |-> m.run]
<1>1. CASE m \in [pc : {"idle", "claim", "down"}]
  BY <1>1 DEF Carrying
<1>2. CASE m \in Scheduling
  BY <1>2 DEF Scheduling, Carrying
<1>3. CASE m \in Adding
  BY <1>3 DEF Adding, Carrying
<1>4. CASE m \in Begun
  BY <1>4 DEF Begun, Carrying
<1>5. CASE m \in [pc : {"load", "fail", "alert"}, run : Nat]
  BY <1>5 DEF Carrying
<1>6. CASE m \in Storing
  BY <1>6 DEF Storing, Carrying
<1>7. CASE m \in Ended
  BY <1>7 DEF Ended, Carrying
<1> QED
  BY <1>1, <1>2, <1>3, <1>4, <1>5, <1>6, <1>7 DEF WorkerStates

\* What a worker holds stays true of it.
LEMMA ServesLater ==
    ASSUME BackupsIInv, Later, NEW m \in WorkerStates, Serves(m)
    PROVE  Serves(m)'
<1>1. /\ m.pc \in {"due", "add"} => m.now \in 1..time'
      /\ m.pc = "add" => m.slot \in 0..time'
  BY StateFields DEF Serves, Later, BackupsIInv, StoreSound
<1>2. /\ m.pc \in Carrying \cup {"alert"} => m.run \in RunIds'
      /\ m.pc \in {"dump", "upload", "list", "prune"} => runs'[m.run].kind = "BACKUP"
      /\ m.pc \in {"check", "test"} => runs'[m.run].kind # "BACKUP"
      /\ m.pc = "done" => (runs'[m.run].kind = "BACKUP" => dumps' # {})
  BY DEF Serves, Later, Carrying
<1>3. m.pc \in {"upload", "list", "prune", "done"} => m.stamp <= stamp'
  BY StateFields DEF Serves, Later, BackupsIInv, StoreSound
<1>4. m.pc = "prune" => m.listing \subseteq 1..stamp'
  <2> SUFFICES ASSUME m.pc = "prune", NEW x \in m.listing PROVE x \in 1..stamp'
    OBVIOUS
  <2>1. x \in 1..stamp
    BY DEF Serves
  <2> QED
    BY <2>1 DEF Later, BackupsIInv, StoreSound
<1> QED
  BY <1>1, <1>2, <1>3, <1>4 DEF Serves, Later

\* A worker moves on: it holds what it may, and as long as no two are alive
\* together, what is its own.
MovedTo(w, m) ==
    /\ worker' = [worker EXCEPT ![w] = m]
    /\ Serves(m)'
    /\ ~overlapped' => OwnsRun(m)'
    /\ ~overlapped' => \A v \in Workers \ {w} : worker[v].pc = "down"
    /\ crashes' = 0 => crashes = 0 /\ m.pc # "down"
Proceeds(w) == \E m \in WorkerStates : MovedTo(w, m)
WorkersSound == worker \in [Workers -> WorkerStates] /\ WorkersServe /\ OneWorkerUp /\ Alone

LEMMA WorkerMoves ==
    ASSUME BackupsIInv, Later, NEW w \in Workers, Proceeds(w)
    PROVE  WorkersSound'
<1>1. PICK m \in WorkerStates : MovedTo(w, m)
  BY DEF Proceeds
<1>2. worker' \in [Workers -> WorkerStates] /\ worker'[w] = m /\ \A v \in Workers \ {w} : worker'[v] = worker[v]
  BY <1>1 DEF MovedTo, BackupsIInv
<1>3. WorkersServe'
  <2>1. \A v \in Workers \ {w} : Serves(worker[v])'
    <3> SUFFICES ASSUME NEW v \in Workers \ {w} PROVE Serves(worker[v])'
      OBVIOUS
    <3>1. PICK n \in WorkerStates : n = worker[v]
      BY DEF BackupsIInv
    <3>2. worker'[v] = n
      BY <1>2, <3>1
    <3>3. Serves(n)
      BY <3>1 DEF BackupsIInv, WorkersServe
    <3>4. Serves(n)'
      BY <3>3, ServesLater
    <3> QED
      BY <3>2, <3>4
  <2>2. Serves(worker[w])'
    BY <1>1, <1>2 DEF MovedTo
  <2> QED
    BY <2>1, <2>2 DEF WorkersServe
<1>4. ~overlapped' => \A v \in Workers \ {w} : worker'[v].pc = "down"
  BY <1>1, <1>2 DEF MovedTo
<1>5. OneWorkerUp'
  <2>1. crashes' = 0 => worker'[FirstWorker].pc # "down"
    BY <1>1, <1>2, BackupsAssumption DEF MovedTo, BackupsIInv, OneWorkerUp
  <2>2. ~overlapped' => \A u, v \in Workers : worker'[u].pc # "down" /\ worker'[v].pc # "down" => u = v
    BY <1>4
  <2> QED
    BY <2>1, <2>2 DEF OneWorkerUp
<1>6. Alone'
  <2> SUFFICES ASSUME ~overlapped', NEW v \in Workers PROVE OwnsRun(worker[v])'
    BY DEF Alone
  <2>1. CASE v = w
    BY <1>1, <1>2, <2>1 DEF MovedTo
  <2>2. CASE v # w
    BY <1>4, <2>2 DEF OwnsRun, Carrying
  <2> QED
    BY <2>1, <2>2
<1> QED
  BY <1>2, <1>3, <1>5, <1>6 DEF WorkersSound

\* The workers stand still and nothing they hold is touched.
LEMMA WorkersRest ==
    ASSUME BackupsIInv, Later, UNCHANGED <<worker, bundles, crashes, overlapped>>,
           \A i \in RunIds : runs'[i] = runs[i]
    PROVE  WorkersSound'
<1>1. WorkersServe'
  <2> SUFFICES ASSUME NEW v \in Workers PROVE Serves(worker[v])'
    BY DEF WorkersServe
  <2>1. PICK n \in WorkerStates : n = worker[v]
    BY DEF BackupsIInv
  <2>2. Serves(n)'
    BY <2>1, ServesLater DEF BackupsIInv, WorkersServe
  <2> QED
    BY <2>1, <2>2
<1>2. OneWorkerUp'
  BY DEF BackupsIInv, OneWorkerUp
<1>3. Alone'
  <2> SUFFICES ASSUME ~overlapped', NEW v \in Workers PROVE OwnsRun(worker[v])'
    BY DEF Alone
  <2>1. PICK n \in WorkerStates : n = worker[v]
    BY DEF BackupsIInv
  <2>2. OwnsRun(n) /\ Serves(n)
    BY <2>1 DEF BackupsIInv, Alone, WorkersServe
  <2>3. n.pc \in Carrying => runs'[n.run].status = "RUNNING"
    BY <2>2 DEF OwnsRun, Serves
  <2>4. OwnsRun(n)'
    BY <2>2, <2>3 DEF OwnsRun, NoOlder
  <2> QED
    BY <2>1, <2>4
<1> QED
  BY <1>1, <1>2, <1>3 DEF WorkersSound, BackupsIInv

\* A worker that is up is the only one, unless two were alive together.
LEMMA UpAlone ==
    ASSUME BackupsIInv, NEW w \in Workers, worker[w].pc # "down", ~overlapped
    PROVE  \A v \in Workers \ {w} : worker[v].pc = "down"
BY DEF BackupsIInv, OneWorkerUp
-----------------------------------------------------------------------------
\* What a worker that moves on need not look at: it holds nothing of a run.
LEMMA FreeMoves ==
    ASSUME BackupsIInv, Later, NEW w \in Workers, worker[w].pc # "down", UNCHANGED <<overlapped, crashes>>,
           NEW m \in WorkerStates, m.pc \notin Carrying \cup {"alert", "down"},
           worker' = [worker EXCEPT ![w] = m],
           m.pc \in {"due", "add"} => m.now \in 1..time', m.pc = "add" => m.slot \in 0..time'
    PROVE  Proceeds(w)
<1>1. Serves(m)' /\ OwnsRun(m)'
  BY DEF Serves, OwnsRun, Carrying
<1>2. ~overlapped' => \A v \in Workers \ {w} : worker[v].pc = "down"
  BY UpAlone
<1> QED
  BY <1>1, <1>2 DEF Proceeds, MovedTo

\* It holds a run: what is to be shown of that.
LEMMA RunMoves ==
    ASSUME BackupsIInv, Later, NEW w \in Workers, worker[w].pc # "down", UNCHANGED <<overlapped, crashes>>,
           NEW m \in WorkerStates, m.pc # "down", worker' = [worker EXCEPT ![w] = m],
           Serves(m)', ~overlapped => OwnsRun(m)'
    PROVE  Proceeds(w)
<1>1. ~overlapped' => \A v \in Workers \ {w} : worker[v].pc = "down"
  BY UpAlone
<1> QED
  BY <1>1 DEF Proceeds, MovedTo

LEMMA LaterSame ==
    ASSUME BackupsIInv, UNCHANGED <<time, stamp, dumps, overlapped>>,
           RunIds \subseteq RunIds', \A i \in RunIds : runs'[i].kind = runs[i].kind
    PROVE  Later
BY DEF Later, BackupsIInv, StoreSound

LEMMA PollMoves == ASSUME BackupsIInv, NEW w \in Workers, Poll(w) PROVE Proceeds(w) /\ Later
<1>1. Later
  BY LaterSame DEF Poll, RunIds
<1>2. PICK m \in WorkerStates : /\ m.pc \in {"due", "claim"} /\ (m.pc = "due" => m.now = time)
                               /\ worker' = [worker EXCEPT ![w] = m]
  <2>1. CASE settings.enabled
    <3>1. [pc |-> "due", kind |-> "BACKUP", cfg |-> settings, now |-> time] \in WorkerStates
      BY DEF WorkerStates, Scheduling, BackupsIInv, SavesSound, FitsTogether, StoreSound
    <3> QED
      BY <2>1, <3>1 DEF Poll
  <2>2. CASE ~settings.enabled
    BY <2>2 DEF Poll, WorkerStates
  <2> QED
    BY <2>1, <2>2
<1>3. time' \in Nat \ {0} /\ time' = time
  BY DEF Poll, BackupsIInv, StoreSound
<1>4. m.pc \in {"due", "add"} => m.now \in 1..time'
  BY <1>2, <1>3
<1> QED
  BY <1>1, <1>2, <1>4, FreeMoves DEF Poll, Carrying

\* The slot that is due is the last one of its kind.
LEMMA LatestSlotType ==
    ASSUME NEW kind, NEW now \in Nat \ {0}
    PROVE  LatestSlot(kind, now) \in 0..now
<1>1. now % 2 \in 0..1 /\ (now + 1) % 2 \in 0..1
  OBVIOUS
<1> QED
  BY <1>1 DEF LatestSlot

LEMMA AfterKindType ==
    ASSUME BackupsIInv, NEW w \in Workers, worker[w].pc \in {"due", "add"}
    PROVE  /\ AfterKind(w) \in WorkerStates /\ AfterKind(w).pc \in {"due", "claim"}
           /\ AfterKind(w).pc = "due" => AfterKind(w).now \in 1..time
<1>1. worker[w] \in WorkerStates /\ worker[w].now \in 1..time /\ worker[w].cfg \in SettingsRow /\ worker[w].now \in Nat
  BY StateFields DEF BackupsIInv, WorkersServe, Serves
<1>2. CASE worker[w].kind = "BACKUP"
  BY <1>1, <1>2 DEF AfterKind, WorkerStates, Scheduling
<1>3. CASE worker[w].kind # "BACKUP"
  BY <1>3 DEF AfterKind, WorkerStates
<1> QED
  BY <1>2, <1>3

LEMMA FindDueMoves == ASSUME BackupsIInv, NEW w \in Workers, FindDue(w) PROVE Proceeds(w) /\ Later
<1>1. Later
  BY LaterSame DEF FindDue, RunIds
<1>2. PICK me \in WorkerStates : me = worker[w]
  BY DEF BackupsIInv
<1>3. me.pc = "due" /\ me.now \in 1..time /\ me.cfg \in SettingsRow /\ me.kind \in {"BACKUP", "VERIFY"} /\ time \in Nat
  BY <1>2, StateFields DEF FindDue, BackupsIInv, WorkersServe, Serves, StoreSound
<1>4. PICK due : due = DueSlots(me.kind, me.cfg, me.now)
  OBVIOUS
<1>5. CASE due = {}
  <2>1. worker' = [worker EXCEPT ![w] = AfterKind(w)]
    BY <1>2, <1>4, <1>5 DEF FindDue
  <2>2. PICK m \in WorkerStates : m = AfterKind(w)
    BY <1>2, <1>3, AfterKindType
  <2>3. m.pc \in {"due", "claim"} /\ (m.pc = "due" => m.now \in 1..time')
    BY <1>2, <1>3, <2>2, AfterKindType DEF FindDue
  <2> QED
    BY <1>1, <1>2, <1>3, <2>1, <2>2, <2>3, FreeMoves DEF FindDue, Carrying
<1>6. CASE due # {}
  <2>1. PICK slot : slot = CHOOSE x \in due : TRUE
    OBVIOUS
  <2>2. slot \in due
    BY <1>6, <2>1
  <2>3. slot \in 0..me.now
    BY <1>3, <1>4, <2>2, LatestSlotType DEF DueSlots
  <2>4. slot \in 0..time /\ slot \in Nat /\ me.now \in Nat
    BY <1>3, <2>3
  <2>5. PICK m : m = [pc |-> "add", kind |-> me.kind, cfg |-> me.cfg, now |-> me.now, slot |-> slot]
    OBVIOUS
  <2>6. m \in WorkerStates
    BY <1>3, <2>4, <2>5 DEF WorkerStates, Adding
  <2>7. worker' = [worker EXCEPT ![w] = m]
    BY <1>2, <1>4, <1>6, <2>1, <2>5 DEF FindDue
  <2>8. m.pc = "add" /\ m.now \in 1..time' /\ m.slot \in 0..time'
    BY <1>3, <2>4, <2>5 DEF FindDue
  <2> QED
    BY <1>1, <1>2, <1>3, <2>6, <2>7, <2>8, FreeMoves DEF FindDue, Carrying
<1> QED
  BY <1>5, <1>6
\* What the schedule adds is one more run, or nothing.
LEMMA AddDueAdds ==
    ASSUME BackupsIInv, NEW w \in Workers, AddDue(w)
    PROVE  \/ runs' = runs
           \/ \E row \in RunRow : /\ runs' = Append(runs, row) /\ row.status = "PENDING" /\ row.slot <= time
                                  /\ row.stamp = 0 /\ row.finished = 0
                                  /\ \A i \in RunIds : ~(runs[i].kind = row.kind /\ runs[i].slot = row.slot)
<1>1. PICK me \in WorkerStates : me = worker[w]
  BY DEF BackupsIInv
<1>2. me.kind \in Kinds /\ me.slot \in Nat /\ me.slot <= time
  BY <1>1, StateFields DEF AddDue, BackupsIInv, WorkersServe, Serves, Kinds, StoreSound
<1>3. CASE \E i \in RunIds : runs[i].kind = me.kind /\ runs[i].slot = me.slot
  BY <1>1, <1>3 DEF AddDue, Inserted
<1>4. CASE ~ \E i \in RunIds : runs[i].kind = me.kind /\ runs[i].slot = me.slot
  <2>1. PICK row \in RunRow : row = NewRun(me.kind, me.slot)
    BY <1>2, NewRunType
  <2>2. row.kind = me.kind /\ row.slot = me.slot /\ row.status = "PENDING" /\ row.stamp = 0 /\ row.finished = 0
    BY <1>2, <2>1, NewRunType
  <2>3. runs' = runs \/ runs' = Append(runs, row)
    BY <1>1, <1>4, <2>1 DEF AddDue, Inserted
  <2> QED
    BY <1>2, <1>4, <2>2, <2>3
<1> QED
  BY <1>3, <1>4

LEMMA AddDueMoves == ASSUME BackupsIInv, NEW w \in Workers, AddDue(w) PROVE Proceeds(w) /\ Later
<1>1. RunIds \subseteq RunIds' /\ \A i \in RunIds : runs'[i] = runs[i]
  <2>1. CASE runs' = runs
    BY <2>1 DEF RunIds
  <2>2. CASE runs' # runs
    <3>1. PICK row \in RunRow : runs' = Append(runs, row)
      BY <2>2, AddDueAdds
    <3> QED
      BY <3>1, RunAdded
  <2> QED
    BY <2>1, <2>2
<1>2. Later
  BY <1>1, LaterSame DEF AddDue
<1>3. worker[w].pc = "add" /\ UNCHANGED <<time, overlapped, crashes>> /\ worker' = [worker EXCEPT ![w] = AfterKind(w)]
  BY DEF AddDue
<1>4. PICK m \in WorkerStates : m = AfterKind(w)
  BY <1>3, AfterKindType
<1>5. m.pc \in {"due", "claim"} /\ (m.pc = "due" => m.now \in 1..time')
  BY <1>3, <1>4, AfterKindType
<1> QED
  BY <1>2, <1>3, <1>4, <1>5, FreeMoves DEF Carrying

LEMMA ClaimRunMoves == ASSUME BackupsIInv, NEW w \in Workers, ClaimRun(w) PROVE Proceeds(w) /\ Later
<1>u. worker[w].pc = "claim" /\ UNCHANGED <<time, stamp, dumps, bundles, overlapped, crashes>>
  BY DEF ClaimRun
<1>1. CASE Claimable = {}
  <2>1. runs' = runs /\ worker' = [worker EXCEPT ![w] = Idle]
    BY <1>1 DEF ClaimRun
  <2>2. Later
    BY <1>u, <2>1, LaterSame DEF RunIds
  <2>3. Idle \in WorkerStates /\ Idle.pc = "idle"
    BY DEF Idle, WorkerStates
  <2> QED
    BY <1>u, <2>1, <2>2, <2>3, FreeMoves DEF Carrying
<1>2. CASE Claimable # {}
  <2>1. PICK i : i = Min(Claimable)
    OBVIOUS
  <2>2. i \in Claimable /\ i \in RunIds /\ runs[i] \in RunRow /\ i \in Nat
    BY <1>2, <2>1, ClaimedIsPending, RunType DEF Claimable
  <2>3. PICK row : row = [runs[i] EXCEPT !.status = "RUNNING"]
    OBVIOUS
  <2>4. row \in RunRow /\ row.kind = runs[i].kind /\ row.status = "RUNNING"
    BY <2>2, <2>3 DEF RunRow
  <2>5. runs' = [runs EXCEPT ![i] = row] /\ worker' = [worker EXCEPT ![w] = [pc |-> "load", run |-> i]]
    BY <1>2, <2>1, <2>3 DEF ClaimRun
  <2>6. RunIds' = RunIds /\ runs'[i] = row /\ \A j \in RunIds \ {i} : runs'[j] = runs[j]
    BY <2>2, <2>4, <2>5, RunReplaced
  <2>7. Later
    BY <1>u, <2>4, <2>6, LaterSame
  <2>8. PICK m \in WorkerStates : m = [pc |-> "load", run |-> i]
    BY <2>2 DEF WorkerStates
  <2>9. m.pc = "load" /\ m.run = i
    BY <2>8
  <2>10. Serves(m)' /\ OwnsRun(m)'
    BY <2>2, <2>4, <2>6, <2>9 DEF Serves, OwnsRun, Carrying
  <2> QED
    BY <1>u, <2>5, <2>7, <2>8, <2>9, <2>10, RunMoves
<1> QED
  BY <1>1, <1>2

\* A worker gives up the run it holds.
LEMMA FailMoves ==
    ASSUME BackupsIInv, Later, NEW w \in Workers, worker[w].pc \in Carrying, Fails(w),
           UNCHANGED <<runs, overlapped, crashes>>
    PROVE  Proceeds(w)
<1>1. PICK me \in WorkerStates : me = worker[w]
  BY DEF BackupsIInv
<1>2. Serves(me) /\ (~overlapped => OwnsRun(me)) /\ me.pc \in Carrying /\ me.run \in Nat
  BY <1>1, StateFields DEF BackupsIInv, WorkersServe, Alone
<1>3. me.run \in RunIds /\ (~overlapped => runs[me.run].status = "RUNNING")
  BY <1>2 DEF Serves, OwnsRun
<1>4. PICK m \in WorkerStates : m = [pc |-> "fail", run |-> me.run]
  BY <1>2 DEF WorkerStates
<1>5. m.pc = "fail" /\ m.run = me.run /\ worker' = [worker EXCEPT ![w] = m]
  BY <1>1, <1>4 DEF Fails
<1>6. Serves(m)' /\ (~overlapped => OwnsRun(m)')
  BY <1>3, <1>5 DEF Serves, OwnsRun, Carrying, RunIds
<1>7. worker[w].pc # "down"
  BY DEF Carrying
<1> QED
  BY <1>5, <1>6, <1>7, RunMoves

\* What it holds is of the run it has claimed.
LEMMA HoldsRun ==
    ASSUME BackupsIInv, NEW w \in Workers, worker[w].pc \in Carrying
    PROVE  /\ worker[w] \in WorkerStates /\ Serves(worker[w]) /\ worker[w].pc # "down"
           /\ worker[w].run \in Nat /\ worker[w].run \in RunIds
           /\ runs[worker[w].run] \in RunRow
           /\ ~overlapped => OwnsRun(worker[w]) /\ runs[worker[w].run].status = "RUNNING"
<1>1. PICK me \in WorkerStates : me = worker[w]
  BY DEF BackupsIInv
<1>2. Serves(me) /\ (~overlapped => OwnsRun(me)) /\ me.pc \in Carrying /\ me.run \in Nat
  BY <1>1, StateFields DEF BackupsIInv, WorkersServe, Alone
<1>3. me.run \in RunIds /\ (~overlapped => runs[me.run].status = "RUNNING") /\ me.pc # "down"
  BY <1>2 DEF Serves, OwnsRun, Carrying
<1> QED
  BY <1>1, <1>2, <1>3, RunType

LEMMA LoadSettingsMoves == ASSUME BackupsIInv, NEW w \in Workers, LoadSettings(w) PROVE Proceeds(w) /\ Later
<1>u. worker[w].pc = "load" /\ UNCHANGED <<runs, time, stamp, dumps, bundles, overlapped, crashes>>
  BY DEF LoadSettings
<1>1. Later
  BY <1>u, LaterSame DEF RunIds
<1>2. PICK me \in WorkerStates : me = worker[w]
  BY DEF BackupsIInv
<1>3. me.run \in RunIds /\ me.run \in Nat /\ runs[me.run] \in RunRow /\ (~overlapped => runs[me.run].status = "RUNNING")
  BY <1>u, <1>2, HoldsRun DEF Carrying
<1>4. CASE Fails(w)
  BY <1>u, <1>1, <1>4, FailMoves DEF Carrying
<1>5. CASE ~Fails(w)
  <2>1. PICK pc : pc = CASE runs[me.run].kind = "BACKUP" -> "dump" [] runs[me.run].kind = "VERIFY" -> "check"
                         [] OTHER -> "test"
    OBVIOUS
  <2>2. pc \in {"dump", "check", "test"} /\ (pc = "dump" <=> runs[me.run].kind = "BACKUP")
    BY <2>1
  <2>3. PICK m : m = [pc |-> pc, run |-> me.run, to |-> settings.type]
    OBVIOUS
  <2>4. m \in WorkerStates /\ m.pc = pc /\ m.run = me.run
    BY <1>3, <2>2, <2>3 DEF WorkerStates, Begun, BackupsIInv, SavesSound, FitsTogether, SettingsRow
  <2>5. worker' = [worker EXCEPT ![w] = m]
    BY <1>2, <1>5, <2>1, <2>3 DEF LoadSettings, Fails
  <2>6. Serves(m)' /\ (~overlapped => OwnsRun(m)')
    BY <1>u, <1>3, <2>2, <2>4 DEF Serves, OwnsRun, Carrying, RunIds
  <2> QED
    BY <1>u, <1>1, <2>2, <2>4, <2>5, <2>6, RunMoves
<1> QED
  BY <1>4, <1>5
LEMMA DumpLocallyMoves == ASSUME BackupsIInv, NEW w \in Workers, DumpLocally(w) PROVE Proceeds(w) /\ Later
<1>u. /\ worker[w].pc = "dump" /\ UNCHANGED <<runs, time, bundles, overlapped, crashes>>
      /\ stamp' = stamp + 1 /\ stamp \in Nat /\ dumps \subseteq dumps' /\ time \in Nat
  BY DEF DumpLocally, BackupsIInv, StoreSound
<1>1. Later
  BY <1>u DEF Later, RunIds
<1>2. PICK me \in WorkerStates : me = worker[w]
  BY DEF BackupsIInv
<1>3. /\ me.run \in RunIds /\ me.run \in Nat /\ (~overlapped => runs[me.run].status = "RUNNING")
      /\ runs[me.run].kind = "BACKUP" /\ me.to \in Types \cup {None}
  BY <1>u, <1>2, HoldsRun, StateFields DEF Carrying, Serves
<1>4. CASE Fails(w)
  BY <1>u, <1>1, <1>4, FailMoves DEF Carrying
<1>5. CASE ~Fails(w)
  <2>1. PICK pc \in {"prune", "upload"} : pc = IF me.to = None THEN "prune" ELSE "upload"
    OBVIOUS
  <2>2. PICK n \in Nat : n = stamp'
    BY <1>u
  <2>3. PICK m : m = [pc |-> pc, run |-> me.run, to |-> me.to, stamp |-> n, listing |-> {}]
    OBVIOUS
  <2>4. m \in WorkerStates /\ m.pc = pc /\ m.run = me.run /\ m.to = me.to /\ m.stamp = n /\ m.listing = {}
    BY <1>3, <2>1, <2>2, <2>3 DEF WorkerStates, Storing
  <2>5. worker' = [worker EXCEPT ![w] = m] /\ stamp' \in dumps'
    BY <1>2, <1>5, <2>1, <2>2, <2>3 DEF DumpLocally
  <2>6. Serves(m)'
    <3>1. m.stamp <= stamp' /\ m.stamp # 0 /\ (m.pc = "upload" => m.to # None)
      BY <1>u, <2>1, <2>2, <2>4
    <3> QED
      BY <1>u, <1>3, <2>1, <2>4, <2>5, <3>1 DEF Serves, Carrying, RunIds
  <2>7. ~overlapped => OwnsRun(m)'
    <3>1. m.pc = "prune" => m.to = None
      BY <2>1, <2>4
    <3> QED
      BY <1>u, <1>3, <2>1, <2>4, <3>1 DEF OwnsRun, Carrying
  <2> QED
    BY <1>u, <1>1, <2>1, <2>4, <2>5, <2>6, <2>7, RunMoves
<1> QED
  BY <1>4, <1>5

\* Between the dump and the retention a run keeps what it holds.
LEMMA StoringMoves ==
    ASSUME BackupsIInv, Later, NEW w \in Workers, worker[w].pc \in {"upload", "list"},
           NEW pc \in {"list", "prune"}, NEW listing \in SUBSET (1..stamp),
           worker' = [worker EXCEPT ![w] = [[worker[w] EXCEPT !.pc = pc] EXCEPT !.listing = listing]],
           UNCHANGED <<runs, stamp, dumps, overlapped, crashes>>,
           pc = "prune" => listing = bundles'[worker[w].to] /\ worker[w].stamp \in listing
    PROVE  Proceeds(w)
<1>1. PICK me \in WorkerStates : me = worker[w]
  BY DEF BackupsIInv
<1>2. me \in Storing
  BY <1>1 DEF WorkerStates, Scheduling, Adding, Begun, Storing, Ended
<1>3. PICK m : m = [[me EXCEPT !.pc = pc] EXCEPT !.listing = listing]
  OBVIOUS
<1>4. stamp \in Nat /\ listing \in SUBSET Nat
  BY DEF BackupsIInv, StoreSound
<1>5. /\ m \in Storing /\ m.pc = pc /\ m.run = me.run /\ m.to = me.to
      /\ m.stamp = me.stamp /\ m.listing = listing
  BY <1>2, <1>3, <1>4 DEF Storing
<1>6. Serves(me) /\ me.pc \in {"upload", "list"} /\ worker' = [worker EXCEPT ![w] = m]
  BY <1>1, <1>3 DEF BackupsIInv, WorkersServe
<1>7. /\ me.run \in RunIds /\ runs[me.run].kind = "BACKUP" /\ dumps # {} /\ me.to # None
      /\ me.stamp <= stamp /\ me.stamp # 0
  BY <1>6 DEF Serves, Carrying
<1>8. m \in WorkerStates /\ m.pc # "down"
  BY <1>5 DEF WorkerStates
<1>9. Serves(m)'
  BY <1>5, <1>7, <1>8 DEF Serves, Carrying, RunIds
<1>10. ~overlapped => runs[me.run].status = "RUNNING"
  BY <1>1, <1>6, HoldsRun DEF Carrying
<1>11. ~overlapped => OwnsRun(m)'
  <2>1. pc = "prune" => m.listing = bundles'[m.to] /\ m.stamp \in m.listing
    BY <1>1, <1>5
  <2> QED
    BY <1>5, <1>10, <2>1 DEF OwnsRun, Carrying
<1> QED
  BY <1>6, <1>9, <1>11, <1>8, RunMoves

LEMMA UploadMoves == ASSUME BackupsIInv, NEW w \in Workers, Upload(w) PROVE Proceeds(w) /\ Later
<1>u. worker[w].pc = "upload" /\ UNCHANGED <<runs, time, stamp, dumps, overlapped, crashes>>
  BY DEF Upload
<1>1. Later
  BY <1>u, LaterSame DEF RunIds
<1>2. PICK me \in WorkerStates : me = worker[w]
  BY DEF BackupsIInv
<1>3. me \in Storing 
  BY <1>u, <1>2 DEF WorkerStates, Scheduling, Adding, Begun, Storing, Ended
<1>4. CASE Fails(w)
  BY <1>u, <1>1, <1>4, FailMoves DEF Carrying
<1>5. CASE ~Fails(w)
  <2>1. worker' = [worker EXCEPT ![w] = [me EXCEPT !.pc = "list"]]
    BY <1>2, <1>5 DEF Upload, BackupsIInv
  <2>2. PICK m : m = [me EXCEPT !.pc = "list"]
    OBVIOUS
  <2>3. m \in Storing /\ m.pc = "list" /\ m.run = me.run /\ m.to = me.to /\ m.stamp = me.stamp
    BY <1>3, <2>2 DEF Storing
  <2>4. Serves(me) /\ me.pc = "upload" /\ (~overlapped => runs[me.run].status = "RUNNING")
    BY <1>u, <1>2, HoldsRun DEF Carrying
  <2>5. m \in WorkerStates
    BY <2>3 DEF WorkerStates
  <2>6. Serves(m)' /\ (~overlapped => OwnsRun(m)')
    BY <1>u, <2>3, <2>4, <2>5 DEF Serves, OwnsRun, Carrying, RunIds
  <2> QED
    BY <1>u, <1>1, <2>1, <2>2, <2>3, <2>6, <2>5, RunMoves
<1> QED
  BY <1>4, <1>5

LEMMA ListUploadedMoves == ASSUME BackupsIInv, NEW w \in Workers, ListUploaded(w) PROVE Proceeds(w) /\ Later
<1>u. worker[w].pc = "list" /\ UNCHANGED <<runs, time, stamp, dumps, bundles, overlapped, crashes>>
  BY DEF ListUploaded
<1>1. Later
  BY <1>u, LaterSame DEF RunIds
<1>2. CASE Fails(w)
  BY <1>u, <1>1, <1>2, FailMoves DEF Carrying
<1>3. CASE ~Fails(w)
  <2>1. PICK me \in WorkerStates : me = worker[w]
    BY DEF BackupsIInv
  <2>2. Serves(me) /\ me.pc = "list" /\ me \in Storing
    BY <1>u, <2>1 DEF BackupsIInv, WorkersServe, WorkerStates, Scheduling, Adding, Begun, Storing, Ended
  <2>3. me.to \in Types
    BY <2>2 DEF Serves, Storing
  <2>4. PICK listing \in SUBSET (1..stamp) : listing = bundles[me.to]
    BY <2>3 DEF BackupsIInv, StoreSound
  <2>5. me.stamp \in listing
    BY <1>3, <2>1, <2>4 DEF ListUploaded
  <2>6. worker' = [worker EXCEPT ![w].pc = "prune", ![w].listing = listing]
    BY <1>3, <2>1, <2>4 DEF ListUploaded
  <2>7. worker' = [worker EXCEPT ![w] = [[worker[w] EXCEPT !.pc = "prune"] EXCEPT !.listing = listing]]
    BY <2>1, <2>2, <2>6 DEF BackupsIInv
  <2>8. listing = bundles'[worker[w].to] /\ worker[w].stamp \in listing
    BY <1>u, <2>1, <2>4, <2>5
  <2> QED
    BY <1>u, <1>1, <2>7, <2>8, StoringMoves
<1> QED
  BY <1>2, <1>3
\* What retention leaves: the newest of what was listed, and all that was not.
LEMMA PruneLeaves ==
    ASSUME BackupsIInv, NEW w \in Workers, Prune(w), NEW t \in Types, NEW n \in bundles[t],
           \/ t # worker[w].to \/ n \notin worker[w].listing \/ worker[w].listing \subseteq bundles[t]
    PROVE  NoOlder(t, n)'
<1>1. PICK me \in WorkerStates : me = worker[w]
  BY DEF BackupsIInv
<1>2. me.pc = "prune" /\ Serves(me) /\ me.listing \in SUBSET (1..stamp) /\ stamp \in Nat
  BY <1>1 DEF Prune, BackupsIInv, WorkersServe, Serves, StoreSound
<1>3. bundles[t] \in SUBSET (1..stamp)
  BY DEF BackupsIInv, StoreSound
<1>4. CASE t # me.to \/ me.to = None \/ n \notin me.listing
  <2>1. n \in bundles'[t]
    BY <1>1, <1>4 DEF Prune, BackupsIInv, StoreSound
  <2>2. n <= n
    BY <1>3
  <2> QED
    BY <2>1, <2>2 DEF NoOlder
<1>5. CASE t = me.to /\ me.to # None /\ n \in me.listing /\ me.listing \subseteq bundles[t]
  <2>1. PICK b \in Retained(me.listing) : n <= b
    <3>1. me.listing \in SUBSET (0..stamp)
      BY <1>2
    <3> QED
      BY <1>2, <1>5, <3>1, NewestRetained
  <2>2. b \in bundles[t]
    BY <1>5, <2>1 DEF Retained
  <2>3. PICK left : left = me.listing \ Retained(me.listing)
    OBVIOUS
  <2>4. b \notin left
    BY <2>1, <2>3
  <2>5. bundles'[t] = bundles[t] \ left
    <3>1. bundles' = [bundles EXCEPT ![me.to] = @ \ left]
      BY <1>1, <1>5, <2>3 DEF Prune
    <3> QED
      BY <1>5, <3>1 DEF BackupsIInv, StoreSound
  <2> QED
    BY <2>1, <2>2, <2>4, <2>5 DEF NoOlder
<1> QED
  BY <1>1, <1>4, <1>5

LEMMA PruneMoves == ASSUME BackupsIInv, NEW w \in Workers, Prune(w) PROVE Proceeds(w) /\ Later
<1>u. worker[w].pc = "prune" /\ UNCHANGED <<runs, time, stamp, overlapped, crashes>> /\ dumps' = Retained(dumps)
  BY DEF Prune
<1>1. dumps # {} => dumps' # {}
  <2> SUFFICES ASSUME NEW n \in dumps PROVE dumps' # {}
    OBVIOUS
  <2>1. stamp \in Nat /\ dumps \in SUBSET (0..stamp)
    BY DEF BackupsIInv, StoreSound
  <2> QED
    BY <1>u, <2>1, NewestRetained
<1>2. Later
  BY <1>u, <1>1 DEF Later, BackupsIInv, StoreSound, RunIds
<1>3. PICK me \in WorkerStates : me = worker[w]
  BY DEF BackupsIInv
<1>4. /\ Serves(me) /\ me.pc = "prune" /\ (~overlapped => OwnsRun(me))
      /\ me.run \in Nat /\ me.run \in RunIds /\ (~overlapped => runs[me.run].status = "RUNNING")
      /\ me.to \in Types \cup {None} /\ me.stamp \in Nat
  BY <1>u, <1>3, HoldsRun, StateFields DEF Carrying
<1>5. PICK m : m = [pc |-> "done", run |-> me.run, to |-> me.to, stamp |-> me.stamp]
  OBVIOUS
<1>6. m \in WorkerStates /\ m.pc = "done" /\ m.run = me.run /\ m.to = me.to /\ m.stamp = me.stamp
  BY <1>4, <1>5 DEF WorkerStates, Ended
<1>7. worker' = [worker EXCEPT ![w] = m]
  BY <1>3, <1>5 DEF Prune
<1>8. Serves(m)'
  <2>1. dumps' # {} /\ me.stamp <= stamp'
    BY <1>u, <1>1, <1>4 DEF Serves
  <2> QED
    BY <1>u, <1>4, <1>6, <2>1 DEF Serves, Carrying, RunIds
<1>9. ~overlapped => OwnsRun(m)'
  <2> SUFFICES ASSUME ~overlapped PROVE OwnsRun(m)'
    OBVIOUS
  <2>1. m.to # None => NoOlder(m.to, m.stamp)'
    <3> SUFFICES ASSUME m.to # None PROVE NoOlder(m.to, m.stamp)'
      OBVIOUS
    <3>1. me.to \in Types /\ me.listing \subseteq bundles[me.to] /\ me.stamp \in bundles[me.to]
      BY <1>4, <1>6 DEF OwnsRun
    <3>2. NoOlder(me.to, me.stamp)'
      BY <1>3, <3>1, PruneLeaves
    <3> QED
      BY <1>6, <3>2
  <2> QED
    BY <1>u, <1>4, <1>6, <2>1 DEF OwnsRun, Carrying
<1> QED
  BY <1>u, <1>2, <1>6, <1>7, <1>8, <1>9, RunMoves

\* A check or a test that ends well has nothing to record.
LEMMA EmptyDone ==
    ASSUME BackupsIInv, Later, NEW w \in Workers, worker[w].pc \in {"check", "test"},
           worker' = [worker EXCEPT ![w] = [pc |-> "done", run |-> worker[w].run, to |-> None, stamp |-> 0]],
           UNCHANGED <<runs, stamp, overlapped, crashes>>
    PROVE  Proceeds(w)
<1>1. PICK me \in WorkerStates : me = worker[w]
  BY DEF BackupsIInv
<1>2. /\ Serves(me) /\ me.pc \in {"check", "test"} /\ me.run \in RunIds /\ me.run \in Nat
      /\ (~overlapped => runs[me.run].status = "RUNNING") /\ runs[me.run].kind # "BACKUP"
  BY <1>1, HoldsRun DEF Carrying, Serves
<1>3. PICK m : m = [pc |-> "done", run |-> me.run, to |-> None, stamp |-> 0]
  OBVIOUS
<1>4. m \in WorkerStates /\ m.pc = "done" /\ m.run = me.run /\ m.to = None /\ m.stamp = 0
  BY <1>2, <1>3 DEF WorkerStates, Ended
<1>5. Serves(m)'
  <2>1. 0 <= stamp'
    BY DEF BackupsIInv, StoreSound
  <2> QED
    BY <1>2, <1>4, <2>1 DEF Serves, Carrying, RunIds
<1>6. ~overlapped => OwnsRun(m)'
  BY <1>2, <1>4 DEF OwnsRun, Carrying
<1>7. worker' = [worker EXCEPT ![w] = m] /\ worker[w].pc # "down"
  BY <1>1, <1>2, <1>3
<1> QED
  BY <1>4, <1>5, <1>6, <1>7, RunMoves

LEMMA RestoreCheckMoves == ASSUME BackupsIInv, NEW w \in Workers, RestoreCheck(w) PROVE Proceeds(w) /\ Later
<1>u. worker[w].pc = "check" /\ UNCHANGED <<runs, time, stamp, dumps, bundles, overlapped, crashes>>
  BY DEF RestoreCheck
<1>1. Later
  BY <1>u, LaterSame DEF RunIds
<1>2. CASE Fails(w)
  BY <1>u, <1>1, <1>2, FailMoves DEF Carrying
<1>3. CASE ~Fails(w)
  <2>1. worker' = [worker EXCEPT ![w] = [pc |-> "done", run |-> worker[w].run, to |-> None, stamp |-> 0]]
    BY <1>3 DEF RestoreCheck
  <2> QED
    BY <1>u, <1>1, <2>1, EmptyDone
<1> QED
  BY <1>2, <1>3

LEMMA TestDestinationMoves == ASSUME BackupsIInv, NEW w \in Workers, TestDestination(w) PROVE Proceeds(w) /\ Later
<1>u. worker[w].pc = "test" /\ UNCHANGED <<runs, time, stamp, dumps, bundles, overlapped, crashes>>
  BY DEF TestDestination
<1>1. Later
  BY <1>u, LaterSame DEF RunIds
<1>2. CASE Fails(w)
  BY <1>u, <1>1, <1>2, FailMoves DEF Carrying
<1>3. CASE ~Fails(w)
  <2>1. worker' = [worker EXCEPT ![w] = [pc |-> "done", run |-> worker[w].run, to |-> None, stamp |-> 0]]
    BY <1>3 DEF TestDestination
  <2> QED
    BY <1>u, <1>1, <2>1, EmptyDone
<1> QED
  BY <1>2, <1>3
-----------------------------------------------------------------------------
\* A worker settles its run: the one row is replaced.
LEMMA FinishRunWrites ==
    ASSUME BackupsIInv, NEW w \in Workers, FinishRun(w)
    PROVE  \E row \in RunRow :
              LET me == worker[w] IN
              /\ runs' = [runs EXCEPT ![me.run] = row]
              /\ me.run \in RunIds /\ me.pc \in Carrying
              /\ row.kind = runs[me.run].kind /\ row.slot = runs[me.run].slot
              /\ me.pc = "fail" => /\ row.status = "FAILED" /\ row.stamp = runs[me.run].stamp
                                   /\ row.finished = runs[me.run].finished
              /\ me.pc # "fail" => /\ me.pc = "done" /\ row.status = "SUCCEEDED" /\ row.uploaded = me.to
                                   /\ row.stamp = me.stamp /\ row.finished = finishes + 1
<1>1. PICK me \in WorkerStates : me = worker[w]
  BY DEF BackupsIInv
<1>2. me.pc \in {"done", "fail"} /\ me.run \in RunIds /\ runs[me.run] \in RunRow
  BY <1>1, HoldsRun DEF FinishRun, Carrying
<1>3. CASE me.pc = "fail"
  <2>1. PICK row : row = [runs[me.run] EXCEPT !.status = "FAILED"]
    OBVIOUS
  <2>2. /\ row \in RunRow /\ row.status = "FAILED" /\ row.kind = runs[me.run].kind /\ row.slot = runs[me.run].slot
        /\ row.stamp = runs[me.run].stamp /\ row.finished = runs[me.run].finished
    BY <1>2, <2>1 DEF RunRow, Settled
  <2>3. runs' = [runs EXCEPT ![me.run] = row]
    BY <1>1, <1>2, <1>3, <2>1 DEF FinishRun
  <2> QED
    BY <1>1, <1>2, <1>3, <2>2, <2>3 DEF Carrying
<1>4. CASE me.pc = "done"
  <2>1. me.to \in Types \cup {None} /\ me.stamp \in Nat /\ finishes' = finishes + 1 /\ finishes' \in Nat
    BY <1>4, StateFields DEF FinishRun, BackupsIInv, StoreSound
  <2>2. PICK one : one = [runs[me.run] EXCEPT !.status = "SUCCEEDED"]
    OBVIOUS
  <2>3. one \in RunRow /\ one.status = "SUCCEEDED" /\ one.kind = runs[me.run].kind /\ one.slot = runs[me.run].slot
    BY <1>2, <2>2 DEF RunRow, Settled
  <2>4. PICK two : two = [one EXCEPT !.uploaded = me.to]
    OBVIOUS
  <2>5. /\ two \in RunRow /\ two.uploaded = me.to /\ two.status = one.status /\ two.kind = one.kind
        /\ two.slot = one.slot
    BY <2>1, <2>3, <2>4 DEF RunRow
  <2>6. PICK three : three = [two EXCEPT !.stamp = me.stamp]
    OBVIOUS
  <2>7. /\ three \in RunRow /\ three.stamp = me.stamp /\ three.uploaded = two.uploaded /\ three.status = two.status
        /\ three.kind = two.kind /\ three.slot = two.slot
    BY <2>1, <2>5, <2>6 DEF RunRow
  <2>8. PICK row : row = [three EXCEPT !.finished = finishes']
    OBVIOUS
  <2>9. /\ row \in RunRow /\ row.finished = finishes' /\ row.stamp = three.stamp /\ row.uploaded = three.uploaded
        /\ row.status = three.status /\ row.kind = three.kind /\ row.slot = three.slot
    BY <2>1, <2>7, <2>8 DEF RunRow
  <2>10. row = [runs[me.run] EXCEPT !.status = "SUCCEEDED", !.uploaded = me.to, !.stamp = me.stamp, !.finished = finishes']
    BY <2>2, <2>4, <2>6, <2>8
  <2>11. runs' = [runs EXCEPT ![me.run] = row]
    BY <1>1, <1>2, <1>4, <2>10 DEF FinishRun
  <2> QED
    BY <1>1, <1>2, <1>4, <2>1, <2>3, <2>5, <2>7, <2>9, <2>11 DEF Carrying
<1> QED
  BY <1>2, <1>3, <1>4

LEMMA FinishRunMoves == ASSUME BackupsIInv, NEW w \in Workers, FinishRun(w) PROVE Proceeds(w) /\ Later
<1>u. worker[w].pc \in {"done", "fail"} /\ UNCHANGED <<time, stamp, dumps, overlapped, crashes>>
  BY DEF FinishRun
<1>1. PICK me \in WorkerStates : me = worker[w]
  BY DEF BackupsIInv
<1>2. me.run \in RunIds /\ me.run \in Nat /\ me.pc \in {"done", "fail"}
  BY <1>u, <1>1, HoldsRun DEF Carrying
<1>3. PICK row \in RunRow : runs' = [runs EXCEPT ![me.run] = row] /\ row.kind = runs[me.run].kind
  BY <1>1, FinishRunWrites
<1>4. RunIds' = RunIds /\ runs'[me.run] = row /\ \A i \in RunIds \ {me.run} : runs'[i] = runs[i]
  BY <1>2, <1>3, RunReplaced
<1>5. Later
  BY <1>u, <1>3, <1>4, LaterSame
<1>6. PICK pc \in {"alert", "claim"} : pc = IF me.pc = "fail" /\ Alerting(runs[me.run].kind) THEN "alert" ELSE "claim"
  OBVIOUS
<1>7. CASE pc = "claim"
  <2>1. PICK m \in WorkerStates : m = [pc |-> "claim"]
    BY DEF WorkerStates
  <2>2. worker' = [worker EXCEPT ![w] = m] /\ m.pc = "claim"
    BY <1>1, <1>6, <1>7, <2>1 DEF FinishRun
  <2> QED
    BY <1>u, <1>5, <2>2, FreeMoves DEF Carrying
<1>8. CASE pc = "alert"
  <2>1. PICK m \in WorkerStates : m = [pc |-> "alert", run |-> me.run]
    BY <1>2 DEF WorkerStates
  <2>2. worker' = [worker EXCEPT ![w] = m] /\ m.pc = "alert" /\ m.run = me.run
    BY <1>1, <1>6, <1>8, <2>1 DEF FinishRun
  <2>3. Serves(m)' /\ OwnsRun(m)'
    BY <1>2, <1>4, <2>2 DEF Serves, OwnsRun, Carrying
  <2> QED
    BY <1>u, <1>5, <2>2, <2>3, RunMoves
<1> QED
  BY <1>6, <1>7, <1>8

LEMMA AlertMoves == ASSUME BackupsIInv, NEW w \in Workers, RaiseFailureAlert(w) PROVE Proceeds(w) /\ Later
<1>1. Later
  BY LaterSame DEF RaiseFailureAlert, RunIds
<1>2. [pc |-> "claim"] \in WorkerStates
  BY DEF WorkerStates
<1> QED
  BY <1>1, <1>2, FreeMoves DEF RaiseFailureAlert, Carrying

LEMMA StopWorkerMoves == ASSUME BackupsIInv, NEW w \in Workers, StopWorker(w) PROVE Proceeds(w) /\ Later
<1>u. /\ worker[w].pc # "down" /\ worker' = [worker EXCEPT ![w] = Down] /\ crashes' = crashes + 1
      /\ UNCHANGED <<runs, time, stamp, dumps, overlapped>>
  BY DEF StopWorker
<1>1. Later
  BY <1>u, LaterSame DEF RunIds
<1>2. Down \in WorkerStates /\ Down.pc = "down"
  BY DEF Down, WorkerStates
<1>3. PICK m \in WorkerStates : m = Down
  BY <1>2
<1>4. Serves(m)' /\ OwnsRun(m)'
  BY <1>2, <1>3 DEF Serves, OwnsRun, Carrying
<1>5. crashes' # 0
  BY <1>u DEF BackupsIInv, StoreSound
<1>6. ~overlapped' => \A v \in Workers \ {w} : worker[v].pc = "down"
  BY <1>u, UpAlone
<1> QED
  BY <1>u, <1>1, <1>3, <1>4, <1>5, <1>6 DEF Proceeds, MovedTo

\* A worker that starts fails what is marked RUNNING, and touches nothing else.
LEMMA StartWorkerWrites ==
    ASSUME BackupsIInv, NEW w \in Workers, StartWorker(w)
    PROVE  /\ runs' \in Seq(RunRow) /\ RunIds' = RunIds
           /\ \A i \in RunIds :
                 \/ runs'[i] = runs[i]
                 \/ /\ runs[i].status = "RUNNING" /\ runs'[i].status = "FAILED"
                    /\ runs'[i].kind = runs[i].kind /\ runs'[i].slot = runs[i].slot
                    /\ runs'[i].stamp = runs[i].stamp /\ runs'[i].finished = runs[i].finished
<1>1. runs \in Seq(RunRow) /\ RunIds = 1..Len(runs) /\ Len(runs) \in Nat
  BY DEF BackupsIInv, RunsSound, RunIds
<1>2. runs' = [i \in RunIds |-> IF i \in Abandoned THEN [runs[i] EXCEPT !.status = "FAILED"] ELSE runs[i]]
  BY DEF StartWorker
<1>3. \A i \in RunIds : /\ runs'[i] \in RunRow
                        /\ \/ runs'[i] = runs[i]
                           \/ /\ runs[i].status = "RUNNING" /\ runs'[i].status = "FAILED"
                              /\ runs'[i].kind = runs[i].kind /\ runs'[i].slot = runs[i].slot
                              /\ runs'[i].stamp = runs[i].stamp /\ runs'[i].finished = runs[i].finished
  <2> SUFFICES ASSUME NEW i \in RunIds
               PROVE  /\ runs'[i] \in RunRow
                      /\ \/ runs'[i] = runs[i]
                         \/ /\ runs[i].status = "RUNNING" /\ runs'[i].status = "FAILED"
                            /\ runs'[i].kind = runs[i].kind /\ runs'[i].slot = runs[i].slot
                            /\ runs'[i].stamp = runs[i].stamp /\ runs'[i].finished = runs[i].finished
    OBVIOUS
  <2>1. PICK row \in RunRow : row = runs[i]
    BY RunType
  <2>2. CASE i \in Abandoned
    BY <1>2, <2>1, <2>2 DEF Abandoned, RunRow, Settled
  <2>3. CASE i \notin Abandoned
    BY <1>2, <2>1, <2>3
  <2> QED
    BY <2>2, <2>3
<1>4. runs' \in [1..Len(runs) -> RunRow]
  <2> HIDE DEF RunRow
  <2> QED
    BY <1>1, <1>2, <1>3
<1>5. runs' \in Seq(RunRow) /\ Len(runs') = Len(runs)
  <2> HIDE DEF RunRow
  <2> QED
    BY <1>1, <1>4
<1>6. RunIds' = RunIds
  BY <1>2 DEF RunIds
<1> QED
  BY <1>3, <1>5, <1>6

LEMMA StartWorkerMoves == ASSUME BackupsIInv, NEW w \in Workers, StartWorker(w) PROVE Proceeds(w) /\ Later
<1>u. /\ worker[w].pc = "down" /\ worker' = [worker EXCEPT ![w] = Idle]
      /\ overlapped' = (overlapped \/ \E v \in Workers \ {w} : worker[v].pc # "down")
      /\ UNCHANGED <<time, stamp, dumps, crashes>>
  BY DEF StartWorker
<1>1. RunIds' = RunIds /\ \A i \in RunIds : runs'[i].kind = runs[i].kind
  BY StartWorkerWrites
<1>2. Later
  BY <1>u, <1>1 DEF Later, BackupsIInv, StoreSound
<1>3. PICK m \in WorkerStates : m = Idle
  BY DEF Idle, WorkerStates
<1>4. m.pc = "idle"
  BY <1>3 DEF Idle
<1>5. Serves(m)' /\ OwnsRun(m)'
  BY <1>4 DEF Serves, OwnsRun, Carrying
<1> QED
  BY <1>u, <1>2, <1>3, <1>4, <1>5 DEF Proceeds, MovedTo
-----------------------------------------------------------------------------
\* Steps that are no worker's.
LEMMA SavesMove == ASSUME BackupsIInv, NEW r \in Savers, SaveSettings(r) PROVE WorkersSound' /\ Later
<1>1. UNCHANGED <<runs, time, worker, dumps, bundles, alerted, stamp, finishes, overlapped, crashes>>
  BY DEF SaveSettings, ReadForSave, WriteSettings
<1>2. Later
  BY <1>1, LaterSame DEF RunIds
<1>3. \A i \in RunIds : runs'[i] = runs[i]
  BY <1>1
<1> QED
  BY <1>1, <1>2, <1>3, WorkersRest

LEMMA RequestMoves == ASSUME BackupsIInv, NEW kind \in Kinds, RequestRun(kind) PROVE WorkersSound' /\ Later
<1>1. UNCHANGED <<time, worker, dumps, bundles, stamp, overlapped, crashes>> /\ runs' = Append(runs, NewRun(kind, 0))
  BY DEF RequestRun
<1>2. PICK row \in RunRow : row = NewRun(kind, 0)
  BY NewRunType
<1>3. RunIds \subseteq RunIds' /\ \A i \in RunIds : runs'[i] = runs[i]
  BY <1>1, <1>2, RunAdded
<1>4. Later
  BY <1>1, <1>3, LaterSame
<1> QED
  BY <1>1, <1>3, <1>4, WorkersRest

LEMMA ClockMoves == ASSUME BackupsIInv, BackupClock PROVE WorkersSound' /\ Later
<1>1. /\ UNCHANGED <<runs, worker, dumps, bundles, stamp, overlapped, crashes>> /\ time' = time + 1
      /\ time \in Nat /\ stamp \in Nat
  BY DEF BackupClock, BackupsIInv, StoreSound
<1>2. Later
  BY <1>1 DEF Later, RunIds
<1>3. \A i \in RunIds : runs'[i] = runs[i]
  BY <1>1
<1> QED
  BY <1>1, <1>2, <1>3, WorkersRest

LEMMA WorkersStep == ASSUME BackupsIInv, BackupNext PROVE WorkersSound' /\ Later
<1>1. CASE \E r \in Savers : SaveSettings(r)
  BY <1>1, SavesMove
<1>2. CASE \E kind \in Kinds : RequestRun(kind)
  BY <1>2, RequestMoves
<1>3. ASSUME NEW w \in Workers, WorkerStep(w) \/ StartWorker(w) \/ StopWorker(w) PROVE Proceeds(w) /\ Later
  <2>1. CASE Poll(w)
    BY <2>1, PollMoves
  <2>2. CASE FindDue(w)
    BY <2>2, FindDueMoves
  <2>3. CASE AddDue(w)
    BY <2>3, AddDueMoves
  <2>4. CASE ClaimRun(w)
    BY <2>4, ClaimRunMoves
  <2>5. CASE LoadSettings(w)
    BY <2>5, LoadSettingsMoves
  <2>6. CASE DumpLocally(w)
    BY <2>6, DumpLocallyMoves
  <2>7. CASE Upload(w)
    BY <2>7, UploadMoves
  <2>8. CASE ListUploaded(w)
    BY <2>8, ListUploadedMoves
  <2>9. CASE Prune(w)
    BY <2>9, PruneMoves
  <2>10. CASE RestoreCheck(w)
    BY <2>10, RestoreCheckMoves
  <2>11. CASE TestDestination(w)
    BY <2>11, TestDestinationMoves
  <2>12. CASE FinishRun(w)
    BY <2>12, FinishRunMoves
  <2>13. CASE RaiseFailureAlert(w)
    BY <2>13, AlertMoves
  <2>14. CASE StartWorker(w)
    BY <2>14, StartWorkerMoves
  <2>15. CASE StopWorker(w)
    BY <2>15, StopWorkerMoves
  <2> QED
    BY <1>3, <2>1, <2>2, <2>3, <2>4, <2>5, <2>6, <2>7, <2>8, <2>9, <2>10, <2>11, <2>12, <2>13, <2>14, <2>15
       DEF WorkerStep, CarryOut
<1>4. CASE BackupClock
  BY <1>4, ClockMoves
<1> QED
  BY <1>1, <1>2, <1>3, <1>4, WorkerMoves DEF BackupNext

\* Which steps may change what.
LEMMA Untouched ==
    ASSUME BackupNext
    PROVE  /\ \/ UNCHANGED <<settings, saver>>
              \/ \E r \in Savers : ReadForSave(r) \/ \E entry \in Form : WriteSettings(r, entry)
           /\ \/ runs' = runs
              \/ \E kind \in Kinds : RequestRun(kind)
              \/ \E w \in Workers : AddDue(w) \/ (ClaimRun(w) /\ Claimable # {}) \/ FinishRun(w) \/ StartWorker(w)
           /\ dumps' = dumps \/ \E w \in Workers : DumpLocally(w) \/ Prune(w)
           /\ bundles' = bundles \/ \E w \in Workers : Upload(w) \/ Prune(w)
           /\ alerted' = alerted \/ \E w \in Workers : RaiseFailureAlert(w)
           /\ finishes' = finishes \/ \E w \in Workers : FinishRun(w)
           /\ overlapped' = overlapped \/ \E w \in Workers : StartWorker(w)
           /\ crashes' = crashes \/ \E w \in Workers : StopWorker(w)
           /\ worker' = worker \/ \E w \in Workers : WorkerStep(w) \/ StartWorker(w) \/ StopWorker(w)
<1> DEFINE Still == UNCHANGED <<settings, saver, dumps, bundles, alerted, finishes, overlapped, crashes>>
<1>1. ASSUME NEW w \in Workers, Poll(w) \/ FindDue(w) PROVE Still /\ runs' = runs
  BY <1>1 DEF Poll, FindDue
<1>2. ASSUME NEW w \in Workers, AddDue(w) PROVE Still
  BY <1>2 DEF AddDue
<1>3. ASSUME NEW w \in Workers, ClaimRun(w) PROVE Still /\ (runs' = runs \/ Claimable # {})
  BY <1>3 DEF ClaimRun
<1>4. ASSUME NEW w \in Workers, LoadSettings(w) \/ ListUploaded(w) \/ RestoreCheck(w) \/ TestDestination(w)
      PROVE  Still /\ runs' = runs
  BY <1>4 DEF LoadSettings, ListUploaded, RestoreCheck, TestDestination
<1>5. ASSUME NEW w \in Workers, DumpLocally(w)
      PROVE  UNCHANGED <<runs, settings, saver, bundles, alerted, finishes, overlapped, crashes>>
  BY <1>5 DEF DumpLocally
<1>6. ASSUME NEW w \in Workers, Upload(w)
      PROVE  UNCHANGED <<runs, settings, saver, dumps, alerted, finishes, overlapped, crashes>>
  BY <1>6 DEF Upload
<1>7. ASSUME NEW w \in Workers, Prune(w)
      PROVE  UNCHANGED <<runs, settings, saver, alerted, finishes, overlapped, crashes>>
  BY <1>7 DEF Prune
<1>8. ASSUME NEW w \in Workers, FinishRun(w)
      PROVE  UNCHANGED <<settings, saver, dumps, bundles, alerted, overlapped, crashes>>
  BY <1>8 DEF FinishRun
<1>9. ASSUME NEW w \in Workers, RaiseFailureAlert(w)
      PROVE  UNCHANGED <<runs, settings, saver, dumps, bundles, finishes, overlapped, crashes>>
  BY <1>9 DEF RaiseFailureAlert
<1>10. ASSUME NEW w \in Workers, StartWorker(w)
       PROVE  UNCHANGED <<settings, saver, dumps, bundles, alerted, finishes, crashes>>
  BY <1>10 DEF StartWorker
<1>11. ASSUME NEW w \in Workers, StopWorker(w)
       PROVE  UNCHANGED <<runs, settings, saver, dumps, bundles, alerted, finishes, overlapped>>
  BY <1>11 DEF StopWorker
<1>12. ASSUME NEW r \in Savers, ReadForSave(r) \/ \E entry \in Form : WriteSettings(r, entry)
       PROVE  UNCHANGED <<runs, worker, dumps, bundles, alerted, finishes, overlapped, crashes>>
  BY <1>12 DEF ReadForSave, WriteSettings
<1>13. ASSUME NEW kind \in Kinds, RequestRun(kind) PROVE Still /\ worker' = worker
  BY <1>13 DEF RequestRun
<1>14. ASSUME BackupClock PROVE Still /\ UNCHANGED <<runs, worker>>
  BY <1>14 DEF BackupClock
<1>15. CASE \E r \in Savers : SaveSettings(r)
  BY <1>12, <1>15 DEF SaveSettings
<1>16. CASE \E kind \in Kinds : RequestRun(kind)
  BY <1>13, <1>16
<1>17. CASE \E w \in Workers : WorkerStep(w) \/ StartWorker(w) \/ StopWorker(w)
  <2>1. PICK w \in Workers : WorkerStep(w) \/ StartWorker(w) \/ StopWorker(w)
    BY <1>17
  <2>2. CASE Poll(w) \/ FindDue(w) \/ AddDue(w) \/ ClaimRun(w)
    BY <1>1, <1>2, <1>3, <2>1, <2>2
  <2>3. CASE LoadSettings(w) \/ ListUploaded(w) \/ RestoreCheck(w) \/ TestDestination(w)
    BY <1>4, <2>1, <2>3
  <2>4. CASE DumpLocally(w) \/ Upload(w) \/ Prune(w)
    BY <1>5, <1>6, <1>7, <2>1, <2>4
  <2>5. CASE FinishRun(w) \/ RaiseFailureAlert(w)
    BY <1>8, <1>9, <2>1, <2>5
  <2>6. CASE StartWorker(w) \/ StopWorker(w)
    BY <1>10, <1>11, <2>1, <2>6
  <2> QED
    BY <2>1, <2>2, <2>3, <2>4, <2>5, <2>6 DEF WorkerStep, CarryOut
<1>18. CASE BackupClock
  BY <1>14, <1>18
<1> QED
  BY <1>15, <1>16, <1>17, <1>18 DEF BackupNext

\* What a step may do to a row.
Arrives(i) ==
    /\ i \notin RunIds /\ \A j \in RunIds' : j \in RunIds \/ j = i
    /\ runs'[i].status = "PENDING" /\ runs'[i].slot <= time /\ runs'[i].stamp = 0 /\ runs'[i].finished = 0
    /\ runs'[i].slot = 0 \/ \A j \in RunIds : ~(runs[j].kind = runs'[i].kind /\ runs[j].slot = runs'[i].slot)
Keeps(i) == /\ i \in RunIds /\ runs'[i].kind = runs[i].kind /\ runs'[i].slot = runs[i].slot
Claims(i) == /\ Keeps(i) /\ runs'[i].stamp = runs[i].stamp /\ runs'[i].finished = runs[i].finished
             /\ runs[i].status = "PENDING" /\ runs'[i].status = "RUNNING"
Abandons(i) == /\ Keeps(i) /\ runs'[i].stamp = runs[i].stamp /\ runs'[i].finished = runs[i].finished
               /\ runs[i].status = "RUNNING" /\ runs'[i].status = "FAILED"
               /\ \E w \in Workers : StartWorker(w)
FailsIt(i, w) == /\ worker[w].pc = "fail" /\ runs'[i].status = "FAILED"
                /\ runs'[i].stamp = runs[i].stamp /\ runs'[i].finished = runs[i].finished
EndsWell(i, w) == /\ worker[w].pc = "done" /\ runs'[i].status = "SUCCEEDED" /\ runs'[i].uploaded = worker[w].to
                  /\ runs'[i].stamp = worker[w].stamp /\ runs'[i].finished = finishes + 1
Ends(i) == Keeps(i) /\ \E w \in Workers : /\ FinishRun(w) /\ i = worker[w].run
                                          /\ FailsIt(i, w) \/ EndsWell(i, w)
Stays(i) == i \in RunIds /\ runs'[i] = runs[i]
RunsMove == /\ runs' \in Seq(RunRow) /\ RunIds \subseteq RunIds'
            /\ \A i \in RunIds' : Stays(i) \/ Arrives(i) \/ Claims(i) \/ Abandons(i) \/ Ends(i)

LEMMA ArrivalMoves ==
    ASSUME BackupsIInv, NEW row \in RunRow, runs' = Append(runs, row),
           row.status = "PENDING", row.slot <= time, row.stamp = 0, row.finished = 0,
           row.slot = 0 \/ \A i \in RunIds : ~(runs[i].kind = row.kind /\ runs[i].slot = row.slot)
    PROVE  RunsMove
<1>1. /\ runs' \in Seq(RunRow) /\ RunIds \subseteq RunIds' /\ \A i \in RunIds : runs'[i] = runs[i]
      /\ \A i \in RunIds' : i \in RunIds \/ (i = Len(runs) + 1 /\ runs'[i] = row)
  BY RunAdded
<1>2. ASSUME NEW i \in RunIds', i \notin RunIds PROVE Arrives(i)
  BY <1>1, <1>2 DEF Arrives
<1> QED
  BY <1>1, <1>2 DEF RunsMove, Stays

LEMMA SameRunsMove == ASSUME BackupsIInv, runs' = runs PROVE RunsMove
<1>1. runs' \in Seq(RunRow) /\ RunIds' = RunIds
  BY DEF BackupsIInv, RunsSound, RunIds
<1> QED
  BY <1>1 DEF RunsMove, Stays

LEMMA RunsStep == ASSUME BackupsIInv, BackupNext PROVE RunsMove
<1>1. CASE runs' = runs
  BY <1>1, SameRunsMove
<1>2. ASSUME NEW kind \in Kinds, RequestRun(kind) PROVE RunsMove
  <2>1. PICK row \in RunRow : row = NewRun(kind, 0)
    BY NewRunType
  <2>2. row.status = "PENDING" /\ row.slot = 0 /\ row.stamp = 0 /\ row.finished = 0
    BY <2>1, NewRunType
  <2>3. runs' = Append(runs, row) /\ 0 <= time
    BY <1>2, <2>1 DEF RequestRun, BackupsIInv, StoreSound
  <2> QED
    BY <2>2, <2>3, ArrivalMoves
<1>3. ASSUME NEW w \in Workers, AddDue(w) PROVE RunsMove
  <2>1. CASE runs' = runs
    BY <2>1, SameRunsMove
  <2>2. CASE runs' # runs
    BY <1>3, <2>2, AddDueAdds, ArrivalMoves
  <2> QED
    BY <2>1, <2>2
<1>4. ASSUME NEW w \in Workers, ClaimRun(w), Claimable # {} PROVE RunsMove
  <2>1. PICK i : i = Min(Claimable)
    OBVIOUS
  <2>2. i \in RunIds /\ runs[i] \in RunRow /\ runs[i].status = "PENDING"
    BY <1>4, <2>1, ClaimedIsPending, RunType DEF Claimable
  <2>3. PICK row : row = [runs[i] EXCEPT !.status = "RUNNING"]
    OBVIOUS
  <2>4. /\ row \in RunRow /\ row.kind = runs[i].kind /\ row.slot = runs[i].slot /\ row.status = "RUNNING"
        /\ row.stamp = runs[i].stamp /\ row.finished = runs[i].finished
    BY <2>2, <2>3 DEF RunRow
  <2>5. runs' = [runs EXCEPT ![i] = row]
    BY <1>4, <2>1, <2>3 DEF ClaimRun
  <2>6. runs' \in Seq(RunRow) /\ RunIds' = RunIds /\ runs'[i] = row /\ \A j \in RunIds \ {i} : runs'[j] = runs[j]
    BY <2>2, <2>4, <2>5, RunReplaced
  <2>7. Claims(i)
    BY <2>2, <2>4, <2>6 DEF Claims, Keeps
  <2> QED
    BY <2>6, <2>7 DEF RunsMove, Stays
<1>5. ASSUME NEW w \in Workers, FinishRun(w) PROVE RunsMove
  <2>1. PICK me : me = worker[w]
    OBVIOUS
  <2>2. PICK row \in RunRow :
           /\ runs' = [runs EXCEPT ![me.run] = row] /\ me.run \in RunIds
           /\ row.kind = runs[me.run].kind /\ row.slot = runs[me.run].slot
           /\ me.pc = "fail" => /\ row.status = "FAILED" /\ row.stamp = runs[me.run].stamp
                                /\ row.finished = runs[me.run].finished
           /\ me.pc # "fail" => /\ me.pc = "done" /\ row.status = "SUCCEEDED" /\ row.uploaded = me.to
                                /\ row.stamp = me.stamp /\ row.finished = finishes + 1
    BY <1>5, <2>1, FinishRunWrites
  <2>3. runs' \in Seq(RunRow) /\ RunIds' = RunIds /\ runs'[me.run] = row /\ \A j \in RunIds \ {me.run} : runs'[j] = runs[j]
    BY <2>2, RunReplaced
  <2>4. Ends(me.run)
    <3>1. Keeps(me.run)
      BY <2>2, <2>3 DEF Keeps
    <3>2. FailsIt(me.run, w) \/ EndsWell(me.run, w)
      BY <2>1, <2>2, <2>3 DEF FailsIt, EndsWell
    <3> QED
      BY <1>5, <2>1, <3>1, <3>2 DEF Ends
  <2> QED
    BY <2>3, <2>4 DEF RunsMove, Stays
<1>6. ASSUME NEW w \in Workers, StartWorker(w) PROVE RunsMove
  <2>1. /\ runs' \in Seq(RunRow) /\ RunIds' = RunIds
        /\ \A i \in RunIds :
                 \/ runs'[i] = runs[i]
                 \/ /\ runs[i].status = "RUNNING" /\ runs'[i].status = "FAILED"
                    /\ runs'[i].kind = runs[i].kind /\ runs'[i].slot = runs[i].slot
                    /\ runs'[i].stamp = runs[i].stamp /\ runs'[i].finished = runs[i].finished
    BY <1>6, StartWorkerWrites
  <2>2. ASSUME NEW i \in RunIds PROVE Stays(i) \/ Abandons(i)
    BY <1>6, <2>1 DEF Stays, Abandons, Keeps
  <2> QED
    BY <2>1, <2>2 DEF RunsMove
<1> QED
  BY <1>1, <1>2, <1>3, <1>4, <1>5, <1>6, Untouched
-----------------------------------------------------------------------------
\* The secrets that are saved are of the destination that is saved: those that
\* were typed, or those of the row as read if its destination is the same.
LEMMA WriteFits ==
    ASSUME BackupsIInv, NEW r \in Savers, NEW entry \in Form, WriteSettings(r, entry)
    PROVE  FitsTogether(settings)' /\ saver' = [saver EXCEPT ![r] = [pc |-> "idle"]]
<1>u. time' = time /\ time \in Nat /\ saver[r].pc = "write" /\ saver' = [saver EXCEPT ![r] = [pc |-> "idle"]]
  BY DEF WriteSettings, BackupsIInv, StoreSound
<1>1. PICK existing \in SettingsRow : existing = saver[r].existing
  BY <1>u DEF BackupsIInv, SavesSound
<1>2. existing.since <= time /\ existing.type = existing.creds
  BY <1>u, <1>1 DEF BackupsIInv, SavesSound, FitsTogether
<1>3. PICK enabled \in BOOLEAN, type \in Types \cup {None}, typed \in BOOLEAN, key \in BOOLEAN :
         enabled = entry.enabled /\ type = entry.type /\ typed = entry.typed /\ key = entry.key
  BY DEF Form
<1>4. PICK creds : creds = IF type = None THEN None ELSE MergedCredentials(existing, type, typed)
  OBVIOUS
<1>5. PICK since : since = CASE ~enabled -> 0 [] enabled /\ existing.enabled -> existing.since [] OTHER -> time
  OBVIOUS
<1>6. settings' = IF FormAccepted(type, creds, key)
                  THEN [enabled |-> enabled, type |-> type, creds |-> creds, key |-> key, since |-> since]
                  ELSE settings
  BY <1>1, <1>3, <1>4, <1>5 DEF WriteSettings
<1>7. since \in Nat /\ since <= time
  <2>1. since = 0 \/ since = existing.since \/ since = time
    BY <1>5
  <2>2. existing.since \in Nat
    BY DEF SettingsRow
  <2> QED
    BY <1>u, <1>2, <2>1, <2>2
<1>8. FitsTogether(settings)
  BY DEF BackupsIInv, SavesSound
<1>9. CASE FormAccepted(type, creds, key)
  <2>1. creds \in {type, None}
    BY <1>2, <1>4 DEF MergedCredentials, StoredCredentials
  <2>2. creds = type /\ (type # None => key)
    BY <1>9, <2>1 DEF FormAccepted
  <2>3. PICK row : row = [enabled |-> enabled, type |-> type, creds |-> creds, key |-> key, since |-> since]
    OBVIOUS
  <2>4. row \in SettingsRow /\ row.since = since /\ row.type = type /\ row.creds = creds /\ row.key = key
    BY <1>7, <2>2, <2>3 DEF SettingsRow
  <2>5. settings' = row
    BY <1>6, <1>9, <2>3
  <2> QED
    BY <1>u, <1>7, <2>2, <2>4, <2>5 DEF FitsTogether
<1>10. CASE ~FormAccepted(type, creds, key)
  BY <1>u, <1>6, <1>8, <1>10 DEF FitsTogether
<1> QED
  BY <1>u, <1>9, <1>10

LEMMA SavesStep == ASSUME BackupsIInv, BackupNext, Later PROVE SavesSound'
<1>1. FitsTogether(settings) /\ time \in Nat /\ time <= time' /\ time' \in Nat
  BY DEF BackupsIInv, SavesSound, Later, StoreSound
<1>2. \A row \in SettingsRow : FitsTogether(row) => FitsTogether(row)'
  BY <1>1 DEF FitsTogether, SettingsRow
<1>3. CASE UNCHANGED <<settings, saver>>
  <2>1. settings \in SettingsRow /\ \A r \in Savers : saver[r].pc = "write" => saver[r].existing \in SettingsRow
    BY DEF BackupsIInv, SavesSound, FitsTogether
  <2> HIDE DEF SettingsRow
  <2> QED
    BY <1>2, <1>3, <2>1 DEF BackupsIInv, SavesSound
<1>4. ASSUME NEW r \in Savers, ReadForSave(r) PROVE SavesSound'
  <2>1. PICK row \in SettingsRow : row = settings
    BY <1>1 DEF FitsTogether
  <2>2. settings' = row /\ saver' = [saver EXCEPT ![r] = [pc |-> "write", existing |-> row]]
    BY <1>4, <2>1 DEF ReadForSave
  <2>3. saver' \in [Savers -> [pc : {"idle"}] \cup [pc : {"write"}, existing : SettingsRow]]
    BY <2>2 DEF BackupsIInv, SavesSound
  <2>4. FitsTogether(row)'
    BY <1>1, <1>2, <2>1
  <2>5. \A q \in Savers : saver'[q].pc = "write" => FitsTogether(saver[q].existing)'
    <3> SUFFICES ASSUME NEW q \in Savers, saver'[q].pc = "write" PROVE FitsTogether(saver[q].existing)'
      OBVIOUS
    <3>1. CASE q = r
      <4>1. saver'[q].existing = row
        BY <2>2, <3>1 DEF BackupsIInv, SavesSound
      <4> QED
        BY <2>4, <4>1
    <3>2. CASE q # r
      <4>1. saver'[q] = saver[q]
        BY <2>2, <3>2 DEF BackupsIInv, SavesSound
      <4>2. PICK old \in SettingsRow : old = saver[q].existing /\ FitsTogether(old)
        BY <4>1 DEF BackupsIInv, SavesSound, FitsTogether
      <4> QED
        BY <1>2, <4>1, <4>2
    <3> QED
      BY <3>1, <3>2
  <2> QED
    BY <2>2, <2>3, <2>4, <2>5 DEF SavesSound
<1>5. ASSUME NEW r \in Savers, NEW entry \in Form, WriteSettings(r, entry) PROVE SavesSound'
  <2>1. FitsTogether(settings)' /\ saver' = [saver EXCEPT ![r] = [pc |-> "idle"]]
    BY <1>5, WriteFits
  <2>2. saver' \in [Savers -> [pc : {"idle"}] \cup [pc : {"write"}, existing : SettingsRow]]
    BY <2>1 DEF BackupsIInv, SavesSound
  <2>3. \A q \in Savers : saver'[q].pc = "write" => FitsTogether(saver[q].existing)'
    <3> SUFFICES ASSUME NEW q \in Savers, saver'[q].pc = "write" PROVE FitsTogether(saver[q].existing)'
      OBVIOUS
    <3>1. saver'[q] = saver[q]
      BY <2>1 DEF BackupsIInv, SavesSound
    <3>2. PICK old \in SettingsRow : old = saver[q].existing /\ FitsTogether(old)
      BY <3>1 DEF BackupsIInv, SavesSound, FitsTogether
    <3> QED
      BY <1>2, <3>1, <3>2
  <2> QED
    BY <2>1, <2>2, <2>3 DEF SavesSound
<1> QED
  BY <1>3, <1>4, <1>5, Untouched

LEMMA StoreStep == ASSUME BackupsIInv, BackupNext, Later PROVE StoreSound' /\ finishes <= finishes'
<1> USE DEF BackupsIInv, StoreSound
<1>1. time' \in Nat \ {0} /\ stamp' \in Nat
  BY DEF Later
<1>2. finishes' \in Nat /\ crashes' \in Nat /\ finishes <= finishes'
  <2>1. finishes' \in {finishes, finishes + 1} /\ crashes' \in {crashes, crashes + 1}
    BY Untouched DEF FinishRun, StopWorker
  <2> QED
    BY <2>1
<1>3. overlapped' \in BOOLEAN
  <2>1. \/ overlapped' = overlapped
        \/ \E w \in Workers : overlapped' = (overlapped \/ \E v \in Workers \ {w} : worker[v].pc # "down")
    BY Untouched DEF StartWorker
  <2> QED
    BY <2>1
<1>4. \A n \in 1..stamp : n \in 1..stamp'
  BY DEF Later
<1>5. dumps' \subseteq 1..stamp'
  <2>1. \/ dumps' \subseteq dumps
        \/ stamp' = stamp + 1 /\ dumps' = dumps \cup {stamp'}
    BY Untouched DEF DumpLocally, Prune, Retained
  <2>2. stamp' = stamp + 1 => stamp' \in 1..stamp'
    BY <1>1
  <2>3. \A n \in dumps' : n \in dumps \/ (stamp' = stamp + 1 /\ n = stamp')
    BY <2>1
  <2> QED
    BY <1>4, <2>2, <2>3
<1>6. bundles' \in [Types -> SUBSET (1..stamp')]
  <2>1. CASE bundles' = bundles
    BY <1>4, <2>1
  <2>2. ASSUME NEW w \in Workers, Upload(w), bundles' # bundles PROVE bundles' \in [Types -> SUBSET (1..stamp')]
    <3>1. PICK me \in WorkerStates : me = worker[w]
      OBVIOUS
    <3>2. me.pc = "upload" /\ me.stamp \in 1..stamp /\ stamp' = stamp
      <4>1. me.pc = "upload" /\ Serves(me) /\ stamp' = stamp
        BY <2>2, <3>1 DEF Upload, WorkersServe
      <4>2. me.stamp \in Nat /\ me.stamp <= stamp /\ me.stamp # 0
        BY <4>1, StateFields DEF Serves
      <4> QED
        BY <4>1, <4>2
    <3>3. bundles' = [bundles EXCEPT ![me.to] = @ \cup {me.stamp}]
      BY <2>2, <3>1 DEF Upload
    <3> QED
      BY <3>2, <3>3
  <2>3. ASSUME NEW w \in Workers, Prune(w), bundles' # bundles PROVE bundles' \in [Types -> SUBSET (1..stamp')]
    <3>1. PICK me, left : me = worker[w] /\ left = me.listing \ Retained(me.listing)
      OBVIOUS
    <3>2. bundles' = [bundles EXCEPT ![me.to] = @ \ left] /\ stamp' = stamp
      BY <2>3, <3>1 DEF Prune
    <3> QED
      BY <3>2
  <2> QED
    BY <2>1, <2>2, <2>3, Untouched
<1>7. alerted' \subseteq RunIds'
  <2>1. CASE alerted' = alerted
    BY <2>1 DEF Later
  <2>2. ASSUME NEW w \in Workers, RaiseFailureAlert(w) PROVE alerted' \subseteq RunIds'
    <3>1. PICK me \in WorkerStates : me = worker[w]
      OBVIOUS
    <3>2. me.run \in RunIds /\ alerted' = alerted \cup {me.run}
      BY <2>2, <3>1 DEF RaiseFailureAlert, WorkersServe, Serves
    <3> QED
      BY <3>2 DEF Later
  <2> QED
    BY <2>1, <2>2, Untouched
<1> QED
  BY <1>1, <1>2, <1>3, <1>5, <1>6, <1>7
LEMMA RowsStep == ASSUME BackupsIInv, BackupNext, Later, RunsMove, finishes <= finishes', finishes' \in Nat PROVE RunsSound'
<1> SUFFICES ASSUME NEW i \in RunIds'
             PROVE  runs'[i].slot <= time' /\ runs'[i].stamp <= stamp' /\ runs'[i].finished <= finishes'
  BY DEF RunsSound, RunsMove
<1>1. time \in Nat /\ time' \in Nat /\ time <= time' /\ stamp \in Nat /\ stamp' \in Nat /\ stamp <= stamp' /\ finishes \in Nat
  BY DEF Later, BackupsIInv, StoreSound
<1>2. PICK row \in RunRow : row = runs'[i]
  <2>1. runs' \in Seq(RunRow) /\ i \in 1..Len(runs')
    BY DEF RunsMove, RunIds
  <2> HIDE DEF RunRow
  <2> QED
    BY <2>1
<1>3. row.slot \in Nat /\ row.stamp \in Nat /\ row.finished \in Nat
  BY DEF RunRow
<1>4. ASSUME i \in RunIds
      PROVE  /\ runs[i].slot <= time /\ runs[i].stamp <= stamp /\ runs[i].finished <= finishes
             /\ runs[i].slot \in Nat /\ runs[i].stamp \in Nat /\ runs[i].finished \in Nat
  BY <1>4, RunType DEF RunRow
<1>5. CASE Stays(i)
  BY <1>1, <1>4, <1>5 DEF Stays
<1>6. CASE Arrives(i)
  <2>1. runs'[i].slot <= time /\ runs'[i].stamp = 0 /\ runs'[i].finished = 0
    BY <1>6 DEF Arrives
  <2> QED
    BY <1>1, <1>2, <1>3, <2>1
<1>7. CASE Claims(i) \/ Abandons(i)
  <2>1. i \in RunIds /\ runs'[i].slot = runs[i].slot /\ runs'[i].stamp = runs[i].stamp /\ runs'[i].finished = runs[i].finished
    BY <1>7 DEF Claims, Abandons, Keeps
  <2> QED
    BY <1>1, <1>4, <2>1
<1>8. CASE Ends(i)
  <2>1. i \in RunIds /\ runs'[i].slot = runs[i].slot
    BY <1>8 DEF Ends, Keeps
  <2>2. PICK w \in Workers : FinishRun(w) /\ (FailsIt(i, w) \/ EndsWell(i, w))
    BY <1>8 DEF Ends
  <2>3. CASE FailsIt(i, w)
    BY <1>1, <1>4, <2>1, <2>3 DEF FailsIt
  <2>4. CASE EndsWell(i, w)
    <3>1. PICK me \in WorkerStates : me = worker[w]
      BY DEF BackupsIInv
    <3>2. me.pc = "done" /\ me.stamp <= stamp
      BY <2>4, <3>1 DEF EndsWell, BackupsIInv, WorkersServe, Serves
    <3>3. me.stamp \in Nat
      BY <3>2, StateFields
    <3>4. runs'[i].stamp = me.stamp /\ runs'[i].finished = finishes'
      BY <2>2, <2>4, <3>1 DEF EndsWell, FinishRun
    <3>5. runs'[i].stamp <= stamp' /\ runs'[i].finished <= finishes'
      BY <1>1, <3>2, <3>3, <3>4
    <3> QED
      BY <1>1, <1>4, <2>1, <3>5
  <2> QED
    BY <2>2, <2>3, <2>4
<1> QED
  BY <1>5, <1>6, <1>7, <1>8 DEF RunsMove

LEMMA OneRunStep == ASSUME BackupsIInv, RunsMove PROVE OneRunPerSlot'
<1> SUFFICES ASSUME NEW i \in RunIds', NEW j \in RunIds', i # j, runs'[i].slot # 0
             PROVE  ~(runs'[i].kind = runs'[j].kind /\ runs'[i].slot = runs'[j].slot)
  BY DEF OneRunPerSlot
<1>1. \A k \in RunIds' : Keeps(k) \/ Arrives(k)
  BY DEF RunsMove, Stays, Claims, Abandons, Ends, Keeps
<1>2. CASE Keeps(i) /\ Keeps(j)
  BY <1>2 DEF Keeps, BackupsIInv, OneRunPerSlot
<1>3. CASE Keeps(i) /\ Arrives(j)
  BY <1>3 DEF Keeps, Arrives
<1>4. CASE Arrives(i) /\ Keeps(j)
  BY <1>4 DEF Keeps, Arrives
<1>5. CASE Arrives(i) /\ Arrives(j)
  BY <1>5 DEF Arrives
<1> QED
  BY <1>1, <1>2, <1>3, <1>4, <1>5

LEMMA DumpStep == ASSUME BackupsIInv, RunsMove, Later PROVE DumpBeside'
<1> SUFFICES ASSUME NEW i \in RunIds', runs'[i].kind = "BACKUP", runs'[i].status = "SUCCEEDED" PROVE dumps # {}
  BY DEF DumpBeside, Later
<1>1. CASE Stays(i)
  BY <1>1 DEF Stays, BackupsIInv, DumpBeside
<1>2. CASE Ends(i)
  <2>1. PICK w \in Workers : i = worker[w].run /\ EndsWell(i, w) /\ Keeps(i)
    BY <1>2 DEF Ends, FailsIt
  <2>2. Serves(worker[w]) /\ worker[w].pc = "done" /\ runs[worker[w].run].kind = "BACKUP"
    BY <2>1 DEF EndsWell, Keeps, BackupsIInv, WorkersServe
  <2> QED
    BY <2>2 DEF Serves
<1> QED
  BY <1>1, <1>2 DEF RunsMove, Arrives, Claims, Abandons

\* A destination that had a bundle no older than this one still has one.
LEMMA BundlesStep ==
    ASSUME BackupsIInv, BackupNext, ~overlapped, NEW t \in Types, NEW n \in Nat, NoOlder(t, n)
    PROVE  NoOlder(t, n)'
<1>1. PICK b \in bundles[t] : n <= b
  BY DEF NoOlder
<1>2. bundles \in [Types -> SUBSET (1..stamp)] /\ stamp \in Nat /\ b \in Nat
  BY <1>1 DEF BackupsIInv, StoreSound
<1>3. CASE bundles' = bundles
  BY <1>1, <1>3 DEF NoOlder
<1>4. ASSUME NEW w \in Workers, Upload(w) PROVE NoOlder(t, n)'
  <2>1. PICK me : me = worker[w]
    OBVIOUS
  <2>2. bundles' = bundles \/ bundles' = [bundles EXCEPT ![me.to] = @ \cup {me.stamp}]
    BY <1>4, <2>1 DEF Upload
  <2>3. b \in bundles'[t]
    BY <1>1, <1>2, <2>2
  <2> QED
    BY <1>1, <2>3 DEF NoOlder
<1>5. ASSUME NEW w \in Workers, Prune(w) PROVE NoOlder(t, n)'
  <2>1. OwnsRun(worker[w]) /\ worker[w].pc = "prune"
    BY <1>5 DEF BackupsIInv, Alone, Prune
  <2>2. CASE worker[w].to = None
    <3>1. bundles' = bundles
      BY <1>5, <2>2 DEF Prune
    <3> QED
      BY <1>1, <3>1 DEF NoOlder
  <2>3. CASE worker[w].to # None
    <3>1. worker[w].to = t => worker[w].listing \subseteq bundles[t]
      BY <2>1, <2>3 DEF OwnsRun
    <3>2. NoOlder(t, b)'
      BY <1>1, <1>5, <3>1, PruneLeaves
    <3>3. PICK c \in bundles'[t] : b <= c
      BY <3>2 DEF NoOlder
    <3>4. c \in Nat
      <4>1. c \in bundles[t]
        <5>1. PICK left : left = worker[w].listing \ Retained(worker[w].listing)
          OBVIOUS
        <5>2. bundles' = [bundles EXCEPT ![worker[w].to] = @ \ left]
          BY <1>5, <2>3, <5>1 DEF Prune
        <5> QED
          BY <1>2, <3>3, <5>2
      <4> QED
        BY <1>2, <4>1
    <3> QED
      BY <1>1, <1>2, <3>3, <3>4 DEF NoOlder
  <2> QED
    BY <2>2, <2>3
<1> QED
  BY <1>3, <1>4, <1>5, Untouched

LEMMA UploadsStep == ASSUME BackupsIInv, BackupNext, Later, RunsMove PROVE UploadsKept'
<1> SUFFICES ASSUME ~overlapped', NEW i \in RunIds', runs'[i].status = "SUCCEEDED", runs'[i].uploaded # None
             PROVE  NoOlder(runs[i].uploaded, runs[i].stamp)'
  BY DEF UploadsKept, Recorded
<1>1. ~overlapped
  BY DEF Later
<1>2. CASE Stays(i)
  <2>1. PICK t, n : t = runs[i].uploaded /\ n = runs[i].stamp
    OBVIOUS
  <2>2. t \in Types /\ n \in Nat /\ NoOlder(t, n)
    BY <1>1, <1>2, <2>1, RunType DEF Stays, RunRow, BackupsIInv, UploadsKept, Recorded
  <2>3. NoOlder(t, n)'
    BY <1>1, <2>2, BundlesStep
  <2> QED
    BY <1>2, <2>1, <2>3 DEF Stays
<1>3. CASE Ends(i)
  <2>1. PICK w \in Workers : FinishRun(w) /\ EndsWell(i, w)
    BY <1>3 DEF Ends, FailsIt
  <2>2. PICK me \in WorkerStates : me = worker[w]
    BY DEF BackupsIInv
  <2>3. me.pc = "done" /\ runs'[i].uploaded = me.to /\ runs'[i].stamp = me.stamp
    BY <2>1, <2>2 DEF EndsWell
  <2>4. OwnsRun(me)
    BY <1>1, <2>2 DEF BackupsIInv, Alone
  <2>5. NoOlder(me.to, me.stamp) /\ bundles' = bundles
    BY <2>1, <2>3, <2>4 DEF OwnsRun, FinishRun
  <2> QED
    BY <2>3, <2>5 DEF NoOlder
<1> QED
  BY <1>2, <1>3 DEF RunsMove, Arrives, Claims, Abandons

\* A worker that is about to raise an alert raises it, unless it is stopped.
LEMMA AlerterStays ==
    ASSUME BackupsIInv, BackupNext, NEW v \in Workers, NEW i, worker[v] = [pc |-> "alert", run |-> i], crashes' = 0
    PROVE  worker'[v] = worker[v] \/ i \in alerted'
<1>1. worker[v].pc = "alert" /\ worker[v].run = i /\ crashes \in Nat
  BY DEF BackupsIInv, StoreSound
<1>2. CASE UNCHANGED worker
  BY <1>2
<1>3. ASSUME NEW w \in Workers, NEW m, worker' = [worker EXCEPT ![w] = m], w # v PROVE worker'[v] = worker[v]
  BY <1>3 DEF BackupsIInv
<1>4. CASE RaiseFailureAlert(v)
  BY <1>1, <1>4 DEF RaiseFailureAlert
<1>5. ASSUME NEW w \in Workers, WorkerStep(w) \/ StartWorker(w) PROVE worker'[v] = worker[v] \/ i \in alerted'
  <2>1. Proceeds(w) \/ RaiseFailureAlert(w)
    BY <1>5, PollMoves, FindDueMoves, AddDueMoves, ClaimRunMoves, LoadSettingsMoves, DumpLocallyMoves, UploadMoves, ListUploadedMoves,
       PruneMoves, RestoreCheckMoves, TestDestinationMoves, FinishRunMoves, StartWorkerMoves DEF WorkerStep, CarryOut
  <2>2. CASE w # v
    <3>1. Proceeds(w)
      BY <2>1, AlertMoves
    <3>2. \E m \in WorkerStates : worker' = [worker EXCEPT ![w] = m]
      BY <3>1 DEF Proceeds, MovedTo
    <3> QED
      BY <1>3, <2>2, <3>2
  <2>3. CASE w = v
    <3>1. RaiseFailureAlert(v)
      BY <1>1, <1>5, <2>3 DEF WorkerStep, CarryOut, Poll, FindDue, AddDue, ClaimRun, LoadSettings, DumpLocally, Upload,
         ListUploaded, Prune, RestoreCheck, TestDestination, FinishRun, StartWorker
    <3> QED
      BY <1>4, <3>1
  <2> QED
    BY <2>2, <2>3
<1>6. ASSUME NEW w \in Workers PROVE ~StopWorker(w)
  BY <1>1 DEF StopWorker
<1> QED
  BY <1>2, <1>5, <1>6, Untouched

LEMMA FailuresStep == ASSUME BackupsIInv, BackupNext, Later, RunsMove PROVE FailuresAlert'
<1> SUFFICES ASSUME crashes' = 0, ~overlapped', NEW i \in RunIds', runs'[i].status = "FAILED",
                    runs'[i].kind # "TEST_DESTINATION"
             PROVE  i \in alerted' \/ \E w \in Workers : worker'[w] = [pc |-> "alert", run |-> i]
  BY DEF FailuresAlert
<1>1. ~overlapped /\ crashes = 0 /\ crashes \in Nat
  <2>1. crashes' \in {crashes, crashes + 1}
    BY Untouched DEF StopWorker
  <2> QED
    BY <2>1 DEF Later, BackupsIInv, StoreSound
<1>2. CASE Stays(i)
  <2>1. i \in alerted \/ \E w \in Workers : worker[w] = [pc |-> "alert", run |-> i]
    BY <1>1, <1>2 DEF Stays, BackupsIInv, FailuresAlert
  <2>2. alerted \subseteq alerted'
    BY Untouched DEF RaiseFailureAlert
  <2> QED
    BY <2>1, <2>2, AlerterStays
<1>3. CASE Abandons(i)
  <2>1. PICK w \in Workers : StartWorker(w)
    BY <1>3 DEF Abandons
  <2>2. \A v \in Workers \ {w} : worker[v].pc = "down"
    BY <2>1 DEF StartWorker
  <2>3. worker[FirstWorker].pc # "down" /\ FirstWorker \in Workers
    BY <1>1, BackupsAssumption DEF BackupsIInv, OneWorkerUp
  <2> QED
    BY <2>1, <2>2, <2>3 DEF StartWorker
<1>4. CASE Ends(i)
  <2>1. PICK w \in Workers : FinishRun(w) /\ i = worker[w].run /\ worker[w].pc = "fail" /\ Keeps(i)
    BY <1>4 DEF Ends, FailsIt, EndsWell
  <2>2. Alerting(runs[i].kind)
    BY <2>1 DEF Keeps, Alerting
  <2>3. worker' = [worker EXCEPT ![w] = [pc |-> "alert", run |-> i]]
    BY <2>1, <2>2 DEF FinishRun
  <2> QED
    BY <2>3 DEF BackupsIInv
<1> QED
  BY <1>2, <1>3, <1>4 DEF RunsMove, Arrives, Claims

LEMMA BackupsIInvStep == BackupsIInv /\ [BackupNext]_backupVars => BackupsIInv'
<1>1. ASSUME BackupsIInv, BackupNext PROVE BackupsIInv'
  <2>1. WorkersSound' /\ Later
    BY <1>1, WorkersStep
  <2>2. RunsMove
    BY <1>1, RunsStep
  <2>3. StoreSound' /\ finishes <= finishes'
    BY <1>1, <2>1, StoreStep
  <2>4. RunsSound'
    <3>1. finishes' \in Nat
      BY <2>3 DEF StoreSound
    <3> QED
      BY <1>1, <2>1, <2>2, <2>3, <3>1, RowsStep
  <2>5. SavesSound'
    BY <1>1, <2>1, SavesStep
  <2>6. OneRunPerSlot' /\ DumpBeside'
    BY <1>1, <2>1, <2>2, OneRunStep, DumpStep
  <2>7. UploadsKept' /\ FailuresAlert'
    BY <1>1, <2>1, <2>2, UploadsStep, FailuresStep
  <2> QED
    BY <2>1, <2>3, <2>4, <2>5, <2>6, <2>7 DEF WorkersSound, BackupsIInv
<1>2. ASSUME BackupsIInv, UNCHANGED backupVars PROVE BackupsIInv'
  <2>1. UNCHANGED <<runs, settings, saver, time, worker, dumps, bundles, alerted, stamp, finishes, overlapped, crashes>>
    BY <1>2 DEF backupVars
  <2>2. SavesSound' /\ RunsSound' /\ StoreSound'
    BY <1>2, <2>1 DEF BackupsIInv, SavesSound, FitsTogether, RunsSound, StoreSound, RunIds
  <2>3. (worker \in [Workers -> WorkerStates])' /\ WorkersServe' /\ OneWorkerUp' /\ Alone'
    BY <1>2, <2>1 DEF BackupsIInv, WorkersServe, Serves, OneWorkerUp, Alone, OwnsRun, NoOlder, RunIds
  <2>4. UploadsKept' /\ DumpBeside' /\ OneRunPerSlot' /\ FailuresAlert'
    BY <1>2, <2>1 DEF BackupsIInv, UploadsKept, Recorded, NoOlder, DumpBeside, OneRunPerSlot, FailuresAlert, RunIds
  <2> QED
    BY <2>2, <2>3, <2>4 DEF BackupsIInv
<1> QED
  BY <1>1, <1>2

LEMMA BackupsIInvAlways == BackupSpec => []BackupsIInv
  BY BackupsIInvInit, BackupsIInvStep, PTL DEF BackupSpec

-----------------------------------------------------------------------------
\* The newest upload is one that was recorded.
LEMMA LastUploadRecorded ==
    ASSUME BackupsIInv, LastUpload # 0
    PROVE  LastUpload \in RunIds /\ Recorded(LastUpload)
<1>1. PICK up : up = {i \in RunIds : Recorded(i)}
  OBVIOUS
<1>2. LastUpload = CHOOSE i \in up : \A j \in up : runs[j].finished <= runs[i].finished
  BY <1>1 DEF LastUpload, Recorded
<1>3. up # {}
  BY <1>1 DEF LastUpload, Recorded
<1>4. PICK ends \in SUBSET (0..finishes) : ends = {runs[i].finished : i \in up} /\ ends # {}
  <2>1. \A i \in up : runs[i].finished \in 0..finishes
    <3> SUFFICES ASSUME NEW i \in up PROVE runs[i].finished \in 0..finishes
      OBVIOUS
    <3>1. runs[i] \in RunRow /\ runs[i].finished <= finishes
      BY <1>1, RunType
    <3> QED
      BY <3>1 DEF RunRow, BackupsIInv, StoreSound
  <2>2. {runs[i].finished : i \in up} \in SUBSET (0..finishes)
    BY <2>1, Zenon
  <2>3. {runs[i].finished : i \in up} # {}
    BY <1>3, Zenon
  <2> QED
    BY <2>2, <2>3, Zenon
<1>5. PICK last \in ends : \A f \in ends : f <= last
  BY <1>4, GreatestThere DEF BackupsIInv, StoreSound
<1>6. \E i \in up : \A j \in up : runs[j].finished <= runs[i].finished
  BY <1>4, <1>5
<1>7. LastUpload \in up
  BY <1>2, <1>6
<1> QED
  BY <1>1, <1>7

(* Rows, settings, dumps and bundles keep their types, and what a worker   *)
(* carries out is a run there is.                                          *)
THEOREM BackupsTypeCorrect == BackupSpec => []BackupTypeOK
<1>1. ASSUME BackupsIInv PROVE BackupTypeOK
  <2>1. \A i \in RunIds :
           /\ runs[i].kind \in Kinds /\ runs[i].slot \in 0..time
           /\ runs[i].status \in Settled \cup {"PENDING", "RUNNING"}
           /\ runs[i].uploaded \in Types \cup {None} /\ runs[i].stamp \in 0..stamp
    <3> SUFFICES ASSUME NEW i \in RunIds
                 PROVE  /\ runs[i].kind \in Kinds /\ runs[i].slot \in 0..time
                        /\ runs[i].status \in Settled \cup {"PENDING", "RUNNING"}
                        /\ runs[i].uploaded \in Types \cup {None} /\ runs[i].stamp \in 0..stamp
      OBVIOUS
    <3>1. runs[i] \in RunRow /\ runs[i].slot <= time /\ runs[i].stamp <= stamp
      BY <1>1, RunType
    <3> QED
      BY <1>1, <3>1 DEF RunRow, BackupsIInv, StoreSound
  <2>2. settings.type \in Types \cup {None} /\ settings.creds \in Types \cup {None} /\ settings.since \in 0..time
    BY <1>1 DEF BackupsIInv, SavesSound, FitsTogether, SettingsRow, StoreSound
  <2>3. \A w \in Workers : "run" \in DOMAIN worker[w] => worker[w].run \in RunIds
    <3> SUFFICES ASSUME NEW w \in Workers, "run" \in DOMAIN worker[w] PROVE worker[w].run \in RunIds
      OBVIOUS
    <3>1. PICK me \in WorkerStates : me = worker[w] /\ Serves(me)
      BY <1>1 DEF BackupsIInv, WorkersServe
    <3>2. me.pc \in Carrying \cup {"alert"}
      BY <3>1 DEF WorkerStates, Scheduling, Adding, Begun, Storing, Ended, Carrying
    <3> QED
      BY <3>1, <3>2 DEF Serves
  <2>4. dumps \subseteq 1..stamp /\ alerted \subseteq RunIds /\ \A t \in Types : bundles[t] \subseteq 1..stamp
    BY <1>1 DEF BackupsIInv, StoreSound
  <2> QED
    BY <2>1, <2>2, <2>3, <2>4 DEF BackupTypeOK
<1> QED
  BY <1>1, BackupsIInvAlways, PTL

(* Backups can be relied on, for any number of workers that poll, stop and *)
(* start again, of administrators that save, and of bundles kept: one run  *)
(* per slot, the newest bundle and a dump kept through retention, secrets  *)
(* of the destination they are used for, no failure without its alert.     *)
THEOREM BackupsSound == BackupSpec => []BackupsHold
<1>1. ASSUME BackupsIInv PROVE BackupsHold
  <2>1. NewestKept
    <3> SUFFICES ASSUME ~overlapped
                 PROVE  /\ LastUpload # 0 => \E b \in bundles[runs[LastUpload].uploaded] : runs[LastUpload].stamp <= b
                        /\ (\E i \in RunIds : runs[i].kind = "BACKUP" /\ runs[i].status = "SUCCEEDED") => dumps # {}
      BY DEF NewestKept
    <3>1. ASSUME LastUpload # 0 PROVE \E b \in bundles[runs[LastUpload].uploaded] : runs[LastUpload].stamp <= b
      <4>1. PICK i : i = LastUpload
        OBVIOUS
      <4>2. NoOlder(runs[i].uploaded, runs[i].stamp)
        BY <1>1, <3>1, <4>1, LastUploadRecorded DEF BackupsIInv, UploadsKept
      <4> QED
        BY <4>1, <4>2 DEF NoOlder
    <3>2. (\E i \in RunIds : runs[i].kind = "BACKUP" /\ runs[i].status = "SUCCEEDED") => dumps # {}
      BY <1>1 DEF BackupsIInv, DumpBeside
    <3> QED
      BY <3>1, <3>2
  <2>2. CredentialsFit
    BY <1>1 DEF BackupsIInv, SavesSound, FitsTogether, CredentialsFit
  <2> QED
    BY <1>1, <2>1, <2>2 DEF BackupsIInv, BackupsHold
<1> QED
  BY <1>1, BackupsIInvAlways, PTL

(* Where workers never overlap, a run that came to an outcome keeps it,    *)
(* through crashes, restarts and every later run.                          *)
THEOREM BackupOutcomesStay == BackupSpec => OutcomeStays
<1>1. ASSUME BackupsIInv, [BackupNext]_backupVars
      PROVE  [\A i \in RunIds : runs[i].status \in Settled /\ ~overlapped' => runs'[i] = runs[i]]_backupVars
  <2> SUFFICES ASSUME BackupNext, NEW i \in RunIds, runs[i].status \in Settled, ~overlapped' PROVE runs'[i] = runs[i]
    BY <1>1
  <2>1. RunsMove /\ Later
    BY <1>1, RunsStep, WorkersStep
  <2>2. ~Claims(i) /\ ~Abandons(i) /\ ~Arrives(i)
    BY DEF Claims, Abandons, Arrives, Settled
  <2>3. ~Ends(i)
    <3> SUFFICES ASSUME Ends(i) PROVE FALSE
      OBVIOUS
    <3>1. PICK w \in Workers : FinishRun(w) /\ i = worker[w].run
      BY DEF Ends
    <3>2. runs[i].status = "RUNNING"
      BY <1>1, <2>1, <3>1, HoldsRun DEF FinishRun, Carrying, Later
    <3> QED
      BY <3>2 DEF Settled
  <2> QED
    BY <2>1, <2>2, <2>3 DEF RunsMove, Stays
<1> QED
  BY <1>1, BackupsIInvAlways, PTL DEF BackupSpec, OutcomeStays

-----------------------------------------------------------------------------
(***************************************************************************)
(* Classification and ContentDiscovery.                                    *)
(***************************************************************************)
\* What a job's finds may come to.
Verdicts == {"none"} \cup {AlertSeverity(k, p) : k \in SUBSET Sensitive, p \in Policies}

Working == {"begin", "record", "count", "update", "insert", "alert", "suggest", "finish"}

JobRow == [status : {"ABSENT", "PENDING", "PROCESSING", "DONE", "FAILED", "REMOVED"},
           discovery : BOOLEAN, text : Seq(Sensitive)]
TickRow == [pc : Working \cup {"idle"}, todo : SUBSET JobIds, kept : SUBSET Sensitive,
            severity : Verdicts, files : Nat]
FileAlert == [job : JobIds, severity : Verdicts, suggested : BOOLEAN]
NoteRow == [open : BOOLEAN, files : Nat]
ResultRow == [version : Nat, job : 0..MaxJobs]

JobsTyped ==
    /\ job \in [JobIds -> JobRow]
    /\ matches \subseteq JobIds \X Sensitive
    /\ raised \subseteq FileAlert
    /\ noted \in Seq(NoteRow)
    /\ policy \in Policies /\ (cached = {} \/ \E p \in Policies : cached = {p})
    /\ tick \in [Ticks -> TickRow]
    /\ inserts \in [JobIds -> {0, 1}]
    /\ crossed \in BOOLEAN

Removing3 == {"matches", "jobs", "results"}

ScanRow ==
    {IdleScan}
    \cup [pc : {"follow"}, seen : [Paths -> Nat], gone : SUBSET Paths, moved : SUBSET (Paths \X Paths)]
    \cup [pc : {"move"}, seen : [Paths -> Nat], gone : {{}}, moved : SUBSET (Paths \X Paths), from : Paths, to : Paths]
    \cup [pc : Removing3, seen : [Paths -> Nat], gone : {{}}, moved : SUBSET (Paths \X Paths),
          found : SUBSET (Paths \X ResultRow), jobs : SUBSET JobIds]
PostRow == [path : Paths, version : Nat \ {0}, sample : BOOLEAN]
PassRow ==
    {IdlePass} \cup [pc : {"fetch"}]
    \cup [pc : {"read", "post"}, todo : SUBSET [path : Paths, version : Nat], batch : Seq(PostRow)]

FilesTyped ==
    /\ file \in [Paths -> Nat] /\ version \in Nat /\ known \in [Paths -> Nat]
    /\ scan \in ScanRow /\ pass \in PassRow
    /\ (pass.pc = "post" => pass.batch # <<>>)
    /\ result \in [Paths -> ResultRow]
    /\ late \in BOOLEAN /\ followLost \in BOOLEAN

\* A job is with one tick, which works on it until its row is settled or removed; it
\* was not recorded unless that tick has just done so.
Owned(t) ==
    /\ (tick[t].pc = "idle" <=> tick[t].todo = {})
    /\ \A u \in Ticks \ {t} : tick[t].todo \cap tick[u].todo = {}
    /\ \A j \in tick[t].todo :
         /\ job[j].status \in {"PROCESSING", "REMOVED"}
         /\ inserts[j] = 0 \/ (j = Current(t) /\ tick[t].pc \notin {"begin", "record"})

TicksOwn ==
    /\ \A t \in Ticks : Owned(t)
    /\ \A j \in JobIds : job[j].status \in {"ABSENT", "PENDING"} => inserts[j] = 0

\* Where no two ticks noted findings together, one notes at a time, and inserts
\* only where no note is open.
NotesOne ==
    ~crossed => /\ \A t, u \in Ticks : Noting(t) /\ Noting(u) => t = u
                /\ \A t \in Ticks : tick[t].pc = "insert" => OpenNotes = {}
                /\ \A i, k \in OpenNotes : i = k

FindsOf(j) == {k \in Sensitive : <<j, k>> \in matches}

Staying(j) == Exists(j) /\ ~followLost /\ j \notin BeingRemoved

\* What a tick has in its hands is what some settings keep of the job; past the
\* record it is recorded, and its alert is there as far as the tick has come.
JudgedAs(j, kept, severity) ==
    \E p \in Policies : kept = Kept(job[j].text, p) /\ severity = AlertSeverity(kept, p)

Alerted(j, severity) ==
    [job |-> j, severity |-> severity, suggested |-> severity \in {"HIGH", "CRITICAL"}] \in raised

WorkOf(t, j) ==
    /\ tick[t].pc \notin {"idle", "begin"} /\ Exists(j) => JudgedAs(j, tick[t].kept, tick[t].severity)
    /\ tick[t].pc \notin {"idle", "begin", "record"} /\ Staying(j) =>
         /\ FindsOf(j) = tick[t].kept
         /\ tick[t].pc \in {"count", "update", "insert"} => job[j].discovery
         /\ tick[t].pc = "suggest" =>
              /\ tick[t].severity \in {"HIGH", "CRITICAL"}
              /\ [job |-> j, severity |-> tick[t].severity, suggested |-> FALSE] \in raised
         /\ tick[t].pc = "finish" /\ ~job[j].discovery /\ tick[t].severity # "none" => Alerted(j, tick[t].severity)

WorkSound ==
    /\ \A m \in matches : inserts[m[1]] = 1
    /\ \A t \in Ticks : tick[t].todo # {} => WorkOf(t, Current(t))
    /\ \A j \in JobIds : job[j].status = "DONE" /\ Staying(j) => Complete(j)

JobsKept ==
    /\ \A p \in Paths : result[p].job # 0 => result[p].version # 0 /\ job[result[p].job].status # "ABSENT"
    /\ \A p, q \in Paths : result[p].job # 0 /\ result[p].job = result[q].job => p = q
    /\ \A j \in JobIds : Exists(j) /\ job[j].discovery => \E p \in Paths : result[p].job = j

\* What a scan has found goes with its job, and its renames are of files that are
\* gone, to files that are there.
Removals ==
    /\ scan.pc # "idle" => \A m \in scan.moved : scan.seen[m[1]] = 0 /\ scan.seen[m[2]] # 0
    /\ scan.pc = "move" => scan.seen[scan.from] = 0 /\ scan.seen[scan.to] # 0
    /\ scan.pc \in Removing3 => \A x \in scan.found : x[2].job # 0 => x[2].job \in scan.jobs
    /\ scan.pc = "results" => \A j \in scan.jobs : job[j].status = "REMOVED"

\* A result without its file is in what is still to be followed.
StillFollowed(p) ==
    \/ p \in scan.gone
    \/ \E q \in Paths : <<p, q>> \in scan.moved
    \/ scan.pc = "move" /\ p = scan.from
    \/ scan.pc \in Removing3 /\ <<p, result[p]>> \in scan.found

Followed ==
    ~late /\ ~followLost =>
        /\ scan.pc = "idle" => \A p \in Paths : known[p] = 0 => result[p].version = 0
        /\ scan.pc # "idle" =>
             \A p \in Paths : scan.seen[p] = 0 /\ result[p].version # 0 => StillFollowed(p)

DiscIInv == /\ JobsTyped /\ FilesTyped /\ TicksOwn /\ NotesOne
            /\ WorkSound /\ JobsKept /\ Removals /\ Followed

\* Jobs are numbers, a tick's current one is of its batch, and a new one was not used.
LEMMA CurrentThere ==
    ASSUME JobsTyped, NEW t \in Ticks, tick[t].todo # {}
    PROVE  Current(t) \in tick[t].todo /\ Current(t) \in JobIds
<1>1. tick[t].todo \in SUBSET JobIds
  BY DEF JobsTyped, TickRow
<1>2. PICK S : S = tick[t].todo
  OBVIOUS
<1>3. S \in SUBSET Nat /\ S # {}
  BY <1>1, <1>2, ClassificationAssumption DEF JobIds
<1>4. \E m \in S : \A k \in S : m <= k
  BY <1>3, LeastThere
<1>5. (CHOOSE j \in S : \A k \in S : j <= k) \in S
  BY <1>4
<1> QED
  BY <1>1, <1>2, <1>5 DEF Current

LEMMA NextJobThere ==
    ASSUME Unused # {}
    PROVE  NextJob \in Unused /\ NextJob \in JobIds
<1>1. Unused \in SUBSET Nat /\ Unused \subseteq JobIds
  BY ClassificationAssumption DEF JobIds, Unused
<1>2. \E m \in Unused : \A k \in Unused : m <= k
  BY <1>1, LeastThere
<1>3. NextJob \in Unused
  BY <1>2 DEF NextJob
<1> QED
  BY <1>1, <1>3

LEMMA KeptType ==
    ASSUME NEW x \in Seq(Sensitive), NEW p \in Policies
    PROVE  Kept(x, p) \in SUBSET Sensitive /\ AlertSeverity(Kept(x, p), p) \in Verdicts
<1>1. Kept(x, p) \in SUBSET Sensitive
  <2>1. \A i \in DOMAIN x : x[i] \in Sensitive
    OBVIOUS
  <2> QED
    BY <2>1 DEF Kept
<1>2. \A k \in SUBSET Sensitive : AlertSeverity(k, p) \in Verdicts
  BY DEF Verdicts
<1> QED
  BY <1>1, <1>2

LEMMA FilesCounted == Cardinality(SensitiveFiles) \in Nat
<1>1. IsFiniteSet(JobIds)
  BY ClassificationAssumption, FS_Interval DEF JobIds
<1>2. SensitiveFiles \subseteq JobIds
  BY DEF SensitiveFiles
<1>3. IsFiniteSet(SensitiveFiles)
  BY <1>1, <1>2, FS_Subset
<1> QED
  BY <1>3, FS_CardinalityType

\* What a job's work was, it is still, if the step left its row, its finds and its
\* alerts alone as far as they matter.
SameWork(j) ==
    /\ Exists(j)' => Exists(j) /\ job'[j].text = job[j].text /\ job'[j].discovery = job[j].discovery
    /\ Staying(j)' => Staying(j) /\ FindsOf(j)' = FindsOf(j)
    /\ \A a \in raised : a.job = j => a \in raised'

LEMMA JudgedStays ==
    ASSUME NEW j, NEW kept, NEW severity, job'[j].text = job[j].text, JudgedAs(j, kept, severity)
    PROVE  JudgedAs(j, kept, severity)'
<1>1. PICK x : x = job[j].text
  OBVIOUS
<1>2. PICK p \in Policies : kept = Kept(x, p) /\ severity = AlertSeverity(kept, p)
  BY <1>1 DEF JudgedAs
<1>3. job'[j].text = x
  BY <1>1
<1> QED
  BY <1>2, <1>3 DEF JudgedAs

LEMMA WorkStays ==
    ASSUME NEW t \in Ticks, NEW j \in JobIds, tick'[t] = tick[t], SameWork(j), WorkOf(t, j)
    PROVE  WorkOf(t, j)'
<1>1. tick[t].pc \notin {"idle", "begin"} /\ Exists(j)' => JudgedAs(j, tick[t].kept, tick[t].severity)'
  <2> SUFFICES ASSUME tick[t].pc \notin {"idle", "begin"}, Exists(j)' PROVE JudgedAs(j, tick[t].kept, tick[t].severity)'
    OBVIOUS
  <2>1. Exists(j) /\ job'[j].text = job[j].text
    BY DEF SameWork
  <2>2. JudgedAs(j, tick[t].kept, tick[t].severity)
    BY <2>1 DEF WorkOf
  <2>3. PICK kept, severity : kept = tick[t].kept /\ severity = tick[t].severity
    OBVIOUS
  <2>4. JudgedAs(j, kept, severity)'
    BY <2>1, <2>2, <2>3, JudgedStays
  <2>5. tick'[t].kept = kept /\ tick'[t].severity = severity
    BY <2>3
  <2> QED
    BY <2>4, <2>5 DEF JudgedAs
<1>2. tick[t].pc \notin {"idle", "begin", "record"} /\ Staying(j)' =>
         /\ FindsOf(j)' = tick[t].kept
         /\ tick[t].pc \in {"count", "update", "insert"} => job'[j].discovery
         /\ tick[t].pc = "suggest" =>
              /\ tick[t].severity \in {"HIGH", "CRITICAL"}
              /\ [job |-> j, severity |-> tick[t].severity, suggested |-> FALSE] \in raised'
         /\ tick[t].pc = "finish" /\ ~job'[j].discovery /\ tick[t].severity # "none" => Alerted(j, tick[t].severity)'
  <2> SUFFICES ASSUME tick[t].pc \notin {"idle", "begin", "record"}, Staying(j)'
               PROVE  /\ FindsOf(j)' = tick[t].kept
                      /\ tick[t].pc \in {"count", "update", "insert"} => job'[j].discovery
                      /\ tick[t].pc = "suggest" =>
                           /\ tick[t].severity \in {"HIGH", "CRITICAL"}
                           /\ [job |-> j, severity |-> tick[t].severity, suggested |-> FALSE] \in raised'
                      /\ tick[t].pc = "finish" /\ ~job'[j].discovery /\ tick[t].severity # "none" =>
                           Alerted(j, tick[t].severity)'
    OBVIOUS
  <2>1. /\ Staying(j) /\ FindsOf(j)' = FindsOf(j) /\ job'[j].discovery = job[j].discovery
        /\ \A a \in raised : a.job = j => a \in raised'
    BY DEF SameWork, Staying
  <2>2. \A s : [job |-> j, severity |-> tick[t].severity, suggested |-> s] \in raised =>
                 [job |-> j, severity |-> tick[t].severity, suggested |-> s] \in raised'
    BY <2>1
  <2>3. /\ FindsOf(j) = tick[t].kept
        /\ tick[t].pc \in {"count", "update", "insert"} => job[j].discovery
        /\ tick[t].pc = "suggest" =>
             /\ tick[t].severity \in {"HIGH", "CRITICAL"}
             /\ [job |-> j, severity |-> tick[t].severity, suggested |-> FALSE] \in raised
        /\ tick[t].pc = "finish" /\ ~job[j].discovery /\ tick[t].severity # "none" => Alerted(j, tick[t].severity)
    BY <2>1 DEF WorkOf
  <2> QED
    BY <2>1, <2>2, <2>3 DEF Alerted
<1> QED
  BY <1>1, <1>2 DEF WorkOf

LEMMA CompleteStays ==
    ASSUME NEW j \in JobIds, SameWork(j), Staying(j)', Complete(j)
    PROVE  Complete(j)'
<1>1. /\ FindsOf(j)' = FindsOf(j) /\ job'[j].text = job[j].text /\ job'[j].discovery = job[j].discovery
      /\ \A a \in raised : a.job = j => a \in raised'
  BY DEF SameWork, Staying
<1>2. PICK p \in Policies :
        /\ FindsOf(j) = Kept(job[j].text, p)
        /\ ~job[j].discovery /\ AlertSeverity(Kept(job[j].text, p), p) # "none" =>
             Alerted(j, AlertSeverity(Kept(job[j].text, p), p))
  BY DEF Complete, FindsOf, Alerted
<1>3. PICK x, k, s : x = job[j].text /\ k = Kept(x, p) /\ s = AlertSeverity(k, p)
  OBVIOUS
<1>4. job'[j].text = x /\ FindsOf(j)' = k /\ (~job'[j].discovery /\ s # "none" => Alerted(j, s)')
  BY <1>1, <1>2, <1>3 DEF Alerted
<1> QED
  BY <1>3, <1>4 DEF Complete, FindsOf, Alerted

\* Ticks keep what they own while rows change outside of them: one is created, one removed.
LEMMA OwnKept ==
    ASSUME TicksOwn, tick' = tick, inserts' = inserts,
           \A j \in JobIds : \/ job'[j].status = job[j].status
                             \/ job'[j].status = "REMOVED"
                             \/ job[j].status = "ABSENT" /\ job'[j].status = "PENDING",
           \A t \in Ticks : tick[t].todo \subseteq JobIds
    PROVE  TicksOwn'
<1>1. ASSUME NEW t \in Ticks PROVE Owned(t)'
  <2>1. PICK c : c = Current(t)
    OBVIOUS
  <2>2. Current(t)' = c
    BY <2>1 DEF Current
  <2>3. /\ (tick[t].pc = "idle" <=> tick[t].todo = {})
        /\ \A u \in Ticks \ {t} : tick[t].todo \cap tick[u].todo = {}
        /\ \A j \in tick[t].todo :
             /\ job[j].status \in {"PROCESSING", "REMOVED"}
             /\ inserts[j] = 0 \/ (j = c /\ tick[t].pc \notin {"begin", "record"})
    BY <2>1 DEF TicksOwn, Owned
  <2>4. \A j \in tick[t].todo : job'[j].status \in {"PROCESSING", "REMOVED"}
    BY <2>3
  <2> QED
    BY <2>2, <2>3, <2>4 DEF Owned
<1>2. ASSUME NEW j \in JobIds, job'[j].status \in {"ABSENT", "PENDING"} PROVE inserts'[j] = 0
  BY <1>2 DEF TicksOwn
<1> QED
  BY <1>1, <1>2 DEF TicksOwn

LEMMA NotesQuiet ==
    ASSUME NotesOne, crossed' = crossed, noted' = noted,
           \A t \in Ticks : tick'[t].pc = tick[t].pc \/ tick'[t].pc \notin {"update", "insert"}
    PROVE  NotesOne'
<1>1. OpenNotes' = OpenNotes /\ \A t \in Ticks : Noting(t)' => Noting(t)
  BY DEF OpenNotes, Noting
<1>2. \A t \in Ticks : tick'[t].pc = "insert" => tick[t].pc = "insert"
  OBVIOUS
<1> QED
  BY <1>1, <1>2 DEF NotesOne

\* What discovery does to the queue: rows are created and removed, finds removed.
JobsOnly ==
    /\ UNCHANGED <<raised, noted, policy, cached, tick, inserts, crossed>>
    /\ job' \in [JobIds -> JobRow]
    /\ matches' \subseteq matches
    /\ \A j \in JobIds : \/ job'[j] = job[j]
                         \/ job'[j].status = "REMOVED"
                         \/ job[j].status = "ABSENT" /\ job'[j].status = "PENDING"

LEMMA JobsOnlyKeeps ==
    ASSUME JobsTyped, TicksOwn, NotesOne, JobsOnly
    PROVE  JobsTyped' /\ TicksOwn' /\ NotesOne'
<1>1. JobsTyped'
  BY DEF JobsTyped, JobsOnly
<1>2. TicksOwn'
  <2>1. \A t \in Ticks : tick[t].todo \subseteq JobIds
    BY DEF JobsTyped, TickRow
  <2>2. tick' = tick /\ inserts' = inserts
    BY DEF JobsOnly
  <2>3. \A j \in JobIds : \/ job'[j].status = job[j].status
                          \/ job'[j].status = "REMOVED"
                          \/ job[j].status = "ABSENT" /\ job'[j].status = "PENDING"
    BY DEF JobsOnly
  <2> QED
    BY <2>1, <2>2, <2>3, OwnKept
<1>3. NotesOne'
  <2>1. crossed' = crossed /\ noted' = noted /\ tick' = tick
    BY DEF JobsOnly
  <2> QED
    BY <2>1, NotesQuiet
<1> QED
  BY <1>1, <1>2, <1>3

LEMMA WorkCarried ==
    ASSUME JobsTyped, TicksOwn, WorkSound, tick' = tick, inserts' = inserts, matches' \subseteq matches,
           \A j \in JobIds : job'[j].status = "DONE" => job[j].status = "DONE",
           \A j \in JobIds : job[j].status # "ABSENT" => SameWork(j)
    PROVE  WorkSound'
<1>1. \A m \in matches' : inserts'[m[1]] = 1
  BY DEF WorkSound
<1>2. ASSUME NEW t \in Ticks, tick'[t].todo # {} PROVE WorkOf(t, Current(t))'
  <2>1. PICK c : c = Current(t)
    OBVIOUS
  <2>2. Current(t)' = c /\ tick[t].todo # {}
    BY <1>2, <2>1 DEF Current
  <2>3. c \in tick[t].todo /\ c \in JobIds
    BY <2>1, <2>2, CurrentThere
  <2>4. job[c].status # "ABSENT"
    BY <2>3 DEF TicksOwn, Owned
  <2>5. SameWork(c) /\ WorkOf(t, c) /\ tick'[t] = tick[t]
    BY <2>1, <2>2, <2>3, <2>4 DEF WorkSound
  <2>6. WorkOf(t, c)'
    BY <2>3, <2>5, WorkStays
  <2> QED
    BY <2>2, <2>6 DEF WorkOf
<1>3. ASSUME NEW j \in JobIds, job'[j].status = "DONE", Staying(j)' PROVE Complete(j)'
  <2>1. job[j].status = "DONE"
    BY <1>3
  <2>2. SameWork(j)
    BY <2>1
  <2>3. Staying(j)
    BY <1>3, <2>2 DEF SameWork
  <2>4. Complete(j)
    BY <2>1, <2>3 DEF WorkSound
  <2> QED
    BY <1>3, <2>2, <2>4, CompleteStays
<1> QED
  BY <1>1, <1>2, <1>3 DEF WorkSound

LEMMA WorkKept ==
    ASSUME JobsTyped, TicksOwn, WorkSound, JobsOnly,
           \A j \in JobIds : job[j].status # "ABSENT" => SameWork(j)
    PROVE  WorkSound'
<1>1. tick' = tick /\ inserts' = inserts /\ matches' \subseteq matches
  BY DEF JobsOnly
<1>2. \A j \in JobIds : job'[j].status = "DONE" => job[j].status = "DONE"
  BY DEF JobsOnly
<1> QED
  BY <1>1, <1>2, WorkCarried

\* A step that leaves the queue alone.
LEMMA QueueRests ==
    ASSUME JobsTyped, TicksOwn, NotesOne, WorkSound, clsVars' = clsVars,
           \A j \in JobIds : Staying(j)' => Staying(j)
    PROVE  JobsTyped' /\ TicksOwn' /\ NotesOne' /\ WorkSound'
<1>1. JobsOnly
  BY DEF JobsOnly, JobsTyped, clsVars
<1>2. ASSUME NEW j \in JobIds PROVE SameWork(j)
  <2>1. job' = job /\ matches' = matches /\ raised' = raised
    BY DEF clsVars
  <2> QED
    BY <2>1 DEF SameWork, Exists, FindsOf
<1> QED
  BY <1>1, <1>2, JobsOnlyKeeps, WorkKept

\* The fields that a scan and a pass have where they are.
LEMMA ScanFields ==
    ASSUME FilesTyped
    PROVE  /\ scan.pc \in {"idle", "follow", "move"} \cup Removing3
           /\ scan.pc = "idle" => scan = IdleScan
           /\ scan.pc # "idle" => /\ scan.seen \in [Paths -> Nat] /\ scan.gone \in SUBSET Paths
                                  /\ scan.moved \in SUBSET (Paths \X Paths)
           /\ scan.pc = "follow" => scan = [pc |-> "follow", seen |-> scan.seen, gone |-> scan.gone, moved |-> scan.moved]
           /\ scan.pc = "move" => scan.gone = {} /\ scan.from \in Paths /\ scan.to \in Paths
           /\ scan.pc \in Removing3 =>
                /\ scan.gone = {} /\ scan.found \in SUBSET (Paths \X ResultRow) /\ scan.jobs \in SUBSET JobIds
                /\ scan = [pc |-> scan.pc, seen |-> scan.seen, gone |-> {}, moved |-> scan.moved,
                           found |-> scan.found, jobs |-> scan.jobs]
<1>1. CASE scan \in {IdleScan}
  BY <1>1 DEF IdleScan, Removing3
<1>2. CASE scan \in [pc : {"follow"}, seen : [Paths -> Nat], gone : SUBSET Paths, moved : SUBSET (Paths \X Paths)]
  BY <1>2 DEF Removing3
<1>3. CASE scan \in [pc : Removing3, seen : [Paths -> Nat], gone : {{}}, moved : SUBSET (Paths \X Paths),
                     found : SUBSET (Paths \X ResultRow), jobs : SUBSET JobIds]
  BY <1>3 DEF Removing3
<1>4. CASE scan \in [pc : {"move"}, seen : [Paths -> Nat], gone : {{}}, moved : SUBSET (Paths \X Paths),
                     from : Paths, to : Paths]
  BY <1>4 DEF Removing3
<1> QED
  BY <1>1, <1>2, <1>3, <1>4 DEF FilesTyped, ScanRow

LEMMA PassFields ==
    ASSUME FilesTyped
    PROVE  /\ pass.pc \in {"idle", "fetch", "read", "post"}
           /\ pass.pc \in {"read", "post"} =>
                /\ pass.todo \in SUBSET [path : Paths, version : Nat] /\ pass.batch \in Seq(PostRow)
                /\ pass = [pc |-> pass.pc, todo |-> pass.todo, batch |-> pass.batch]
<1>1. CASE pass \in {IdlePass}
  BY <1>1 DEF IdlePass
<1>2. CASE pass \in [pc : {"fetch"}]
  BY <1>2
<1>3. CASE pass \in [pc : {"read", "post"}, todo : SUBSET [path : Paths, version : Nat], batch : Seq(PostRow)]
  BY <1>3
<1> QED
  BY <1>1, <1>2, <1>3 DEF FilesTyped, PassRow

\* What lies still when neither results nor scan move.
LEMMA ResultsRest ==
    ASSUME JobsKept, Removals, Followed,
           UNCHANGED <<job, result, scan, known, late, followLost>>
    PROVE  /\ JobsKept' /\ Removals' /\ Followed'
           /\ \A j \in JobIds : Staying(j)' => Staying(j)
<1>1. JobsKept'
  BY DEF JobsKept, Exists
<1>2. Removals'
  BY DEF Removals
<1>3. Followed'
  BY DEF Followed, StillFollowed
<1>4. \A j \in JobIds : Staying(j)' => Staying(j)
  BY DEF Staying, Exists, BeingRemoved
<1> QED
  BY <1>1, <1>2, <1>3, <1>4

LEMMA ShareMoves ==
    ASSUME DiscIInv, NEW files \in [Paths -> Nat], ShareChanges(files)
    PROVE  DiscIInv'
<1>1. /\ clsVars' = clsVars /\ UNCHANGED <<job, result, scan, known, late, followLost>>
      /\ file' = files /\ version' = version + 1 /\ pass' = pass
  BY DEF ShareChanges, clsVars
<1>2. FilesTyped'
  BY <1>1 DEF DiscIInv, FilesTyped
<1> QED
  BY <1>1, <1>2, ResultsRest, QueueRests DEF DiscIInv

LEMMA UsersMove ==
    ASSUME DiscIInv, NEW p \in Paths, WriteFile(p) \/ RemoveFile(p) \/ \E q \in Paths : RenameFile(p, q)
    PROVE  DiscIInv'
<1>1. file \in [Paths -> Nat] /\ version \in Nat
  BY DEF DiscIInv, FilesTyped
<1>2. CASE WriteFile(p)
  <2>1. [file EXCEPT ![p] = version + 1] \in [Paths -> Nat]
    BY <1>1
  <2> QED
    BY <1>2, <2>1, ShareMoves DEF WriteFile
<1>3. CASE RemoveFile(p)
  <2>1. [file EXCEPT ![p] = 0] \in [Paths -> Nat]
    BY <1>1
  <2> QED
    BY <1>3, <2>1, ShareMoves DEF RemoveFile
<1>4. ASSUME NEW q \in Paths, RenameFile(p, q) PROVE DiscIInv'
  <2>1. [file EXCEPT ![q] = file[p], ![p] = 0] \in [Paths -> Nat]
    BY <1>1
  <2> QED
    BY <1>4, <2>1, ShareMoves DEF RenameFile
<1> QED
  BY <1>2, <1>3, <1>4

\* A pass plans, reads and ends without a word to the backend.
LEMMA PassMoves ==
    ASSUME DiscIInv, UNCHANGED <<clsVars, file, version, known, scan, result, late, followLost>>,
           pass' \in PassRow, pass'.pc = "post" => pass'.batch # <<>>
    PROVE  DiscIInv'
<1>1. clsVars' = clsVars /\ UNCHANGED <<job, result, scan, known, late, followLost>>
  BY DEF clsVars
<1>2. FilesTyped'
  BY DEF DiscIInv, FilesTyped
<1> QED
  BY <1>1, <1>2, ResultsRest, QueueRests DEF DiscIInv

LEMMA PlanPassHolds == ASSUME DiscIInv, PlanPass PROVE DiscIInv'
<1>1. known \in [Paths -> Nat]
  BY DEF DiscIInv, FilesTyped
<1>2. {[path |-> p, version |-> known[p]] : p \in Todo} \in SUBSET [path : Paths, version : Nat]
  BY <1>1 DEF Todo
<1>3. <<>> \in Seq(PostRow)
  OBVIOUS
<1>4. pass' \in PassRow /\ pass'.pc = "read"
  BY <1>2, <1>3 DEF PlanPass, PassRow
<1> QED
  BY <1>4, PassMoves DEF PlanPass

LEMMA ReadFileHolds == ASSUME DiscIInv, ReadFile PROVE DiscIInv'
<1>1. /\ known \in [Paths -> Nat] /\ FilesTyped /\ pass.pc = "read"
  BY DEF DiscIInv, FilesTyped, ReadFile
<1>2. /\ pass.todo \in SUBSET [path : Paths, version : Nat] /\ pass.batch \in Seq(PostRow)
      /\ pass = [pc |-> pass.pc, todo |-> pass.todo, batch |-> pass.batch]
  BY <1>1, PassFields
<1>3. PICK x \in pass.todo :
        pass' = [pass EXCEPT !.todo = @ \ {x},
                             !.batch = IF known[x.path] = 0 THEN @
                                       ELSE Append(@, [path |-> x.path, version |-> known[x.path],
                                                       sample |-> file[x.path] # 0])]
  BY DEF ReadFile
<1>4. x.path \in Paths /\ known[x.path] \in Nat
  BY <1>1, <1>2
<1>5. PICK r : r = [path |-> x.path, version |-> known[x.path], sample |-> file[x.path] # 0]
  OBVIOUS
<1>6. known[x.path] # 0 => r \in PostRow
  BY <1>4, <1>5 DEF PostRow
<1>7. PICK b : b = IF known[x.path] = 0 THEN pass.batch ELSE Append(pass.batch, r)
  OBVIOUS
<1>8. b \in Seq(PostRow)
  BY <1>2, <1>6, <1>7
<1>9. pass' = [pc |-> "read", todo |-> pass.todo \ {x}, batch |-> b]
  BY <1>1, <1>2, <1>3, <1>5, <1>7
<1>10. pass' \in PassRow /\ pass'.pc = "read"
  <2>1. pass.todo \ {x} \in SUBSET [path : Paths, version : Nat]
    BY <1>2
  <2> QED
    BY <1>8, <1>9, <2>1 DEF PassRow
<1> QED
  BY <1>10, PassMoves DEF ReadFile

LEMMA StartPostHolds == ASSUME DiscIInv, StartPost PROVE DiscIInv'
<1>1. FilesTyped /\ pass.pc = "read" /\ pass.batch # <<>>
  BY DEF DiscIInv, StartPost
<1>2. /\ pass.todo \in SUBSET [path : Paths, version : Nat] /\ pass.batch \in Seq(PostRow)
      /\ pass = [pc |-> pass.pc, todo |-> pass.todo, batch |-> pass.batch]
  BY <1>1, PassFields
<1>3. pass' = [pc |-> "post", todo |-> pass.todo, batch |-> pass.batch]
  BY <1>2 DEF StartPost
<1>4. pass' \in PassRow /\ pass'.batch # <<>>
  BY <1>1, <1>2, <1>3 DEF PassRow
<1> QED
  BY <1>4, PassMoves DEF StartPost

LEMMA PostLostHolds == ASSUME DiscIInv, PostLost PROVE DiscIInv'
<1>1. FilesTyped /\ pass.pc = "post"
  BY DEF DiscIInv, PostLost
<1>2. /\ pass.todo \in SUBSET [path : Paths, version : Nat]
      /\ pass = [pc |-> pass.pc, todo |-> pass.todo, batch |-> pass.batch]
  BY <1>1, PassFields
<1>3. pass' = [pc |-> "read", todo |-> pass.todo, batch |-> <<>>]
  BY <1>2 DEF PostLost
<1>4. <<>> \in Seq(PostRow)
  OBVIOUS
<1>5. pass' \in PassRow /\ pass'.pc = "read"
  BY <1>2, <1>3, <1>4 DEF PassRow
<1> QED
  BY <1>5, PassMoves DEF PostLost

LEMMA PassEndsHolds == ASSUME DiscIInv, PassEnds PROVE DiscIInv'
<1>1. pass' \in PassRow /\ pass'.pc = "idle"
  BY DEF PassEnds, PassRow, IdlePass
<1> QED
  BY <1>1, PassMoves DEF PassEnds

\* The rows of the queue stay while a scan is followed, and a scan keeps its form.
LEMMA FilesHold ==
    ASSUME FilesTyped, UNCHANGED <<file, version, pass, late>>, known' \in [Paths -> Nat],
           scan' \in ScanRow, result' \in [Paths -> ResultRow], followLost' \in BOOLEAN
    PROVE  FilesTyped'
BY DEF FilesTyped

LEMMA WalkHolds == ASSUME DiscIInv, Walk PROVE DiscIInv'
<1>1. /\ scan.pc = "idle" /\ clsVars' = clsVars /\ UNCHANGED <<file, version, known, pass, result, late, followLost>>
      /\ scan' = [pc |-> "follow", seen |-> file, gone |-> Gone(file), moved |-> Moved(file)]
  BY DEF Walk
<1>2. FilesTyped /\ file \in [Paths -> Nat] /\ known \in [Paths -> Nat]
  BY DEF DiscIInv, FilesTyped
<1>3. FilesTyped'
  <2>1. Gone(file) \in SUBSET Paths /\ Moved(file) \in SUBSET (Paths \X Paths)
    BY DEF Gone, Moved
  <2>2. scan' \in ScanRow
    BY <1>1, <1>2, <2>1 DEF ScanRow
  <2> QED
    BY <1>1, <1>2, <2>2, FilesHold DEF FilesTyped
<1>4. \A j \in JobIds : Staying(j)' => Staying(j)
  <2>1. job' = job /\ followLost' = followLost
    BY <1>1 DEF clsVars
  <2> QED
    BY <1>1, <2>1 DEF Staying, Exists, BeingRemoved
<1>5. JobsKept'
  BY <1>1 DEF DiscIInv, JobsKept, Exists, clsVars
<1>6. Removals'
  BY <1>1, <1>2 DEF Removals, Moved, Removing3
<1>7. Followed'
  <2> SUFFICES ASSUME ~late, ~followLost, NEW p \in Paths, file[p] = 0, result[p].version # 0
               PROVE  p \in Gone(file) \/ \E q \in Paths : <<p, q>> \in Moved(file)
    BY <1>1 DEF Followed, StillFollowed
  <2>1. known[p] # 0
    BY <1>1 DEF DiscIInv, Followed
  <2>2. p \in Gone(file) \/ p \in {m[1] : m \in Moved(file)}
    BY <2>1 DEF Gone
  <2>3. ASSUME NEW m \in Moved(file), p = m[1] PROVE \E q \in Paths : <<p, q>> \in Moved(file)
    <3>1. m = <<p, m[2]>> /\ m[2] \in Paths
      BY <2>3 DEF Moved
    <3> QED
      BY <3>1
  <2> QED
    BY <2>2, <2>3
<1> QED
  BY <1>1, <1>3, <1>4, <1>5, <1>6, <1>7, QueueRests DEF DiscIInv

\* What removing some paths' results begins with.
LEMMA RemovingBegins ==
    ASSUME FilesTyped, NEW paths \in SUBSET Paths, NEW moved \in SUBSET (Paths \X Paths), scan.pc = "follow",
           scan' = [pc |-> "matches", seen |-> scan.seen, gone |-> {}, moved |-> moved,
                    found |-> {<<p, result[p]>> : p \in paths}, jobs |-> {result[p].job : p \in paths} \ {0}]
    PROVE  /\ scan' \in ScanRow
           /\ \A x \in scan'.found : x[2].job # 0 => x[2].job \in scan'.jobs
           /\ \A p \in paths : <<p, result[p]>> \in scan'.found
<1>1. scan.seen \in [Paths -> Nat] /\ result \in [Paths -> ResultRow]
  BY ScanFields DEF FilesTyped
<1>2. {<<p, result[p]>> : p \in paths} \in SUBSET (Paths \X ResultRow)
  BY <1>1
<1>3. {result[p].job : p \in paths} \ {0} \in SUBSET JobIds
  <2>1. \A p \in paths : result[p].job \in 0..MaxJobs
    BY <1>1 DEF ResultRow
  <2> QED
    BY <2>1, ClassificationAssumption DEF JobIds
<1>4. PICK found, jobs : found = {<<p, result[p]>> : p \in paths} /\ jobs = {result[p].job : p \in paths} \ {0}
  OBVIOUS
<1>5. scan' = [pc |-> "matches", seen |-> scan.seen, gone |-> {}, moved |-> moved, found |-> found, jobs |-> jobs]
  BY <1>4
<1>6. found \in SUBSET (Paths \X ResultRow) /\ jobs \in SUBSET JobIds
  BY <1>2, <1>3, <1>4
<1>7. scan' \in ScanRow
  BY <1>1, <1>5, <1>6 DEF ScanRow, Removing3
<1>8. \A x \in found : x[2].job # 0 => x[2].job \in jobs
  BY <1>4
<1>9. \A p \in paths : <<p, result[p]>> \in found
  BY <1>4
<1> QED
  BY <1>5, <1>7, <1>8, <1>9

LEMMA FollowDeletedHolds == ASSUME DiscIInv, FollowDeleted PROVE DiscIInv'
<1>1. /\ scan.pc = "follow" /\ clsVars' = clsVars /\ UNCHANGED <<file, version, known, pass, result, late, followLost>>
      /\ job' = job
  BY DEF FollowDeleted, clsVars
<1>2. /\ FilesTyped /\ result \in [Paths -> ResultRow] /\ scan.gone \in SUBSET Paths
      /\ scan.moved \in SUBSET (Paths \X Paths) /\ scan.seen \in [Paths -> Nat]
      /\ scan = [pc |-> "follow", seen |-> scan.seen, gone |-> scan.gone, moved |-> scan.moved]
  BY <1>1, ScanFields DEF DiscIInv, FilesTyped
<1>3. JobsKept'
  BY <1>1 DEF DiscIInv, JobsKept, Exists
<1>4. \A m \in scan.moved : scan.seen[m[1]] = 0 /\ scan.seen[m[2]] # 0
  BY <1>1 DEF DiscIInv, Removals
<1>5. ~late /\ ~followLost => \A p \in Paths : scan.seen[p] = 0 /\ result[p].version # 0 =>
                                p \in scan.gone \/ \E q \in Paths : <<p, q>> \in scan.moved
  BY <1>1 DEF DiscIInv, Followed, StillFollowed, Removing3
<1>6. CASE ResultsIn(scan.gone) = {}
  <2>1. scan' = [pc |-> "follow", seen |-> scan.seen, gone |-> {}, moved |-> scan.moved]
    BY <1>2, <1>6 DEF FollowDeleted
  <2>2. scan' \in ScanRow
    BY <1>2, <2>1 DEF ScanRow
  <2>3. FilesTyped'
    BY <1>1, <1>2, <2>2, FilesHold DEF FilesTyped
  <2>4. \A j \in JobIds : Staying(j)' => Staying(j)
    BY <1>1, <2>1 DEF Staying, Exists, BeingRemoved
  <2>5. Removals'
    BY <1>4, <2>1 DEF Removals, Removing3
  <2>6. Followed'
    <3>1. \A p \in scan.gone : result[p].version = 0
      BY <1>6 DEF ResultsIn
    <3> QED
      BY <1>1, <1>5, <2>1, <3>1 DEF Followed, StillFollowed
  <2> QED
    BY <1>1, <1>3, <2>3, <2>4, <2>5, <2>6, QueueRests DEF DiscIInv
<1>7. CASE ResultsIn(scan.gone) # {}
  <2>1. PICK paths : paths = ResultsIn(scan.gone)
    OBVIOUS
  <2>2. paths \in SUBSET Paths /\ \A p \in scan.gone : result[p].version # 0 => p \in paths
    BY <1>2, <2>1 DEF ResultsIn
  <2>3. scan' = [pc |-> "matches", seen |-> scan.seen, gone |-> {}, moved |-> scan.moved,
                 found |-> {<<p, result[p]>> : p \in paths}, jobs |-> {result[p].job : p \in paths} \ {0}]
    BY <1>7, <2>1 DEF FollowDeleted, Removing
  <2>4. /\ scan' \in ScanRow
        /\ \A x \in scan'.found : x[2].job # 0 => x[2].job \in scan'.jobs
        /\ \A p \in paths : <<p, result[p]>> \in scan'.found
    BY <1>1, <1>2, <2>2, <2>3, RemovingBegins
  <2>5. scan'.pc = "matches" /\ scan'.seen = scan.seen /\ scan'.moved = scan.moved
    BY <2>3
  <2>6. FilesTyped'
    BY <1>1, <1>2, <2>4, FilesHold DEF FilesTyped
  <2>7. \A j \in JobIds : Staying(j)' => Staying(j)
    BY <1>1, <2>5 DEF Staying, Exists, BeingRemoved
  <2>8. Removals'
    BY <1>4, <2>4, <2>5 DEF Removals
  <2>9. Followed'
    BY <1>1, <1>5, <2>2, <2>4, <2>5 DEF Followed, StillFollowed, Removing3
  <2> QED
    BY <1>1, <1>3, <2>6, <2>7, <2>8, <2>9, QueueRests DEF DiscIInv
<1> QED
  BY <1>6, <1>7

LEMMA FollowRenamedHolds ==
    ASSUME DiscIInv, NEW p \in Paths, NEW q \in Paths, FollowRenamed(p, q)
    PROVE  DiscIInv'
<1>1. /\ scan.pc = "follow" /\ scan.gone = {} /\ <<p, q>> \in scan.moved
      /\ clsVars' = clsVars /\ UNCHANGED <<file, version, known, pass, result, late, followLost>> /\ job' = job
  BY DEF FollowRenamed, clsVars
<1>2. /\ FilesTyped /\ result \in [Paths -> ResultRow] /\ known \in [Paths -> Nat]
      /\ scan.moved \in SUBSET (Paths \X Paths) /\ scan.seen \in [Paths -> Nat]
      /\ scan = [pc |-> "follow", seen |-> scan.seen, gone |-> scan.gone, moved |-> scan.moved]
  BY <1>1, ScanFields DEF DiscIInv, FilesTyped
<1>3. PICK rest : rest = scan.moved \ {<<p, q>>}
  OBVIOUS
<1>4. rest \in SUBSET (Paths \X Paths)
  BY <1>2, <1>3
<1>5. \A m \in scan.moved : scan.seen[m[1]] = 0 /\ scan.seen[m[2]] # 0
  BY <1>1 DEF DiscIInv, Removals
<1>6. \A m \in rest : scan.seen[m[1]] = 0 /\ scan.seen[m[2]] # 0
  BY <1>3, <1>5
<1>7. scan.seen[p] = 0 /\ scan.seen[q] # 0
  BY <1>1, <1>5
<1>8. ~late /\ ~followLost => \A r \in Paths : scan.seen[r] = 0 /\ result[r].version # 0 =>
                                r = p \/ \E s \in Paths : <<r, s>> \in rest
  <2> SUFFICES ASSUME ~late, ~followLost, NEW r \in Paths, scan.seen[r] = 0, result[r].version # 0, r # p
               PROVE  \E s \in Paths : <<r, s>> \in rest
    OBVIOUS
  <2>1. StillFollowed(r)
    BY <1>1 DEF DiscIInv, Followed
  <2>2. PICK s \in Paths : <<r, s>> \in scan.moved
    BY <1>1, <2>1 DEF StillFollowed, Removing3
  <2>3. <<r, s>> # <<p, q>>
    OBVIOUS
  <2> QED
    BY <1>3, <2>2, <2>3
<1>9. JobsKept'
  BY <1>1 DEF DiscIInv, JobsKept, Exists
<1>10. CASE result[q].version # 0
  <2>1. scan' = [pc |-> "follow", seen |-> scan.seen, gone |-> {p}, moved |-> rest]
    BY <1>3, <1>10 DEF FollowRenamed
  <2>2. scan' \in ScanRow
    <3>1. {p} \in SUBSET Paths
      OBVIOUS
    <3> QED
      BY <1>2, <1>4, <2>1, <3>1 DEF ScanRow
  <2>3. FilesTyped'
    BY <1>1, <1>2, <2>2, FilesHold DEF FilesTyped
  <2>4. \A j \in JobIds : Staying(j)' => Staying(j)
    BY <1>1, <2>1 DEF Staying, Exists, BeingRemoved
  <2>5. Removals'
    BY <1>6, <2>1 DEF Removals, Removing3
  <2>6. Followed'
    BY <1>1, <1>8, <2>1 DEF Followed, StillFollowed
  <2> QED
    BY <1>1, <1>9, <2>3, <2>4, <2>5, <2>6, QueueRests DEF DiscIInv
<1>11. CASE result[q].version = 0
  <2>1. scan' = [pc |-> "move", seen |-> scan.seen, gone |-> {}, moved |-> rest, from |-> p, to |-> q]
    BY <1>3, <1>11 DEF FollowRenamed
  <2>2. scan' \in ScanRow
    BY <1>2, <1>4, <2>1 DEF ScanRow
  <2>3. FilesTyped'
    BY <1>1, <1>2, <2>2, FilesHold DEF FilesTyped
  <2>4. \A j \in JobIds : Staying(j)' => Staying(j)
    BY <1>1, <2>1 DEF Staying, Exists, BeingRemoved
  <2>5. Removals'
    BY <1>6, <1>7, <2>1 DEF Removals, Removing3
  <2>6. Followed'
    BY <1>1, <1>8, <2>1 DEF Followed, StillFollowed
  <2> QED
    BY <1>1, <1>9, <2>3, <2>4, <2>5, <2>6, QueueRests DEF DiscIInv
<1> QED
  BY <1>10, <1>11

LEMMA MoveResultHolds == ASSUME DiscIInv, MoveResult PROVE DiscIInv'
<1>1. /\ scan.pc = "move" /\ followLost' = (followLost \/ NameTaken)
      /\ clsVars' = clsVars /\ UNCHANGED <<file, version, known, pass, late>> /\ job' = job
  BY DEF MoveResult, clsVars
<1>2. /\ FilesTyped /\ result \in [Paths -> ResultRow] /\ known \in [Paths -> Nat] /\ scan.gone = {}
      /\ scan.moved \in SUBSET (Paths \X Paths) /\ scan.seen \in [Paths -> Nat] /\ followLost \in BOOLEAN
      /\ scan.from \in Paths /\ scan.to \in Paths
  BY <1>1, ScanFields DEF DiscIInv, FilesTyped
<1>3. PICK p \in Paths, q \in Paths : p = scan.from /\ q = scan.to
  BY <1>2
<1>4. scan.seen[p] = 0 /\ scan.seen[q] # 0 /\ \A m \in scan.moved : scan.seen[m[1]] = 0 /\ scan.seen[m[2]] # 0
  BY <1>1, <1>3 DEF DiscIInv, Removals
<1>5. PICK rest \in SUBSET (Paths \X Paths) : /\ rest = IF NameTaken THEN {} ELSE scan.moved
                                              /\ rest \subseteq scan.moved
  BY <1>2
<1>6. scan' = [pc |-> "follow", seen |-> scan.seen, gone |-> {}, moved |-> rest]
  BY <1>5 DEF MoveResult
<1>7. scan' \in ScanRow
  BY <1>2, <1>6 DEF ScanRow
<1>8. \A j \in JobIds : Staying(j)' => Staying(j)
  BY <1>1, <1>6 DEF Staying, Exists, BeingRemoved
<1>9. Removals'
  BY <1>4, <1>5, <1>6 DEF Removals, Removing3
<1>10. followLost' \in BOOLEAN
  BY <1>1
<1>11. /\ \A r \in Paths : result[r].job # 0 => result[r].version # 0 /\ job[result[r].job].status # "ABSENT"
       /\ \A r, s \in Paths : result[r].job # 0 /\ result[r].job = result[s].job => r = s
       /\ \A j \in JobIds : Exists(j) /\ job[j].discovery => \E r \in Paths : result[r].job = j
  BY DEF DiscIInv, JobsKept
<1>12. ~late /\ ~followLost => \A r \in Paths : scan.seen[r] = 0 /\ result[r].version # 0 =>
                                 r = p \/ \E s \in Paths : <<r, s>> \in scan.moved
  BY <1>1, <1>2, <1>3 DEF DiscIInv, Followed, StillFollowed, Removing3
<1>13. CASE NameTaken \/ result[p].version = 0
  <2>1. result' = result
    BY <1>3, <1>13 DEF MoveResult
  <2>2. JobsKept'
    BY <1>1, <1>11, <2>1 DEF JobsKept, Exists
  <2>3. FilesTyped'
    BY <1>1, <1>2, <1>7, <1>10, <2>1, FilesHold DEF FilesTyped
  <2>4. Followed'
    <3>1. NameTaken => followLost'
      BY <1>1
    <3>2. CASE ~NameTaken
      BY <1>1, <1>5, <1>6, <1>12, <1>13, <2>1, <3>2 DEF Followed, StillFollowed
    <3> QED
      BY <3>1, <3>2 DEF Followed
  <2> QED
    BY <1>1, <1>8, <1>9, <2>2, <2>3, <2>4, QueueRests DEF DiscIInv
<1>14. CASE ~NameTaken /\ result[p].version # 0
  <2>1. /\ result' = [result EXCEPT ![q] = result[p], ![p] = NoResult] /\ result[q].version = 0 /\ rest = scan.moved
    BY <1>3, <1>5, <1>14 DEF MoveResult, NameTaken
  <2>2. NoResult \in ResultRow /\ NoResult.job = 0 /\ NoResult.version = 0
    BY ClassificationAssumption DEF NoResult, ResultRow
  <2>3. result' \in [Paths -> ResultRow]
    BY <1>2, <2>1, <2>2
  <2>4. FilesTyped'
    BY <1>1, <1>2, <1>7, <1>10, <2>3, FilesHold DEF FilesTyped
  <2>5. result'[p] = NoResult /\ result'[q] = result[p] /\ \A r \in Paths \ {p, q} : result'[r] = result[r]
    BY <1>2, <1>4, <2>1
  <2>6. result[q].job = 0
    BY <1>11, <2>1
  <2>7. JobsKept'
    <3>1. \A r \in Paths : result'[r].job # 0 => result'[r].version # 0 /\ job'[result'[r].job].status # "ABSENT"
      BY <1>1, <1>11, <2>2, <2>5
    <3>2. \A r, s \in Paths : result'[r].job # 0 /\ result'[r].job = result'[s].job => r = s
      BY <1>11, <2>2, <2>5
    <3>3. ASSUME NEW j \in JobIds, Exists(j)', job'[j].discovery PROVE \E r \in Paths : result'[r].job = j
      <4>1. PICK r \in Paths : result[r].job = j
        BY <1>1, <1>11, <3>3 DEF Exists
      <4>2. j # 0
        BY ClassificationAssumption DEF JobIds
      <4>3. r # q
        BY <2>6, <4>1, <4>2
      <4> QED
        BY <2>5, <4>1, <4>3
    <3> QED
      BY <3>1, <3>2, <3>3 DEF JobsKept
  <2>8. Followed'
    <3> SUFFICES ASSUME ~late, ~followLost, NEW r \in Paths, scan.seen[r] = 0, result'[r].version # 0
                 PROVE  \E s \in Paths : <<r, s>> \in rest
      BY <1>1, <1>6 DEF Followed, StillFollowed
    <3>1. r # p /\ r # q
      BY <1>4, <2>2, <2>5
    <3> QED
      BY <1>12, <2>1, <2>5, <3>1
  <2> QED
    BY <1>1, <1>8, <1>9, <2>4, <2>7, <2>8, QueueRests DEF DiscIInv
<1> QED
  BY <1>13, <1>14

LEMMA RemoveMatchesHolds == ASSUME DiscIInv, RemoveMatches PROVE DiscIInv'
<1>1. /\ scan.pc = "matches" /\ matches' = {m \in matches : m[1] \notin scan.jobs}
      /\ UNCHANGED <<job, raised, noted, policy, cached, tick, inserts, crossed, file, version, known, pass, result, late, followLost>>
  BY DEF RemoveMatches
<1>2. /\ FilesTyped /\ scan.moved \in SUBSET (Paths \X Paths) /\ scan.seen \in [Paths -> Nat]
      /\ scan.found \in SUBSET (Paths \X ResultRow) /\ scan.jobs \in SUBSET JobIds
      /\ scan = [pc |-> scan.pc, seen |-> scan.seen, gone |-> {}, moved |-> scan.moved,
                 found |-> scan.found, jobs |-> scan.jobs]
  BY <1>1, ScanFields DEF DiscIInv, Removing3
<1>3. scan' = [pc |-> "jobs", seen |-> scan.seen, gone |-> {}, moved |-> scan.moved,
               found |-> scan.found, jobs |-> scan.jobs]
  BY <1>2 DEF RemoveMatches
<1>4. scan' \in ScanRow
  BY <1>2, <1>3 DEF ScanRow, Removing3
<1>5. FilesTyped'
  BY <1>1, <1>2, <1>4, FilesHold DEF FilesTyped
<1>6. JobsOnly
  BY <1>1 DEF JobsOnly, DiscIInv, JobsTyped
<1>7. ASSUME NEW j \in JobIds PROVE SameWork(j)
  <2>1. Exists(j)' <=> Exists(j)
    BY <1>1 DEF Exists
  <2>2. Staying(j)' => Staying(j) /\ j \notin scan.jobs
    BY <1>1, <1>3, <2>1 DEF Staying, BeingRemoved
  <2>3. j \notin scan.jobs => FindsOf(j)' = FindsOf(j)
    BY <1>1 DEF FindsOf
  <2> QED
    BY <1>1, <2>1, <2>2, <2>3 DEF SameWork
<1>8. JobsKept'
  BY <1>1 DEF DiscIInv, JobsKept, Exists
<1>9. Removals'
  BY <1>1, <1>3 DEF DiscIInv, Removals, Removing3
<1>10. Followed'
  <2>1. scan'.pc = "jobs" /\ scan'.seen = scan.seen /\ scan'.gone = scan.gone /\ scan'.moved = scan.moved
        /\ scan'.found = scan.found
    BY <1>2, <1>3
  <2> QED
    BY <1>1, <2>1 DEF DiscIInv, Followed, StillFollowed, Removing3
<1> QED
  BY <1>5, <1>6, <1>7, <1>8, <1>9, <1>10, JobsOnlyKeeps, WorkKept DEF DiscIInv

\* Removing jobs leaves a row of each that says so.
LEMMA WithoutRows ==
    ASSUME job \in [JobIds -> JobRow], NEW jobs
    PROVE  /\ Without(jobs) \in [JobIds -> JobRow]
           /\ \A j \in JobIds : /\ j \in jobs => Without(jobs)[j].status = "REMOVED"
                                /\ j \notin jobs => Without(jobs)[j] = job[j]
<1>1. AbsentJob \in JobRow
  <2>1. <<>> \in Seq(Sensitive)
    OBVIOUS
  <2> QED
    BY <2>1 DEF AbsentJob, JobRow
<1>2. PICK a : a = AbsentJob
  OBVIOUS
<1>3. PICK r : r = [a EXCEPT !.status = "REMOVED"]
  OBVIOUS
<1>4. r \in JobRow /\ r.status = "REMOVED"
  BY <1>1, <1>2, <1>3 DEF JobRow
<1>5. Without(jobs) = [j \in JobIds |-> IF j \in jobs THEN r ELSE job[j]]
  BY <1>2, <1>3 DEF Without
<1> QED
  BY <1>4, <1>5

LEMMA RemoveJobHolds == ASSUME DiscIInv, RemoveJob PROVE DiscIInv'
<1>1. /\ scan.pc = "jobs"
      /\ UNCHANGED <<matches, raised, noted, policy, cached, tick, inserts, crossed, file, version, known, pass, result, late>>
  BY DEF RemoveJob
<1>2. /\ FilesTyped /\ scan.moved \in SUBSET (Paths \X Paths) /\ scan.seen \in [Paths -> Nat]
      /\ scan.found \in SUBSET (Paths \X ResultRow) /\ scan.jobs \in SUBSET JobIds
      /\ scan = [pc |-> scan.pc, seen |-> scan.seen, gone |-> {}, moved |-> scan.moved,
                 found |-> scan.found, jobs |-> scan.jobs]
  BY <1>1, ScanFields DEF DiscIInv, Removing3
<1>3. job \in [JobIds -> JobRow] /\ followLost \in BOOLEAN /\ known \in [Paths -> Nat] /\ result \in [Paths -> ResultRow]
  BY DEF DiscIInv, JobsTyped, FilesTyped
<1>4. CASE \E m \in matches : m[1] \in scan.jobs
  <2>1. /\ followLost' = TRUE /\ job' = job
        /\ scan' = [pc |-> "follow", seen |-> scan.seen, gone |-> {}, moved |-> {}]
    BY <1>4 DEF RemoveJob
  <2>2. scan' \in ScanRow
    BY <1>2, <2>1 DEF ScanRow
  <2>3. FilesTyped'
    BY <1>1, <1>2, <1>3, <2>1, <2>2, FilesHold
  <2>4. JobsOnly
    BY <1>1, <2>1 DEF JobsOnly, DiscIInv, JobsTyped
  <2>5. ASSUME NEW j \in JobIds PROVE SameWork(j)
    BY <1>1, <2>1 DEF SameWork, Exists, Staying
  <2>6. JobsKept'
    BY <1>1, <2>1 DEF DiscIInv, JobsKept, Exists
  <2>7. Removals' /\ Followed'
    BY <2>1 DEF Removals, Followed, Removing3
  <2> QED
    BY <2>3, <2>4, <2>5, <2>6, <2>7, JobsOnlyKeeps, WorkKept DEF DiscIInv
<1>5. CASE ~\E m \in matches : m[1] \in scan.jobs
  <2>1. /\ followLost' = followLost /\ job' = Without(scan.jobs)
        /\ scan' = [pc |-> "results", seen |-> scan.seen, gone |-> {}, moved |-> scan.moved,
                    found |-> scan.found, jobs |-> scan.jobs]
    BY <1>2, <1>5 DEF RemoveJob
  <2>2. scan' \in ScanRow
    BY <1>2, <2>1 DEF ScanRow, Removing3
  <2>3. FilesTyped'
    BY <1>1, <1>2, <1>3, <2>1, <2>2, FilesHold
  <2>4. /\ job' \in [JobIds -> JobRow]
        /\ \A j \in JobIds : /\ j \in scan.jobs => job'[j].status = "REMOVED"
                             /\ j \notin scan.jobs => job'[j] = job[j]
    BY <1>3, <2>1, WithoutRows
  <2>5. JobsOnly
    BY <1>1, <2>4 DEF JobsOnly
  <2>6. ASSUME NEW j \in JobIds PROVE SameWork(j)
    <3>1. Exists(j)' => Exists(j) /\ job'[j] = job[j]
      BY <2>4 DEF Exists
    <3>2. Staying(j)' => Staying(j) /\ FindsOf(j)' = FindsOf(j)
      BY <1>1, <2>1, <3>1 DEF Staying, BeingRemoved, FindsOf
    <3> QED
      BY <1>1, <3>1, <3>2 DEF SameWork
  <2>7. JobsKept'
    <3>1. ASSUME NEW r \in Paths, result[r].job # 0
          PROVE  result[r].version # 0 /\ job'[result[r].job].status # "ABSENT"
      <4>1. result[r].job \in JobIds
        BY <1>3, <3>1, ClassificationAssumption DEF ResultRow, JobIds
      <4> QED
        BY <2>4, <3>1, <4>1 DEF DiscIInv, JobsKept
    <3>2. ASSUME NEW j \in JobIds, Exists(j)', job'[j].discovery PROVE \E r \in Paths : result[r].job = j
      BY <2>4, <3>2 DEF DiscIInv, JobsKept, Exists
    <3>3. \A r, s \in Paths : result[r].job # 0 /\ result[r].job = result[s].job => r = s
      BY DEF DiscIInv, JobsKept
    <3> QED
      BY <1>1, <3>1, <3>2, <3>3 DEF JobsKept
  <2>8. Removals'
    BY <1>1, <1>2, <2>1, <2>4 DEF DiscIInv, Removals, Removing3
  <2>9. Followed'
    <3>1. scan'.pc = "results" /\ scan'.seen = scan.seen /\ scan'.gone = scan.gone /\ scan'.moved = scan.moved
          /\ scan'.found = scan.found
      BY <1>2, <2>1
    <3> QED
      BY <1>1, <2>1, <3>1 DEF DiscIInv, Followed, StillFollowed, Removing3
  <2> QED
    BY <2>3, <2>5, <2>6, <2>7, <2>8, <2>9, JobsOnlyKeeps, WorkKept DEF DiscIInv
<1> QED
  BY <1>4, <1>5

LEMMA RemoveResultsHolds == ASSUME DiscIInv, RemoveResults PROVE DiscIInv'
<1>1. /\ scan.pc = "results" /\ clsVars' = clsVars /\ job' = job
      /\ result' = [p \in Paths |-> IF <<p, result[p]>> \in scan.found THEN NoResult ELSE result[p]]
      /\ scan' = [pc |-> "follow", seen |-> scan.seen, gone |-> {}, moved |-> scan.moved]
      /\ UNCHANGED <<file, version, known, pass, late, followLost>>
  BY DEF RemoveResults, clsVars
<1>2. /\ FilesTyped /\ scan.moved \in SUBSET (Paths \X Paths) /\ scan.seen \in [Paths -> Nat] /\ scan.gone = {}
      /\ result \in [Paths -> ResultRow] /\ known \in [Paths -> Nat] /\ followLost \in BOOLEAN
  BY <1>1, ScanFields DEF DiscIInv, FilesTyped, Removing3
<1>3. NoResult \in ResultRow /\ NoResult.job = 0 /\ NoResult.version = 0
  BY ClassificationAssumption DEF NoResult, ResultRow
<1>4. \A p \in Paths : /\ <<p, result[p]>> \in scan.found => result'[p] = NoResult
                       /\ <<p, result[p]>> \notin scan.found => result'[p] = result[p]
  BY <1>1
<1>5. FilesTyped'
  <2>1. result' \in [Paths -> ResultRow]
    BY <1>1, <1>2, <1>3
  <2>2. scan' \in ScanRow
    BY <1>1, <1>2 DEF ScanRow
  <2> QED
    BY <1>1, <1>2, <2>1, <2>2, FilesHold
<1>6. \A j \in scan.jobs : job[j].status = "REMOVED"
  BY <1>1 DEF DiscIInv, Removals
<1>7. \A j \in JobIds : Staying(j)' => Staying(j)
  BY <1>1, <1>6 DEF Staying, Exists, BeingRemoved
<1>8. JobsKept'
  <2>1. \A r \in Paths : result'[r].job # 0 => result'[r].version # 0 /\ job'[result'[r].job].status # "ABSENT"
    BY <1>1, <1>3, <1>4 DEF DiscIInv, JobsKept
  <2>2. ASSUME NEW r \in Paths, NEW s \in Paths, result'[r].job # 0, result'[r].job = result'[s].job PROVE r = s
    <3>1. result'[r] = result[r] /\ result'[s] = result[s]
      BY <1>3, <1>4, <2>2
    <3> QED
      BY <2>2, <3>1 DEF DiscIInv, JobsKept
  <2>3. ASSUME NEW j \in JobIds, Exists(j)', job'[j].discovery PROVE \E r \in Paths : result'[r].job = j
    <3>1. PICK r \in Paths : result[r].job = j
      BY <1>1, <2>3 DEF DiscIInv, JobsKept, Exists
    <3>2. j # 0 /\ job[j].status # "REMOVED"
      BY <1>1, <2>3, ClassificationAssumption DEF JobIds, Exists
    <3>3. \A x \in scan.found : x[2].job # 0 => x[2].job \in scan.jobs
      BY <1>1 DEF DiscIInv, Removals, Removing3
    <3>4. <<r, result[r]>> \notin scan.found
      BY <1>6, <3>1, <3>2, <3>3
    <3> QED
      BY <1>4, <3>1, <3>4
  <2> QED
    BY <2>1, <2>2, <2>3 DEF JobsKept
<1>9. Removals'
  BY <1>1 DEF DiscIInv, Removals, Removing3
<1>10. Followed'
  <2> SUFFICES ASSUME ~late, ~followLost, NEW p \in Paths, scan.seen[p] = 0, result'[p].version # 0
               PROVE  \E q \in Paths : <<p, q>> \in scan.moved
    BY <1>1 DEF Followed, StillFollowed
  <2>1. <<p, result[p]>> \notin scan.found /\ result'[p] = result[p]
    BY <1>3, <1>4
  <2>2. StillFollowed(p)
    BY <1>1, <2>1 DEF DiscIInv, Followed
  <2> QED
    BY <1>1, <1>2, <2>1, <2>2 DEF StillFollowed
<1> QED
  BY <1>1, <1>5, <1>7, <1>8, <1>9, <1>10, QueueRests DEF DiscIInv

LEMMA ScanCompletesHolds == ASSUME DiscIInv, ScanCompletes PROVE DiscIInv'
<1>1. /\ scan.pc = "follow" /\ scan.gone = {} /\ scan.moved = {} /\ known' = scan.seen /\ scan' = IdleScan
      /\ pass' = IF pass.pc = "idle" THEN [pc |-> "fetch"] ELSE pass
      /\ clsVars' = clsVars /\ job' = job /\ UNCHANGED <<file, version, result, late, followLost>>
  BY DEF ScanCompletes, clsVars
<1>2. FilesTyped /\ scan.seen \in [Paths -> Nat]
  BY <1>1, ScanFields DEF DiscIInv
<1>3. pass' \in PassRow /\ (pass'.pc = "post" => pass'.batch # <<>>)
  BY <1>1, <1>2 DEF FilesTyped, PassRow
<1>4. scan' \in ScanRow
  BY <1>1 DEF ScanRow
<1>5. FilesTyped'
  BY <1>1, <1>2, <1>3, <1>4 DEF FilesTyped
<1>6. \A j \in JobIds : Staying(j)' => Staying(j)
  BY <1>1 DEF Staying, Exists, BeingRemoved
<1>7. JobsKept'
  BY <1>1 DEF DiscIInv, JobsKept, Exists
<1>8. Removals'
  BY <1>1 DEF Removals, Removing3, IdleScan
<1>9. Followed'
  <2>1. scan'.pc = "idle"
    BY <1>1 DEF IdleScan
  <2> SUFFICES ASSUME ~late, ~followLost, NEW p \in Paths, scan.seen[p] = 0 PROVE result[p].version = 0
    BY <1>1, <2>1 DEF Followed
  <2>2. result[p].version # 0 => StillFollowed(p)
    BY <1>1 DEF DiscIInv, Followed
  <2> QED
    BY <1>1, <2>2 DEF StillFollowed, Removing3
<1> QED
  BY <1>1, <1>5, <1>6, <1>7, <1>8, <1>9, QueueRests DEF DiscIInv

\* What a post does to the rows of the queue.
LEMMA ExaminedRows ==
    ASSUME DiscIInv, NEW f \in PostRow, NEW text \in Texts, Examined(f, text), result[f.path].version # f.version
    PROVE  \E id \in 0..MaxJobs :
             /\ id # 0 => id \in JobIds /\ job[id].status = "ABSENT" /\ job'[id].status = "PENDING"
             /\ job' \in [JobIds -> JobRow]
             /\ \A j \in JobIds \ {id} : /\ j = result[f.path].job => job'[j].status = "REMOVED"
                                         /\ j # result[f.path].job => job'[j] = job[j]
             /\ result[f.path].job # id \/ id = 0
             /\ result' = [result EXCEPT ![f.path] = [version |-> f.version, job |-> id]]
<1>1. /\ job \in [JobIds -> JobRow] /\ result \in [Paths -> ResultRow]
      /\ f.path \in Paths /\ f.version \in Nat /\ f.sample \in BOOLEAN /\ text \in Seq(Sensitive)
  BY ClassificationAssumption DEF DiscIInv, JobsTyped, FilesTyped, PostRow
<1>2. PICK o : o = result[f.path].job
  OBVIOUS
<1>3. o \in 0..MaxJobs /\ (o # 0 => o \in JobIds /\ job[o].status # "ABSENT")
  BY <1>1, <1>2, ClassificationAssumption DEF ResultRow, JobIds, DiscIInv, JobsKept
<1>4. PICK cleared : cleared = Without({o} \ {0})
  OBVIOUS
<1>5. /\ cleared \in [JobIds -> JobRow]
      /\ \A j \in JobIds : /\ j = o => cleared[j].status = "REMOVED"
                           /\ j # o => cleared[j] = job[j]
  <2>1. \A j \in JobIds : j \in {o} \ {0} <=> j = o
    BY ClassificationAssumption DEF JobIds
  <2> QED
    BY <1>1, <1>4, <2>1, WithoutRows
<1>6. CASE f.sample
  <2>1. NextJob \in Unused /\ NextJob \in JobIds
    BY <1>6, NextJobThere DEF Examined
  <2>2. PICK id : id = NextJob
    OBVIOUS
  <2>3. PICK row : row = [status |-> "PENDING", discovery |-> TRUE, text |-> text]
    OBVIOUS
  <2>4. row \in JobRow /\ row.status = "PENDING"
    BY <1>1, <2>3 DEF JobRow
  <2>5. /\ job' = [cleared EXCEPT ![id] = row]
        /\ result' = [result EXCEPT ![f.path] = [version |-> f.version, job |-> id]]
    BY <1>2, <1>4, <1>6, <2>2, <2>3 DEF Examined
  <2>6. id \in JobIds /\ job[id].status = "ABSENT" /\ id # o /\ id # 0 /\ id \in 0..MaxJobs
    BY <1>3, <2>1, <2>2, ClassificationAssumption DEF Unused, JobIds
  <2>7. /\ job' \in [JobIds -> JobRow] /\ job'[id] = row
        /\ \A j \in JobIds \ {id} : job'[j] = cleared[j]
    BY <1>5, <2>4, <2>5, <2>6
  <2> QED
    BY <1>2, <1>5, <2>4, <2>5, <2>6, <2>7
<1>7. CASE ~f.sample
  <2>1. /\ job' = cleared
        /\ result' = [result EXCEPT ![f.path] = [version |-> f.version, job |-> 0]]
    BY <1>2, <1>4, <1>7 DEF Examined
  <2>2. 0 \in 0..MaxJobs
    BY ClassificationAssumption
  <2> QED
    BY <1>2, <1>5, <2>1, <2>2
<1> QED
  BY <1>6, <1>7

LEMMA PostResultHolds == ASSUME DiscIInv, PostResult PROVE DiscIInv'
<1>1. FilesTyped /\ pass.pc = "post" /\ pass.batch # <<>>
  BY DEF DiscIInv, FilesTyped, PostResult
<1>2. /\ pass.todo \in SUBSET [path : Paths, version : Nat] /\ pass.batch \in Seq(PostRow)
      /\ pass = [pc |-> pass.pc, todo |-> pass.todo, batch |-> pass.batch]
  BY <1>1, PassFields
<1>3. Head(pass.batch) \in PostRow /\ Tail(pass.batch) \in Seq(PostRow)
  BY <1>1, <1>2
<1>4. PICK f \in PostRow : f = Head(pass.batch)
  BY <1>3
<1>5. PICK text \in Texts : Examined(f, text)
  BY <1>4 DEF PostResult
<1>6. pass' \in PassRow /\ (pass'.pc = "post" => pass'.batch # <<>>)
  <2>1. PICK b : b = Tail(pass.batch)
    OBVIOUS
  <2>2. pass' = [pc |-> IF Len(pass.batch) = 1 THEN "read" ELSE "post", todo |-> pass.todo, batch |-> b]
    BY <1>2, <2>1 DEF PostResult
  <2>3. b \in Seq(PostRow) /\ Len(b) = Len(pass.batch) - 1 /\ Len(pass.batch) \in Nat
    BY <1>1, <1>2, <1>3, <2>1
  <2>4. Len(pass.batch) # 1 => b # <<>>
    <3> SUFFICES ASSUME b = <<>> PROVE Len(pass.batch) = 1
      OBVIOUS
    <3>1. Len(b) = 0
      OBVIOUS
    <3> QED
      BY <2>3, <3>1
  <2> QED
    BY <1>2, <2>2, <2>3, <2>4 DEF PassRow
<1>7. UNCHANGED <<raised, noted, policy, cached, tick, inserts, crossed, clsFaults, file, version, known, scan, followLost>>
  BY <1>5 DEF Examined
<1>8. CASE result[f.path].version = f.version
  <2>1. UNCHANGED <<job, matches, result, late>>
    BY <1>5, <1>8 DEF Examined
  <2> QED
    BY <1>6, <1>7, <2>1, PassMoves DEF clsVars
<1>9. CASE result[f.path].version # f.version
  <2>1. PICK id \in 0..MaxJobs :
          /\ id # 0 => id \in JobIds /\ job[id].status = "ABSENT" /\ job'[id].status = "PENDING"
          /\ job' \in [JobIds -> JobRow]
          /\ \A j \in JobIds \ {id} : /\ j = result[f.path].job => job'[j].status = "REMOVED"
                                      /\ j # result[f.path].job => job'[j] = job[j]
          /\ result[f.path].job # id \/ id = 0
          /\ result' = [result EXCEPT ![f.path] = [version |-> f.version, job |-> id]]
    BY <1>5, <1>9, ExaminedRows
  <2>2. /\ matches' = {m \in matches : m[1] # result[f.path].job}
        /\ late' = (late \/ known[f.path] = 0 \/ (scan.pc # "idle" /\ scan.seen[f.path] = 0))
    BY <1>5, <1>9 DEF Examined
  <2>3. PICK o : o = result[f.path].job
    OBVIOUS
  <2>4. /\ f.path \in Paths /\ f.version \in Nat \ {0} /\ 0 \notin JobIds
        /\ result \in [Paths -> ResultRow] /\ result'[f.path] = [version |-> f.version, job |-> id]
        /\ \A r \in Paths \ {f.path} : result'[r] = result[r]
    BY <1>1, <2>1, ClassificationAssumption DEF FilesTyped, PostRow, JobIds
  <2>5. FilesTyped'
    <3>1. [version |-> f.version, job |-> id] \in ResultRow
      BY <2>4 DEF ResultRow
    <3>2. result' \in [Paths -> ResultRow]
      BY <2>1, <2>4, <3>1
    <3>3. late' \in BOOLEAN
      BY <1>1, <2>2 DEF FilesTyped
    <3> QED
      BY <1>1, <1>6, <1>7, <3>2, <3>3 DEF FilesTyped
  <2>6. JobsOnly
    <3>1. matches' \subseteq matches
      BY <2>2
    <3>2. \A j \in JobIds : \/ job'[j] = job[j]
                            \/ job'[j].status = "REMOVED"
                            \/ job[j].status = "ABSENT" /\ job'[j].status = "PENDING"
      BY <2>1, <2>4
    <3> QED
      BY <1>7, <2>1, <3>1, <3>2 DEF JobsOnly
  <2>7. ASSUME NEW j \in JobIds, job[j].status # "ABSENT" PROVE SameWork(j)
    <3>1. j # id
      BY <2>1, <2>4, <2>7
    <3>2. (j = o => job'[j].status = "REMOVED") /\ (j # o => job'[j] = job[j])
      BY <2>1, <2>3, <3>1
    <3>3. Exists(j)' => Exists(j) /\ job'[j] = job[j] /\ j # o
      BY <3>2 DEF Exists
    <3>4. j # o => FindsOf(j)' = FindsOf(j)
      BY <2>2, <2>3 DEF FindsOf
    <3>5. Staying(j)' => Staying(j) /\ FindsOf(j)' = FindsOf(j)
      BY <1>7, <3>3, <3>4 DEF Staying, BeingRemoved
    <3> QED
      BY <1>7, <3>3, <3>5 DEF SameWork
  <2>8. /\ \A r \in Paths : result[r].job # 0 => /\ result[r].version # 0 /\ job[result[r].job].status # "ABSENT"
                                                 /\ result[r].job \in JobIds
        /\ \A r, s \in Paths : result[r].job # 0 /\ result[r].job = result[s].job => r = s
        /\ \A j \in JobIds : Exists(j) /\ job[j].discovery => \E r \in Paths : result[r].job = j
    BY <2>4, ClassificationAssumption DEF DiscIInv, JobsKept, ResultRow, JobIds
  <2>9. JobsKept'
    <3>1. ASSUME NEW r \in Paths, result'[r].job # 0
          PROVE  result'[r].version # 0 /\ job'[result'[r].job].status # "ABSENT"
      <4>1. CASE r = f.path
        <5>1. result'[r].version = f.version /\ result'[r].job = id
          BY <2>4, <4>1
        <5> QED
          BY <2>1, <2>4, <3>1, <5>1
      <4>2. CASE r # f.path
        <5>1. result'[r] = result[r] /\ result[r].job # o
          BY <2>3, <2>4, <2>8, <3>1, <4>2
        <5>2. result[r].job # id
          BY <2>1, <2>8, <3>1, <5>1
        <5>3. job'[result[r].job] = job[result[r].job]
          BY <2>1, <2>3, <2>8, <3>1, <5>1, <5>2
        <5> QED
          BY <2>8, <3>1, <5>1, <5>3
      <4> QED
        BY <4>1, <4>2
    <3>2. \A r \in Paths \ {f.path} : result[r].job # 0 => result[r].job # id
      BY <2>1, <2>8
    <3>3. ASSUME NEW r \in Paths, NEW s \in Paths, result'[r].job # 0, result'[r].job = result'[s].job PROVE r = s
      <4>1. result'[f.path].job = id
        BY <2>4
      <4> QED
        BY <2>4, <2>8, <3>2, <3>3, <4>1
    <3>4. ASSUME NEW j \in JobIds, Exists(j)', job'[j].discovery PROVE \E r \in Paths : result'[r].job = j
      <4>1. CASE j = id
        <5>1. result'[f.path].job = j
          BY <2>4, <4>1
        <5> QED
          BY <2>4, <5>1
      <4>2. CASE j # id
        <5>1. j # o /\ job'[j] = job[j]
          BY <2>1, <2>3, <3>4, <4>2 DEF Exists
        <5>2. PICK r \in Paths : result[r].job = j
          BY <2>8, <3>4, <5>1 DEF Exists
        <5>3. r # f.path
          BY <2>3, <5>1, <5>2
        <5> QED
          BY <2>4, <5>2, <5>3
      <4> QED
        BY <4>1, <4>2
    <3> QED
      BY <3>1, <3>3, <3>4 DEF JobsKept
  <2>10. Removals'
    <3>1. ASSUME scan.pc = "results", NEW j \in scan.jobs PROVE job'[j].status = "REMOVED"
      <4>1. j \in JobIds
        BY <1>1, <3>1, ScanFields DEF Removing3
      <4>2. job[j].status = "REMOVED"
        BY <3>1 DEF DiscIInv, Removals
      <4>3. j # id
        BY <2>1, <4>1, <4>2, <2>4
      <4> QED
        BY <2>1, <4>1, <4>2, <4>3
    <3> QED
      BY <1>7, <3>1 DEF DiscIInv, Removals
  <2>11. Followed'
    <3> SUFFICES ASSUME ~late', ~followLost'
                 PROVE  /\ scan'.pc = "idle" => \A p \in Paths : known'[p] = 0 => result'[p].version = 0
                        /\ scan'.pc # "idle" =>
                             \A p \in Paths : scan'.seen[p] = 0 /\ result'[p].version # 0 => StillFollowed(p)'
      BY DEF Followed
    <3>1. ~late /\ ~followLost /\ known[f.path] # 0 /\ (scan.pc # "idle" => scan.seen[f.path] # 0)
      BY <1>7, <2>2
    <3>2. \A p \in Paths : known[p] = 0 \/ (scan.pc # "idle" /\ scan.seen[p] = 0) => p # f.path /\ result'[p] = result[p]
      BY <2>4, <3>1
    <3>3. ASSUME NEW p \in Paths, result'[p] = result[p], StillFollowed(p) PROVE StillFollowed(p)'
      BY <1>7, <3>3 DEF StillFollowed
    <3> QED
      BY <1>7, <3>1, <3>2, <3>3 DEF DiscIInv, Followed
  <2> QED
    BY <2>5, <2>6, <2>7, <2>9, <2>10, <2>11, JobsOnlyKeeps, WorkKept DEF DiscIInv
<1> QED
  BY <1>8, <1>9

\* The worker changes a row's outcome, or a row is created for a changed file; what
\* discovery knows is not touched.
LEMMA DiscRests ==
    ASSUME DiscIInv, discVars' = discVars,
           \A j \in JobIds : \/ job'[j] = job[j]
                             \/ Exists(j) /\ Exists(j)' /\ job'[j].discovery = job[j].discovery
                             \/ job[j].status = "ABSENT" /\ job'[j].status = "PENDING" /\ ~job'[j].discovery
    PROVE  FilesTyped' /\ JobsKept' /\ Removals' /\ Followed'
<1>1. UNCHANGED <<file, version, known, scan, pass, result, late, followLost>>
  BY DEF discVars
<1>2. FilesTyped' /\ Followed'
  BY <1>1 DEF DiscIInv, FilesTyped, Followed, StillFollowed
<1>3. JobsKept'
  <2>1. ASSUME NEW p \in Paths, result[p].job # 0 PROVE result[p].version # 0 /\ job'[result[p].job].status # "ABSENT"
    <3>1. result[p].job \in JobIds
      BY <2>1, ClassificationAssumption DEF DiscIInv, FilesTyped, ResultRow, JobIds
    <3>2. result[p].version # 0 /\ job[result[p].job].status # "ABSENT"
      BY <2>1 DEF DiscIInv, JobsKept
    <3> QED
      BY <3>1, <3>2 DEF Exists
  <2>2. \A p, q \in Paths : result[p].job # 0 /\ result[p].job = result[q].job => p = q
    BY DEF DiscIInv, JobsKept
  <2>3. ASSUME NEW j \in JobIds, Exists(j)', job'[j].discovery PROVE \E p \in Paths : result[p].job = j
    <3>1. Exists(j) /\ job[j].discovery
      BY <2>3 DEF Exists
    <3> QED
      BY <3>1 DEF DiscIInv, JobsKept
  <2> QED
    BY <1>1, <2>1, <2>2, <2>3 DEF JobsKept
<1>4. Removals'
  <2>1. ASSUME scan.pc = "results", NEW j \in scan.jobs PROVE job'[j].status = "REMOVED"
    <3>1. j \in JobIds
      BY <2>1, ScanFields DEF DiscIInv, Removing3
    <3>2. job[j].status = "REMOVED"
      BY <2>1 DEF DiscIInv, Removals
    <3> QED
      BY <3>1, <3>2 DEF Exists
  <2> QED
    BY <1>1, <2>1 DEF DiscIInv, Removals
<1> QED
  BY <1>2, <1>3, <1>4

LEMMA WorkSame ==
    ASSUME discVars' = discVars, NEW j,
           job'[j] = job[j]
             \/ (Exists(j) /\ job'[j].text = job[j].text /\ job'[j].discovery = job[j].discovery),
           FindsOf(j)' = FindsOf(j), \A a \in raised : a.job = j => a \in raised'
    PROVE  SameWork(j)
<1>1. scan' = scan /\ followLost' = followLost
  BY DEF discVars
<1>2. Exists(j)' => Exists(j) /\ job'[j].text = job[j].text /\ job'[j].discovery = job[j].discovery
  BY DEF Exists
<1>3. Staying(j)' => Staying(j)
  BY <1>1, <1>2 DEF Staying, BeingRemoved
<1> QED
  BY <1>2, <1>3 DEF SameWork

\* One tick moves, and at most one job of its batch with it.
LEMMA WorkMoves ==
    ASSUME JobsTyped, TicksOwn, WorkSound, NEW t \in Ticks, NEW c, c \in tick[t].todo \/ c \notin JobIds,
           \A u \in Ticks \ {t} : tick'[u] = tick[u],
           \A j \in JobIds \ {c} : job[j].status # "ABSENT" => SameWork(j),
           \A j \in JobIds \ {c} : job'[j].status = "DONE" => job[j].status = "DONE",
           \A m \in matches' : inserts'[m[1]] = 1,
           (tick[t].todo # {} => WorkOf(t, Current(t)))',
           c \in JobIds /\ job'[c].status = "DONE" /\ Staying(c)' => Complete(c)'
    PROVE  WorkSound'
<1>1. ASSUME NEW u \in Ticks \ {t}, tick'[u].todo # {} PROVE WorkOf(u, Current(u))'
  <2>1. PICK d : d = Current(u)
    OBVIOUS
  <2>2. Current(u)' = d /\ tick[u].todo # {} /\ u \in Ticks
    BY <1>1, <2>1 DEF Current
  <2>3. d \in tick[u].todo /\ d \in JobIds
    BY <2>1, <2>2, CurrentThere
  <2>4. job[d].status # "ABSENT" /\ d # c
    BY <2>2, <2>3 DEF TicksOwn, Owned
  <2>5. SameWork(d) /\ WorkOf(u, d) /\ tick'[u] = tick[u]
    BY <2>1, <2>2, <2>3, <2>4 DEF WorkSound
  <2>6. WorkOf(u, d)'
    BY <2>2, <2>3, <2>5, WorkStays
  <2> QED
    BY <2>2, <2>6 DEF WorkOf
<1>2. ASSUME NEW j \in JobIds, job'[j].status = "DONE", Staying(j)' PROVE Complete(j)'
  <2>1. CASE j = c
    BY <1>2, <2>1
  <2>2. CASE j # c
    <3>1. job[j].status = "DONE" /\ SameWork(j)
      BY <1>2, <2>2
    <3>2. Complete(j)
      BY <1>2, <3>1 DEF WorkSound, SameWork
    <3> QED
      BY <1>2, <3>1, <3>2, CompleteStays
  <2> QED
    BY <2>1, <2>2
<1>3. \A u \in Ticks : (tick[u].todo # {} => WorkOf(u, Current(u)))'
  BY <1>1
<1> QED
  BY <1>2, <1>3 DEF WorkSound

\* A tick that is not idle works on a job.
LEMMA AtWork ==
    ASSUME DiscIInv, NEW t \in Ticks, tick[t].pc # "idle"
    PROVE  /\ tick[t].todo # {} /\ Current(t) \in tick[t].todo /\ Current(t) \in JobIds
           /\ job[Current(t)].status \in {"PROCESSING", "REMOVED"} /\ job[Current(t)] \in JobRow
           /\ WorkOf(t, Current(t)) /\ tick[t] \in TickRow /\ tick \in [Ticks -> TickRow]
<1>1. tick[t].todo # {} /\ tick[t] \in TickRow /\ tick \in [Ticks -> TickRow]
  BY DEF DiscIInv, TicksOwn, Owned, JobsTyped
<1>2. Current(t) \in tick[t].todo /\ Current(t) \in JobIds
  BY <1>1, CurrentThere DEF DiscIInv
<1>3. job[Current(t)].status \in {"PROCESSING", "REMOVED"}
  BY <1>2 DEF DiscIInv, TicksOwn, Owned
<1>4. job[Current(t)] \in JobRow
  BY <1>2 DEF DiscIInv, JobsTyped
<1>5. WorkOf(t, Current(t))
  BY <1>1 DEF DiscIInv, WorkSound
<1> QED
  BY <1>1, <1>2, <1>3, <1>4, <1>5

\* A tick goes on with its job.
LEMMA GoesOn ==
    ASSUME DiscIInv, discVars' = discVars, NEW t \in Ticks, tick[t].pc # "idle", NEW c, c = Current(t),
           NEW s \in TickRow, tick' = [tick EXCEPT ![t] = s], s.todo = tick[t].todo, s.pc \in Working,
           s.pc \in {"begin", "record"} => tick[t].pc \in {"begin", "record"} /\ inserts'[c] = inserts[c],
           job' = job, policy' = policy,
           JobsTyped', NotesOne',
           \A j \in JobIds \ {c} : inserts'[j] = inserts[j] /\ FindsOf(j)' = FindsOf(j),
           \A m \in matches' : inserts'[m[1]] = 1,
           \A a \in raised : a.job # c => a \in raised',
           WorkOf(t, c)'
    PROVE  DiscIInv'
<1>1. /\ tick[t].todo # {} /\ c \in tick[t].todo /\ c \in JobIds /\ job[c].status \in {"PROCESSING", "REMOVED"}
      /\ tick \in [Ticks -> TickRow]
  BY AtWork
<1>2. tick'[t] = s /\ \A u \in Ticks \ {t} : tick'[u] = tick[u]
  BY <1>1
<1>3. FilesTyped' /\ JobsKept' /\ Removals' /\ Followed'
  BY DiscRests
<1>4. (tick[t].todo # {} => WorkOf(t, Current(t)))'
  <2>1. Current(t)' = c
    BY <1>2 DEF Current
  <2> QED
    BY <2>1 DEF WorkOf
<1>5. WorkSound'
  <2>1. \A j \in JobIds \ {c} : SameWork(j)
    <3> SUFFICES ASSUME NEW j \in JobIds \ {c} PROVE SameWork(j)
      OBVIOUS
    <3>1. job'[j] = job[j] /\ FindsOf(j)' = FindsOf(j) /\ \A a \in raised : a.job = j => a \in raised'
      OBVIOUS
    <3> QED
      BY <3>1, WorkSame
  <2>2. \A j \in JobIds \ {c} : job'[j].status = "DONE" => job[j].status = "DONE"
    OBVIOUS
  <2>3. ~(job'[c].status = "DONE")
    BY <1>1
  <2>4. JobsTyped /\ TicksOwn /\ WorkSound
    BY DEF DiscIInv
  <2> QED
    BY <1>1, <1>2, <1>4, <2>1, <2>2, <2>3, <2>4, WorkMoves
<1>6. TicksOwn'
  <2>1. ASSUME NEW u \in Ticks PROVE Owned(u)'
    <3>1. /\ (tick'[u].pc = "idle" <=> tick'[u].todo = {}) /\ tick'[u].todo = tick[u].todo
          /\ \A v \in Ticks : tick'[v].todo = tick[v].todo
      BY <1>1, <1>2 DEF DiscIInv, TicksOwn, Owned, Working
    <3>2. PICK d : d = Current(u)
      OBVIOUS
    <3>3. Current(u)' = d
      BY <3>1, <3>2 DEF Current
    <3>4. /\ \A v \in Ticks \ {u} : tick[u].todo \cap tick[v].todo = {}
          /\ \A j \in tick[u].todo :
               /\ job[j].status \in {"PROCESSING", "REMOVED"}
               /\ inserts[j] = 0 \/ (j = d /\ tick[u].pc \notin {"begin", "record"})
      BY <3>2 DEF DiscIInv, TicksOwn, Owned
    <3>5. \A j \in tick[u].todo : inserts'[j] = 0 \/ (j = d /\ tick'[u].pc \notin {"begin", "record"})
      <4>1. CASE u = t
        <5>1. d = c /\ tick'[u].pc = s.pc /\ tick[u].todo \subseteq JobIds
          BY <1>1, <1>2, <3>2, <4>1 DEF TickRow
        <5>2. ASSUME NEW j \in tick[u].todo, j # c PROVE inserts'[j] = 0
          BY <3>4, <5>1, <5>2
        <5>3. s.pc \in {"begin", "record"} => inserts'[c] = 0
          BY <1>1, <3>4, <4>1, <5>1
        <5> QED
          BY <5>1, <5>2, <5>3
      <4>2. CASE u # t
        <5>1. tick'[u] = tick[u] /\ tick[u].todo \subseteq JobIds /\ c \notin tick[u].todo
          BY <1>1, <1>2, <3>4, <4>2 DEF TickRow
        <5> QED
          BY <3>4, <5>1
      <4> QED
        BY <4>1, <4>2
    <3> QED
      BY <3>1, <3>3, <3>4, <3>5 DEF Owned
  <2>2. ASSUME NEW j \in JobIds, job'[j].status \in {"ABSENT", "PENDING"} PROVE inserts'[j] = 0
    <3>1. j # c /\ job[j].status \in {"ABSENT", "PENDING"}
      BY <1>1, <2>2
    <3> QED
      BY <3>1 DEF DiscIInv, TicksOwn
  <2> QED
    BY <2>1, <2>2 DEF TicksOwn
<1> QED
  BY <1>3, <1>5, <1>6 DEF DiscIInv

\* A row settles to an outcome.
LEMMA SettledRow ==
    ASSUME job \in [JobIds -> JobRow], NEW c \in JobIds, NEW outcome \in {"DONE", "FAILED"},
           job' = SetStatus(c, outcome)
    PROVE  /\ job' \in [JobIds -> JobRow]
           /\ \A j \in JobIds \ {c} : job'[j] = job[j]
           /\ job'[c] = job[c] \/ (Exists(c) /\ job'[c].status = outcome)
           /\ job'[c].text = job[c].text /\ job'[c].discovery = job[c].discovery
<1>1. CASE Exists(c)
  <2>1. PICK row : row = [job[c] EXCEPT !.status = outcome]
    OBVIOUS
  <2>2. row \in JobRow /\ row.status = outcome /\ row.text = job[c].text /\ row.discovery = job[c].discovery
    BY <2>1 DEF JobRow
  <2>3. job' = [job EXCEPT ![c] = row]
    BY <1>1, <2>1 DEF SetStatus
  <2> QED
    BY <1>1, <2>2, <2>3
<1>2. CASE ~Exists(c)
  BY <1>2 DEF SetStatus
<1> QED
  BY <1>1, <1>2

\* A tick is done with its job, whichever way, and takes the next of its batch.
LEMMA GoesToNext ==
    ASSUME DiscIInv, discVars' = discVars, NEW t \in Ticks, tick[t].pc # "idle", NextInBatch(t),
           UNCHANGED <<matches, raised, noted, policy, cached, inserts, crossed>>,
           \/ job' = job
           \/ job' = SetStatus(Current(t), "FAILED")
           \/ tick[t].pc = "finish" /\ job' = SetStatus(Current(t), "DONE")
    PROVE  DiscIInv'
<1>1. PICK c : c = Current(t)
  OBVIOUS
<1>2. /\ c \in tick[t].todo /\ c \in JobIds /\ job[c].status \in {"PROCESSING", "REMOVED"} /\ WorkOf(t, c)
      /\ tick \in [Ticks -> TickRow] /\ tick[t] \in TickRow
  BY <1>1, AtWork
<1>3. PICK rest : rest = tick[t].todo \ {c}
  OBVIOUS
<1>4. PICK s : s = IF rest = {} THEN IdleTick ELSE [IdleTick EXCEPT !.pc = "begin", !.todo = rest]
  OBVIOUS
<1>5. /\ s \in TickRow /\ s.todo = rest /\ s.pc \in {"idle", "begin"} /\ (s.pc = "idle" <=> rest = {})
  <2>1. IdleTick \in TickRow /\ IdleTick.pc = "idle" /\ IdleTick.todo = {}
    BY DEF IdleTick, TickRow, Verdicts
  <2>2. rest \in SUBSET JobIds
    BY <1>2, <1>3 DEF TickRow
  <2>3. PICK i \in TickRow : i = IdleTick
    BY <2>1
  <2>4. /\ [i EXCEPT !.pc = "begin", !.todo = rest] \in TickRow
        /\ [i EXCEPT !.pc = "begin", !.todo = rest].pc = "begin"
        /\ [i EXCEPT !.pc = "begin", !.todo = rest].todo = rest
    BY <2>2 DEF TickRow, Working
  <2> QED
    BY <1>4, <2>1, <2>3, <2>4
<1>6. tick' = [tick EXCEPT ![t] = s]
  BY <1>1, <1>3, <1>4 DEF NextInBatch
<1>7. tick'[t] = s /\ (\A u \in Ticks \ {t} : tick'[u] = tick[u]) /\ tick' \in [Ticks -> TickRow]
  BY <1>2, <1>5, <1>6
<1>8. /\ job' \in [JobIds -> JobRow] /\ \A j \in JobIds \ {c} : job'[j] = job[j]
      /\ job'[c] = job[c] \/ (Exists(c) /\ job'[c].status \in {"FAILED", "DONE"})
      /\ job'[c].text = job[c].text /\ job'[c].discovery = job[c].discovery
      /\ job'[c].status = "DONE" => tick[t].pc = "finish" /\ Exists(c)
  <2>1. job \in [JobIds -> JobRow]
    BY DEF DiscIInv, JobsTyped
  <2>2. CASE job' = job
    BY <1>2, <2>1, <2>2
  <2>3. CASE job' = SetStatus(Current(t), "FAILED")
    <3>1. /\ job' \in [JobIds -> JobRow] /\ \A j \in JobIds \ {c} : job'[j] = job[j]
          /\ job'[c] = job[c] \/ (Exists(c) /\ job'[c].status = "FAILED")
          /\ job'[c].text = job[c].text /\ job'[c].discovery = job[c].discovery
      BY <1>1, <1>2, <2>1, <2>3, SettledRow
    <3> QED
      BY <1>2, <3>1
  <2>4. CASE tick[t].pc = "finish" /\ job' = SetStatus(Current(t), "DONE")
    <3>1. /\ job' \in [JobIds -> JobRow] /\ \A j \in JobIds \ {c} : job'[j] = job[j]
          /\ job'[c] = job[c] \/ (Exists(c) /\ job'[c].status = "DONE")
          /\ job'[c].text = job[c].text /\ job'[c].discovery = job[c].discovery
      BY <1>1, <1>2, <2>1, <2>4, SettledRow
    <3> QED
      BY <1>2, <2>4, <3>1
  <2> QED
    BY <2>2, <2>3, <2>4
<1>9. JobsTyped'
  BY <1>7, <1>8 DEF DiscIInv, JobsTyped
<1>10. FilesTyped' /\ JobsKept' /\ Removals' /\ Followed'
  <2>1. \A j \in JobIds : job'[j] = job[j] \/ (Exists(j) /\ Exists(j)' /\ job'[j].discovery = job[j].discovery)
    BY <1>8 DEF Exists
  <2> QED
    BY <2>1, DiscRests
<1>11. TicksOwn'
  <2>1. ASSUME NEW u \in Ticks PROVE Owned(u)'
    <3>1. /\ (tick[u].pc = "idle" <=> tick[u].todo = {})
          /\ \A v \in Ticks \ {u} : tick[u].todo \cap tick[v].todo = {}
          /\ tick[u].todo \subseteq JobIds
      BY <1>2 DEF DiscIInv, TicksOwn, Owned, TickRow
    <3>2. \A v \in Ticks : tick'[v].todo \subseteq tick[v].todo
      BY <1>3, <1>5, <1>7
    <3>3. \A v \in Ticks \ {u} : tick'[u].todo \cap tick'[v].todo = {}
      BY <3>1, <3>2
    <3>4. tick'[u].pc = "idle" <=> tick'[u].todo = {}
      BY <1>5, <1>7, <3>1
    <3>5. c \notin tick'[u].todo
      <4>1. CASE u = t
        BY <1>3, <1>5, <1>7, <4>1
      <4>2. CASE u # t
        BY <1>2, <1>7, <3>1, <4>2
      <4> QED
        BY <4>1, <4>2
    <3>6. PICK d : d = Current(u)'
      OBVIOUS
    <3>7. ASSUME NEW j \in tick'[u].todo
          PROVE  /\ job'[j].status \in {"PROCESSING", "REMOVED"}
                 /\ inserts'[j] = 0 \/ (j = d /\ tick'[u].pc \notin {"begin", "record"})
      <4>1. j \in tick[u].todo /\ j # c /\ j \in JobIds
        BY <3>1, <3>2, <3>5
      <4>2. job'[j] = job[j] /\ inserts' = inserts
        BY <1>8, <4>1
      <4>3. job[j].status \in {"PROCESSING", "REMOVED"} /\ (inserts[j] = 0 \/ (j = Current(u) /\ tick[u].pc \notin {"begin", "record"}))
        BY <4>1 DEF DiscIInv, TicksOwn, Owned
      <4>4. CASE u = t
        <5>1. inserts[j] = 0
          BY <1>1, <4>1, <4>3, <4>4
        <5> QED
          BY <4>2, <4>3, <5>1
      <4>5. CASE u # t
        <5>1. tick'[u] = tick[u]
          BY <1>7, <4>5
        <5>2. Current(u)' = Current(u)
          BY <5>1 DEF Current
        <5> QED
          BY <3>6, <4>2, <4>3, <5>1, <5>2
      <4> QED
        BY <4>4, <4>5
    <3> QED
      BY <3>3, <3>4, <3>6, <3>7 DEF Owned
  <2>2. ASSUME NEW j \in JobIds, job'[j].status \in {"ABSENT", "PENDING"} PROVE inserts'[j] = 0
    <3>1. job[j].status \in {"ABSENT", "PENDING"}
      BY <1>2, <1>8, <2>2
    <3> QED
      BY <3>1 DEF DiscIInv, TicksOwn
  <2> QED
    BY <2>1, <2>2 DEF TicksOwn
<1>12. NotesOne'
  <2>1. \A u \in Ticks : tick'[u].pc = tick[u].pc \/ tick'[u].pc \notin {"update", "insert"}
    BY <1>5, <1>7
  <2> QED
    BY <2>1, NotesQuiet DEF DiscIInv
<1>13. WorkSound'
  <2>1. \A j \in JobIds : SameWork(j)
    <3> SUFFICES ASSUME NEW j \in JobIds PROVE SameWork(j)
      OBVIOUS
    <3>1. FindsOf(j)' = FindsOf(j) /\ \A a \in raised : a.job = j => a \in raised'
      BY DEF FindsOf
    <3>2. job'[j] = job[j] \/ (Exists(j) /\ job'[j].text = job[j].text /\ job'[j].discovery = job[j].discovery)
      BY <1>8
    <3> QED
      BY <3>1, <3>2, WorkSame
  <2>2. \A j \in JobIds \ {c} : job'[j].status = "DONE" => job[j].status = "DONE"
    BY <1>8
  <2>3. \A m \in matches' : inserts'[m[1]] = 1
    BY DEF DiscIInv, WorkSound
  <2>4. (tick[t].todo # {} => WorkOf(t, Current(t)))'
    BY <1>5, <1>7 DEF WorkOf
  <2>5. ASSUME job'[c].status = "DONE", Staying(c)' PROVE Complete(c)'
    <3>1. tick[t].pc = "finish" /\ Staying(c) /\ Exists(c)
      BY <1>2, <1>8, <2>1, <2>5 DEF SameWork
    <3>2. PICK kept, severity : kept = tick[t].kept /\ severity = tick[t].severity
      OBVIOUS
    <3>3. /\ JudgedAs(c, kept, severity) /\ FindsOf(c) = kept
          /\ ~job[c].discovery /\ severity # "none" => Alerted(c, severity)
      BY <1>2, <3>1, <3>2 DEF WorkOf
    <3>4. PICK p \in Policies : kept = Kept(job[c].text, p) /\ severity = AlertSeverity(kept, p)
      BY <3>3 DEF JudgedAs
    <3>5. Complete(c)
      BY <3>3, <3>4 DEF Complete, FindsOf, Alerted
    <3> QED
      BY <1>2, <2>1, <2>5, <3>5, CompleteStays
  <2>6. JobsTyped /\ TicksOwn /\ WorkSound
    BY DEF DiscIInv
  <2> QED
    BY <1>2, <1>7, <2>1, <2>2, <2>3, <2>4, <2>5, <2>6, WorkMoves
<1> QED
  BY <1>9, <1>10, <1>11, <1>12, <1>13 DEF DiscIInv

\* A step that is not a tick's and leaves rows, finds and alerts of files alone.
LEMMA QuietStep ==
    ASSUME DiscIInv, discVars' = discVars, UNCHANGED <<job, matches, raised, tick, inserts>>,
           JobsTyped', NotesOne'
    PROVE  DiscIInv'
<1>1. FilesTyped' /\ JobsKept' /\ Removals' /\ Followed'
  BY DiscRests
<1>2. TicksOwn'
  <2>1. \A t \in Ticks : tick[t].todo \subseteq JobIds
    BY DEF DiscIInv, JobsTyped, TickRow
  <2> QED
    BY <2>1, OwnKept DEF DiscIInv
<1>3. WorkSound'
  <2>1. \A j \in JobIds : SameWork(j)
    <3> SUFFICES ASSUME NEW j \in JobIds PROVE SameWork(j)
      OBVIOUS
    <3>1. FindsOf(j)' = FindsOf(j)
      BY DEF FindsOf
    <3> QED
      BY <3>1, WorkSame
  <2> QED
    BY <2>1, WorkCarried DEF DiscIInv
<1> QED
  BY <1>1, <1>2, <1>3 DEF DiscIInv

LEMMA SaveClassificationHolds ==
    ASSUME DiscIInv, discVars' = discVars, NEW p \in Policies, SaveClassification(p) PROVE DiscIInv'
<1>1. UNCHANGED <<job, matches, raised, noted, cached, tick, inserts, crossed>> /\ policy' = p
  BY DEF SaveClassification
<1>2. JobsTyped'
  BY <1>1 DEF DiscIInv, JobsTyped
<1>3. NotesOne'
  BY <1>1, NotesQuiet DEF DiscIInv
<1> QED
  BY <1>1, <1>2, <1>3, QuietStep

LEMMA CopyExpiresHolds == ASSUME DiscIInv, discVars' = discVars, CopyExpires PROVE DiscIInv'
<1>1. UNCHANGED <<job, matches, raised, noted, policy, tick, inserts, crossed>> /\ cached' = {}
  BY DEF CopyExpires, dbJobVars
<1>2. JobsTyped'
  BY <1>1 DEF DiscIInv, JobsTyped
<1>3. NotesOne'
  BY <1>1, NotesQuiet DEF DiscIInv
<1> QED
  BY <1>1, <1>2, <1>3, QuietStep

LEMMA ResolveNoteHolds ==
    ASSUME DiscIInv, discVars' = discVars, NEW i \in DOMAIN noted, ResolveNote(i) PROVE DiscIInv'
<1>1. UNCHANGED <<job, matches, raised, policy, cached, tick, inserts, crossed>> /\ noted \in Seq(NoteRow)
  BY DEF ResolveNote, DiscIInv, JobsTyped
<1>2. PICK r : r = [noted[i] EXCEPT !.open = FALSE]
  OBVIOUS
<1>3. r \in NoteRow /\ r.open = FALSE
  <2>1. PICK n \in NoteRow : n = noted[i]
    BY <1>1
  <2>2. PICK f, g : f = FALSE /\ g = n.files
    OBVIOUS
  <2>3. r = [open |-> f, files |-> g] /\ g \in Nat
    BY <1>2, <2>1, <2>2 DEF NoteRow
  <2>4. r.open = f /\ r \in NoteRow
    BY <2>2, <2>3 DEF NoteRow
  <2> QED
    BY <2>2, <2>4
<1>4. noted' = [noted EXCEPT ![i] = r]
  BY <1>2 DEF ResolveNote
<1>5. noted' \in Seq(NoteRow) /\ DOMAIN noted' = DOMAIN noted /\ noted'[i] = r
      /\ \A k \in DOMAIN noted \ {i} : noted'[k] = noted[k]
  BY <1>1, <1>3, <1>4
<1>6. JobsTyped'
  BY <1>1, <1>5 DEF DiscIInv, JobsTyped
<1>7. NotesOne'
  <2>1. \A k \in OpenNotes' : k \in OpenNotes
    BY <1>3, <1>5 DEF OpenNotes
  <2> QED
    BY <1>1, <2>1 DEF DiscIInv, NotesOne, Noting
<1> QED
  BY <1>1, <1>6, <1>7, QuietStep

LEMMA CreateJobHolds ==
    ASSUME DiscIInv, discVars' = discVars, NEW x \in Texts, CreateJob(x) PROVE DiscIInv'
<1>1. /\ UNCHANGED <<matches, raised, noted, policy, cached, tick, inserts, crossed>>
      /\ job \in [JobIds -> JobRow] /\ x \in Seq(Sensitive)
  BY ClassificationAssumption DEF CreateJob, DiscIInv, JobsTyped
<1>2. PICK id : id = NextJob
  OBVIOUS
<1>3. id \in JobIds /\ job[id].status = "ABSENT"
  BY <1>2, NextJobThere DEF CreateJob, Unused
<1>4. PICK row : row = [status |-> "PENDING", discovery |-> FALSE, text |-> x]
  OBVIOUS
<1>5. row \in JobRow /\ row.status = "PENDING" /\ ~row.discovery
  BY <1>1, <1>4 DEF JobRow
<1>6. job' = [job EXCEPT ![id] = row]
  BY <1>2, <1>4 DEF CreateJob, WithJob
<1>7. job' \in [JobIds -> JobRow] /\ job'[id] = row /\ \A j \in JobIds \ {id} : job'[j] = job[j]
  BY <1>1, <1>3, <1>5, <1>6
<1>8. JobsTyped'
  BY <1>1, <1>7 DEF DiscIInv, JobsTyped
<1>9. FilesTyped' /\ JobsKept' /\ Removals' /\ Followed'
  <2>1. \A j \in JobIds : \/ job'[j] = job[j]
                          \/ Exists(j) /\ Exists(j)' /\ job'[j].discovery = job[j].discovery
                          \/ job[j].status = "ABSENT" /\ job'[j].status = "PENDING" /\ ~job'[j].discovery
    BY <1>3, <1>5, <1>7
  <2> QED
    BY <2>1, DiscRests
<1>10. TicksOwn'
  <2>1. \A t \in Ticks : tick[t].todo \subseteq JobIds
    BY DEF DiscIInv, JobsTyped, TickRow
  <2>2. \A j \in JobIds : job'[j].status = job[j].status \/ (job[j].status = "ABSENT" /\ job'[j].status = "PENDING")
    BY <1>3, <1>5, <1>7
  <2> QED
    BY <1>1, <2>1, <2>2, OwnKept DEF DiscIInv
<1>11. NotesOne'
  BY <1>1, NotesQuiet DEF DiscIInv
<1>12. WorkSound'
  <2>1. ASSUME NEW j \in JobIds, job[j].status # "ABSENT" PROVE SameWork(j)
    <3>1. job'[j] = job[j] /\ FindsOf(j)' = FindsOf(j) /\ \A a \in raised : a.job = j => a \in raised'
      BY <1>1, <1>3, <1>7, <2>1 DEF FindsOf
    <3> QED
      BY <3>1, WorkSame
  <2>2. \A j \in JobIds : job'[j].status = "DONE" => job[j].status = "DONE"
    BY <1>5, <1>7
  <2> QED
    BY <1>1, <2>1, <2>2, WorkCarried DEF DiscIInv
<1> QED
  BY <1>8, <1>9, <1>10, <1>11, <1>12 DEF DiscIInv

LEMMA IdleTicks == IdleTick \in TickRow /\ IdleTick.pc = "idle" /\ IdleTick.todo = {}
BY DEF IdleTick, TickRow, Verdicts

LEMMA WorkerStopsHolds == ASSUME DiscIInv, discVars' = discVars, WorkerStops PROVE DiscIInv'
<1>1. /\ UNCHANGED <<job, matches, raised, noted, policy, inserts, crossed>> /\ cached' = {}
      /\ tick' = [t \in Ticks |-> IdleTick]
  BY DEF WorkerStops, dbJobVars
<1>2. \A t \in Ticks : tick'[t].pc = "idle" /\ tick'[t].todo = {}
  BY <1>1, IdleTicks
<1>3. JobsTyped'
  BY <1>1, IdleTicks DEF DiscIInv, JobsTyped
<1>4. FilesTyped' /\ JobsKept' /\ Removals' /\ Followed'
  BY <1>1, DiscRests
<1>5. TicksOwn'
  <2>1. \A t \in Ticks : Owned(t)'
    BY <1>2 DEF Owned
  <2>2. \A j \in JobIds : job'[j].status \in {"ABSENT", "PENDING"} => inserts'[j] = 0
    BY <1>1 DEF DiscIInv, TicksOwn
  <2> QED
    BY <2>1, <2>2 DEF TicksOwn
<1>6. NotesOne'
  BY <1>1, <1>2, NotesQuiet DEF DiscIInv
<1>7. WorkSound'
  <2>1. ASSUME NEW j \in JobIds, job'[j].status = "DONE", Staying(j)' PROVE Complete(j)'
    <3>1. FindsOf(j)' = FindsOf(j) /\ job' = job /\ raised' = raised
      BY <1>1 DEF FindsOf
    <3>2. SameWork(j)
      BY <3>1, WorkSame
    <3>3. Complete(j)
      BY <2>1, <3>1, <3>2 DEF DiscIInv, WorkSound, SameWork
    <3> QED
      BY <2>1, <3>2, <3>3, CompleteStays
  <2>2. \A m \in matches' : inserts'[m[1]] = 1
    BY <1>1 DEF DiscIInv, WorkSound
  <2> QED
    BY <1>2, <2>1, <2>2 DEF WorkSound
<1> QED
  BY <1>3, <1>4, <1>5, <1>6, <1>7 DEF DiscIInv

\* The oldest of what is pending is among what a tick claims.
LEMMA OldestThere ==
    ASSUME NEW S \in SUBSET JobIds, S # {}
    PROVE  {j \in S : Cardinality({k \in S : k < j}) < BatchSize} # {}
<1>1. S \in SUBSET Nat
  BY ClassificationAssumption DEF JobIds
<1>2. PICK m \in S : \A k \in S : m <= k
  BY <1>1, LeastThere
<1>3. {k \in S : k < m} = {}
  <2>1. \A k \in S : k \in Nat /\ m \in Nat /\ m <= k
    BY <1>1, <1>2
  <2>2. \A k \in S : ~(k < m)
    BY <2>1
  <2> QED
    BY <2>2
<1>4. Cardinality({k \in S : k < m}) = 0
  BY <1>3, FS_EmptySet
<1>5. 0 < BatchSize
  BY ClassificationAssumption
<1> QED
  BY <1>2, <1>4, <1>5

LEMMA ClaimHolds == ASSUME DiscIInv, discVars' = discVars, NEW t \in Ticks, Claim(t) PROVE DiscIInv'
<1>1. /\ UNCHANGED <<matches, raised, noted, policy, cached, inserts, crossed>> /\ tick[t].pc = "idle"
      /\ job \in [JobIds -> JobRow] /\ tick \in [Ticks -> TickRow]
  BY DEF Claim, DiscIInv, JobsTyped
<1>2. PICK S : S = ClaimableJobs
  OBVIOUS
<1>3. PICK oldest : oldest = {j \in S : Cardinality({k \in S : k < j}) < BatchSize}
  OBVIOUS
<1>4. S \in SUBSET JobIds /\ S # {} /\ \A j \in S : job[j].status = "PENDING"
  BY <1>2 DEF ClaimableJobs, Pending, Claim
<1>5. oldest \in SUBSET JobIds /\ oldest # {} /\ \A j \in oldest : job[j].status = "PENDING"
  BY <1>3, <1>4, OldestThere
<1>6. PICK s : s = [IdleTick EXCEPT !.pc = "begin", !.todo = oldest]
  OBVIOUS
<1>7. s \in TickRow /\ s.pc = "begin" /\ s.todo = oldest
  <2>1. PICK i \in TickRow : i = IdleTick
    BY IdleTicks
  <2> QED
    BY <1>5, <1>6, <2>1 DEF TickRow, Working
<1>8. /\ tick' = [tick EXCEPT ![t] = s]
      /\ job' = [j \in JobIds |-> IF j \in oldest THEN [job[j] EXCEPT !.status = "PROCESSING"] ELSE job[j]]
  BY <1>2, <1>3, <1>6 DEF Claim
<1>9. /\ tick' \in [Ticks -> TickRow] /\ tick'[t] = s /\ \A u \in Ticks \ {t} : tick'[u] = tick[u]
  BY <1>1, <1>7, <1>8
<1>10. ASSUME NEW j \in JobIds
       PROVE  /\ job'[j] \in JobRow /\ job'[j].text = job[j].text /\ job'[j].discovery = job[j].discovery
              /\ j \in oldest => job'[j].status = "PROCESSING"
              /\ j \notin oldest => job'[j] = job[j]
  <2>1. CASE j \in oldest
    <3>1. PICK r : r = [job[j] EXCEPT !.status = "PROCESSING"]
      OBVIOUS
    <3>2. r \in JobRow /\ r.text = job[j].text /\ r.discovery = job[j].discovery /\ r.status = "PROCESSING"
      BY <1>1, <3>1 DEF JobRow
    <3>3. job'[j] = r
      BY <1>8, <2>1, <3>1
    <3> QED
      BY <2>1, <3>2, <3>3
  <2>2. CASE j \notin oldest
    BY <1>1, <1>8, <2>2
  <2> QED
    BY <2>1, <2>2
<1>11. JobsTyped'
  <2>1. job' \in [JobIds -> JobRow]
    BY <1>8, <1>10
  <2> QED
    BY <1>1, <1>9, <2>1 DEF DiscIInv, JobsTyped
<1>12. FilesTyped' /\ JobsKept' /\ Removals' /\ Followed'
  <2>1. \A j \in JobIds : job'[j] = job[j] \/ (Exists(j) /\ Exists(j)' /\ job'[j].discovery = job[j].discovery)
    BY <1>5, <1>10 DEF Exists
  <2> QED
    BY <2>1, DiscRests
<1>13. TicksOwn'
  <2>1. \A u \in Ticks : tick[u].todo \cap oldest = {}
    BY <1>5 DEF DiscIInv, TicksOwn, Owned
  <2>2. ASSUME NEW u \in Ticks PROVE Owned(u)'
    <3>1. \A v \in Ticks \ {u} : tick'[u].todo \cap tick'[v].todo = {}
      <4>1. CASE u = t
        BY <1>7, <1>9, <2>1, <4>1
      <4>2. CASE u # t
        BY <1>7, <1>9, <2>1, <4>2 DEF DiscIInv, TicksOwn, Owned
      <4> QED
        BY <4>1, <4>2
    <3>2. CASE u = t
      <4>1. \A j \in oldest : job'[j].status = "PROCESSING" /\ inserts'[j] = 0
        BY <1>1, <1>5, <1>10 DEF DiscIInv, TicksOwn
      <4> QED
        BY <1>5, <1>7, <1>9, <3>1, <3>2, <4>1 DEF Owned
    <3>3. CASE u # t
      <4>1. tick'[u] = tick[u] /\ Current(u)' = Current(u) /\ tick[u].todo \subseteq JobIds
        BY <1>1, <1>9, <3>3 DEF Current, TickRow
      <4>2. \A j \in tick[u].todo : job'[j] = job[j]
        BY <1>10, <2>1, <4>1
      <4> QED
        BY <1>1, <3>1, <4>1, <4>2 DEF DiscIInv, TicksOwn, Owned
    <3> QED
      BY <3>2, <3>3
  <2>3. ASSUME NEW j \in JobIds, job'[j].status \in {"ABSENT", "PENDING"} PROVE inserts'[j] = 0
    <3>1. job'[j] = job[j]
      BY <1>10, <2>3
    <3> QED
      BY <1>1, <2>3, <3>1 DEF DiscIInv, TicksOwn
  <2> QED
    BY <2>2, <2>3 DEF TicksOwn
<1>14. NotesOne'
  <2>1. \A u \in Ticks : tick'[u].pc = tick[u].pc \/ tick'[u].pc \notin {"update", "insert"}
    BY <1>7, <1>9
  <2> QED
    BY <1>1, <2>1, NotesQuiet DEF DiscIInv
<1>15. WorkSound'
  <2>1. \A j \in JobIds : SameWork(j)
    <3> SUFFICES ASSUME NEW j \in JobIds PROVE SameWork(j)
      OBVIOUS
    <3>1. FindsOf(j)' = FindsOf(j) /\ \A a \in raised : a.job = j => a \in raised'
      BY <1>1 DEF FindsOf
    <3>2. job'[j] = job[j] \/ (Exists(j) /\ job'[j].text = job[j].text /\ job'[j].discovery = job[j].discovery)
      BY <1>5, <1>10 DEF Exists
    <3> QED
      BY <3>1, <3>2, WorkSame
  <2>2. \A j \in JobIds : job'[j].status = "DONE" => job[j].status = "DONE"
    BY <1>10
  <2>3. \A m \in matches' : inserts'[m[1]] = 1
    BY <1>1 DEF DiscIInv, WorkSound
  <2>4. (tick[t].todo # {} => WorkOf(t, Current(t)))'
    BY <1>7, <1>9 DEF WorkOf
  <2>5. PICK c : c = 0
    OBVIOUS
  <2>6. c \notin JobIds
    BY <2>5, ClassificationAssumption DEF JobIds
  <2>7. JobsTyped /\ TicksOwn /\ WorkSound
    BY DEF DiscIInv
  <2> QED
    BY <1>9, <2>1, <2>2, <2>3, <2>4, <2>6, <2>7, WorkMoves
<1> QED
  BY <1>11, <1>12, <1>13, <1>14, <1>15 DEF DiscIInv

\* One tick's step that leaves open notes and the notes of others alone.
LEMMA TickRowWith ==
    ASSUME NEW r \in TickRow, NEW pc \in Working
    PROVE  /\ [r EXCEPT !.pc = pc] \in TickRow /\ [r EXCEPT !.pc = pc].pc = pc
           /\ [r EXCEPT !.pc = pc].todo = r.todo /\ [r EXCEPT !.pc = pc].kept = r.kept
           /\ [r EXCEPT !.pc = pc].severity = r.severity
BY DEF TickRow

LEMMA BeginHolds == ASSUME DiscIInv, discVars' = discVars, NEW t \in Ticks, Begin(t) PROVE DiscIInv'
<1>1. /\ tick[t].pc = "begin" /\ UNCHANGED <<job, matches, raised, noted, policy, inserts, crossed>>
  BY DEF Begin, dbJobVars
<1>2. PICK c : c = Current(t)
  OBVIOUS
<1>3. /\ c \in tick[t].todo /\ c \in JobIds /\ job[c] \in JobRow
      /\ tick[t] \in TickRow /\ tick \in [Ticks -> TickRow]
  BY <1>1, <1>2, AtWork
<1>4. CASE ~Exists(c)
  <2>1. NextInBatch(t) /\ cached' = cached
    BY <1>2, <1>4 DEF Begin
  <2> QED
    BY <1>1, <2>1, GoesToNext
<1>5. CASE Exists(c)
  <2>1. PolicyUsed \in Policies
    <3>1. policy \in Policies /\ (cached = {} \/ \E p \in Policies : cached = {p})
      BY DEF DiscIInv, JobsTyped
    <3> QED
      BY <3>1 DEF PolicyUsed
  <2>2. PICK p \in Policies : p = PolicyUsed
    BY <2>1
  <2>3. PICK kept, severity : kept = Kept(job[c].text, p) /\ severity = AlertSeverity(kept, p)
    OBVIOUS
  <2>4. kept \in SUBSET Sensitive /\ severity \in Verdicts
    BY <1>3, <2>3, KeptType DEF JobRow
  <2>5. PICK s : s = [tick[t] EXCEPT !.pc = "record", !.kept = kept, !.severity = severity]
    OBVIOUS
  <2>6. /\ s \in TickRow /\ s.pc = "record" /\ s.todo = tick[t].todo /\ s.kept = kept /\ s.severity = severity
    BY <1>3, <2>4, <2>5 DEF TickRow, Working
  <2>7. tick' = [tick EXCEPT ![t] = s] /\ cached' = {p}
    BY <1>2, <1>5, <2>2, <2>3, <2>5 DEF Begin
  <2>8. tick'[t] = s /\ (\A u \in Ticks \ {t} : tick'[u] = tick[u]) /\ tick' \in [Ticks -> TickRow]
    BY <1>3, <2>6, <2>7
  <2>9. JobsTyped'
    BY <1>1, <2>7, <2>8 DEF DiscIInv, JobsTyped
  <2>10. NotesOne'
    BY <1>1, <2>6, <2>8, NotesQuiet DEF DiscIInv
  <2>11. WorkOf(t, c)'
    <3>1. JudgedAs(c, kept, severity)
      BY <2>3 DEF JudgedAs
    <3>2. JudgedAs(c, kept, severity)'
      BY <1>1, <3>1, JudgedStays
    <3>3. tick'[t].pc = "record" /\ tick'[t].kept = kept /\ tick'[t].severity = severity
      BY <2>6, <2>8
    <3> QED
      BY <3>2, <3>3 DEF WorkOf, JudgedAs
  <2>12. \A j \in JobIds : inserts'[j] = inserts[j] /\ FindsOf(j)' = FindsOf(j)
    BY <1>1 DEF FindsOf
  <2>13. \A m \in matches' : inserts'[m[1]] = 1
    BY <1>1 DEF DiscIInv, WorkSound
  <2>14. s.pc \in Working /\ tick[t].pc \in {"begin", "record"} /\ inserts'[c] = inserts[c]
    BY <1>1, <2>6 DEF Working
  <2>15. \A a \in raised : a.job # c => a \in raised'
    BY <1>1
  <2> QED
    BY <1>1, <1>2, <2>6, <2>7, <2>9, <2>10, <2>11, <2>12, <2>13, <2>14, <2>15, GoesOn
<1> QED
  BY <1>4, <1>5

LEMMA RecordMatchesHolds == ASSUME DiscIInv, discVars' = discVars, NEW t \in Ticks, RecordMatches(t) PROVE DiscIInv'
<1>1. /\ tick[t].pc = "record" /\ UNCHANGED <<job, raised, noted, policy, cached, crossed>>
  BY DEF RecordMatches
<1>2. PICK c : c = Current(t)
  OBVIOUS
<1>3. /\ c \in tick[t].todo /\ c \in JobIds /\ job[c] \in JobRow /\ WorkOf(t, c)
      /\ tick[t] \in TickRow /\ tick \in [Ticks -> TickRow]
  BY <1>1, <1>2, AtWork
<1>4. CASE ~(Exists(c) \/ tick[t].kept = {})
  <2>1. NextInBatch(t) /\ UNCHANGED <<matches, inserts>>
    BY <1>2, <1>4 DEF RecordMatches
  <2> QED
    BY <1>1, <2>1, GoesToNext
<1>5. CASE Exists(c) \/ tick[t].kept = {}
  <2>1. PICK kept, severity, discovery :
          kept = tick[t].kept /\ severity = tick[t].severity /\ discovery = job[c].discovery
    OBVIOUS
  <2>2. PICK pc : pc = CASE kept # {} /\ discovery -> "count"
                         [] severity # "none" -> "alert"
                         [] OTHER -> "finish"
    OBVIOUS
  <2>3. /\ matches' = matches \cup ({c} \X kept) /\ inserts' = [inserts EXCEPT ![c] = @ + 1]
        /\ tick' = [tick EXCEPT ![t].pc = pc]
    BY <1>2, <1>5, <2>1, <2>2 DEF RecordMatches
  <2>4. discovery \in BOOLEAN /\ kept \in SUBSET Sensitive
    BY <1>3, <2>1 DEF JobRow, TickRow
  <2>5. /\ pc \in {"count", "alert", "finish"}
        /\ pc = "count" => discovery
        /\ pc = "finish" => discovery \/ severity = "none"
    BY <2>2, <2>4
  <2>6. PICK s : s = [tick[t] EXCEPT !.pc = pc]
    OBVIOUS
  <2>7. /\ pc \in Working /\ s \in TickRow /\ s.pc = pc /\ s.todo = tick[t].todo /\ s.kept = kept /\ s.severity = severity
    <3>1. pc \in Working
      BY <2>5 DEF Working
    <3>2. PICK r \in TickRow : r = tick[t]
      BY <1>3
    <3>3. s = [r EXCEPT !.pc = pc]
      BY <2>6, <3>2
    <3>4. s \in TickRow /\ s.pc = pc /\ s.todo = r.todo /\ s.kept = r.kept /\ s.severity = r.severity
      BY ONLY <3>1, <3>3, r \in TickRow, TickRowWith
    <3> QED
      BY <2>1, <3>1, <3>2, <3>4
  <2>8. tick' = [tick EXCEPT ![t] = s]
    BY <1>3, <2>3, <2>6
  <2>9. tick'[t] = s /\ (\A u \in Ticks \ {t} : tick'[u] = tick[u]) /\ tick' \in [Ticks -> TickRow]
    BY <1>3, <2>7, <2>8
  <2>10. /\ inserts[c] = 0 /\ inserts \in [JobIds -> {0, 1}] /\ matches \subseteq JobIds \X Sensitive
    BY <1>1, <1>2, <1>3 DEF DiscIInv, TicksOwn, Owned, JobsTyped
  <2>11. /\ inserts' \in [JobIds -> {0, 1}] /\ inserts'[c] = 1 /\ \A j \in JobIds \ {c} : inserts'[j] = inserts[j]
    BY <1>3, <2>3, <2>10
  <2>12. JobsTyped'
    <3>1. matches' \subseteq JobIds \X Sensitive
      BY <1>3, <2>3, <2>4, <2>10
    <3> QED
      BY <1>1, <2>9, <2>11, <3>1 DEF DiscIInv, JobsTyped
  <2>13. NotesOne'
    BY <1>1, <2>5, <2>7, <2>9, NotesQuiet DEF DiscIInv
  <2>14. \A m \in matches : inserts[m[1]] = 1 /\ m[1] # c
    BY <2>10 DEF DiscIInv, WorkSound
  <2>15. \A m \in matches' : inserts'[m[1]] = 1
    BY <2>3, <2>10, <2>11, <2>14
  <2>16. \A j \in JobIds \ {c} : FindsOf(j)' = FindsOf(j)
    BY <2>3 DEF FindsOf
  <2>17. FindsOf(c)' = kept
    BY <2>3, <2>4, <2>14 DEF FindsOf
  <2>18. WorkOf(t, c)'
    <3>1. Exists(c) => JudgedAs(c, kept, severity)
      BY <1>1, <1>3, <2>1 DEF WorkOf
    <3>2. Exists(c)' => JudgedAs(c, kept, severity)'
      BY <1>1, <3>1, JudgedStays DEF Exists
    <3>3. tick'[t].pc = pc /\ tick'[t].kept = kept /\ tick'[t].severity = severity /\ job'[c].discovery = discovery
      BY <1>1, <2>1, <2>7, <2>9
    <3> QED
      BY <2>5, <2>17, <3>2, <3>3 DEF WorkOf, JudgedAs
  <2>19. s.pc \in Working /\ s.pc \notin {"begin", "record"}
    BY <2>5, <2>7
  <2>20. \A a \in raised : a.job # c => a \in raised'
    BY <1>1
  <2> QED
    BY <1>1, <1>2, <2>7, <2>8, <2>11, <2>12, <2>13, <2>15, <2>16, <2>18, <2>19, <2>20, GoesOn
<1> QED
  BY <1>4, <1>5

\* Past the record a job's finds and row stay, and what a tick knows of them.
LEMMA PastRecord ==
    ASSUME DiscIInv, discVars' = discVars, UNCHANGED <<job, matches, policy, cached, inserts>>, NEW t \in Ticks,
           tick[t].pc \in {"count", "update", "insert", "alert", "suggest"},
           NEW c, c = Current(t), NEW s \in TickRow, tick' = [tick EXCEPT ![t] = s],
           s.todo = tick[t].todo, s.kept = tick[t].kept, s.severity = tick[t].severity,
           s.pc \in {"update", "insert", "suggest", "finish"},
           raised' \subseteq FileAlert, noted' \in Seq(NoteRow), crossed' \in BOOLEAN, NotesOne',
           \A a \in raised : a.job # c => a \in raised',
           s.pc \in {"update", "insert"} => tick[t].pc \in {"count", "update", "insert"},
           s.pc = "suggest" =>
             /\ s.severity \in {"HIGH", "CRITICAL"}
             /\ [job |-> c, severity |-> s.severity, suggested |-> FALSE] \in raised',
           s.pc = "finish" /\ ~job[c].discovery /\ s.severity # "none" /\ Staying(c) => Alerted(c, s.severity)'
    PROVE  DiscIInv'
<1>1. /\ c \in tick[t].todo /\ c \in JobIds /\ job[c] \in JobRow /\ WorkOf(t, c)
      /\ tick[t] \in TickRow /\ tick \in [Ticks -> TickRow] /\ tick[t].pc # "idle"
  BY AtWork
<1>2. tick'[t] = s /\ (\A u \in Ticks \ {t} : tick'[u] = tick[u]) /\ tick' \in [Ticks -> TickRow]
  BY <1>1
<1>3. JobsTyped'
  BY <1>2 DEF DiscIInv, JobsTyped
<1>4. WorkOf(t, c)'
  <2>1. PICK kept, severity : kept = tick[t].kept /\ severity = tick[t].severity
    OBVIOUS
  <2>2. Exists(c) => JudgedAs(c, kept, severity)
    BY <1>1, <2>1 DEF WorkOf
  <2>3. Exists(c)' => JudgedAs(c, kept, severity)'
    BY <2>2, JudgedStays DEF Exists
  <2>4. tick'[t].pc = s.pc /\ tick'[t].kept = kept /\ tick'[t].severity = severity /\ s.severity = severity
    BY <1>2, <2>1
  <2>5. ASSUME Staying(c)'
        PROVE  /\ Staying(c) /\ FindsOf(c)' = kept
               /\ tick[t].pc \in {"count", "update", "insert"} => job[c].discovery
    <3>1. Staying(c)
      BY <2>5 DEF Staying, Exists, BeingRemoved, discVars
    <3>2. FindsOf(c)' = FindsOf(c)
      BY DEF FindsOf
    <3> QED
      BY <1>1, <2>1, <3>1, <3>2 DEF WorkOf
  <2>6. s.pc \in {"update", "insert", "suggest", "finish"} => s.pc \notin {"count", "idle", "begin", "record", "alert"}
    OBVIOUS
  <2>7. Exists(c)' => JudgedAs(c, tick[t].kept, tick[t].severity)'
    BY <2>3, <2>4 DEF JudgedAs
  <2>8. Staying(c)' =>
         /\ FindsOf(c)' = tick'[t].kept
         /\ tick'[t].pc \in {"count", "update", "insert"} => job'[c].discovery
         /\ tick'[t].pc = "suggest" =>
              /\ tick'[t].severity \in {"HIGH", "CRITICAL"}
              /\ [job |-> c, severity |-> tick'[t].severity, suggested |-> FALSE] \in raised'
         /\ tick'[t].pc = "finish" /\ ~job'[c].discovery /\ tick'[t].severity # "none" => Alerted(c, tick[t].severity)'
    <3> SUFFICES ASSUME Staying(c)'
                 PROVE  /\ FindsOf(c)' = tick'[t].kept
                        /\ tick'[t].pc \in {"count", "update", "insert"} => job'[c].discovery
                        /\ tick'[t].pc = "suggest" =>
                             /\ tick'[t].severity \in {"HIGH", "CRITICAL"}
                             /\ [job |-> c, severity |-> tick'[t].severity, suggested |-> FALSE] \in raised'
                        /\ tick'[t].pc = "finish" /\ ~job'[c].discovery /\ tick'[t].severity # "none" =>
                             Alerted(c, tick[t].severity)'
      OBVIOUS
    <3>1. FindsOf(c)' = tick'[t].kept
      BY <2>4, <2>5
    <3>2. tick'[t].pc \in {"count", "update", "insert"} => job'[c].discovery
      BY <2>4, <2>5, <2>6
    <3>3. tick'[t].pc = "suggest" =>
            /\ tick'[t].severity \in {"HIGH", "CRITICAL"}
            /\ [job |-> c, severity |-> tick'[t].severity, suggested |-> FALSE] \in raised'
      BY <2>4
    <3>4. tick'[t].pc = "finish" /\ ~job'[c].discovery /\ tick'[t].severity # "none" => Alerted(c, tick[t].severity)'
      <4>1. tick'[t].pc = "finish" /\ ~job'[c].discovery /\ tick'[t].severity # "none" => Alerted(c, s.severity)'
        BY <2>4, <2>5
      <4> QED
        BY <2>4, <4>1 DEF Alerted
    <3> QED
      BY <3>1, <3>2, <3>3, <3>4
  <2> QED
    BY <2>7, <2>8 DEF WorkOf
<1>5. \A j \in JobIds : inserts'[j] = inserts[j] /\ FindsOf(j)' = FindsOf(j)
  BY DEF FindsOf
<1>6. \A m \in matches' : inserts'[m[1]] = 1
  BY DEF DiscIInv, WorkSound
<1>7. s.pc \in Working /\ s.pc \notin {"begin", "record"}
  BY DEF Working
<1> QED
  BY <1>1, <1>3, <1>4, <1>5, <1>6, <1>7, GoesOn

LEMMA CountFilesHolds == ASSUME DiscIInv, discVars' = discVars, NEW t \in Ticks, CountFiles(t) PROVE DiscIInv'
<1>1. /\ tick[t].pc = "count" /\ UNCHANGED <<job, matches, raised, noted, policy, cached, inserts>>
      /\ crossed' = (crossed \/ \E u \in Ticks \ {t} : Noting(u))
  BY DEF CountFiles, dbJobVars
<1>2. PICK c : c = Current(t)
  OBVIOUS
<1>3. tick[t] \in TickRow /\ tick \in [Ticks -> TickRow]
  BY <1>1, AtWork
<1>4. PICK n \in Nat : n = Cardinality(SensitiveFiles)
  BY FilesCounted
<1>5. PICK s : s = [tick[t] EXCEPT !.pc = "update", !.files = n]
  OBVIOUS
<1>6. s \in TickRow /\ s.pc = "update" /\ s.todo = tick[t].todo /\ s.kept = tick[t].kept /\ s.severity = tick[t].severity
  BY <1>3, <1>5 DEF TickRow, Working
<1>7. tick' = [tick EXCEPT ![t] = s]
  BY <1>3, <1>4, <1>5 DEF CountFiles
<1>8. tick'[t] = s /\ \A u \in Ticks \ {t} : tick'[u] = tick[u]
  BY <1>3, <1>7
<1>9. raised' \subseteq FileAlert /\ noted' \in Seq(NoteRow) /\ crossed' \in BOOLEAN
  BY <1>1 DEF DiscIInv, JobsTyped
<1>10. NotesOne'
  <2> SUFFICES ASSUME ~crossed' PROVE NotesOne'
    BY DEF NotesOne
  <2>1. ~crossed /\ \A u \in Ticks \ {t} : ~Noting(u)
    BY <1>1
  <2>2. \A u \in Ticks : Noting(u)' => u = t
    BY <1>8, <2>1 DEF Noting
  <2>3. OpenNotes' = OpenNotes
    BY <1>1 DEF OpenNotes
  <2>4. \A u \in Ticks : tick'[u].pc # "insert"
    BY <1>6, <1>8, <2>1 DEF Noting
  <2>5. \A i, k \in OpenNotes : i = k
    BY <2>1 DEF DiscIInv, NotesOne
  <2> QED
    BY <2>2, <2>3, <2>4, <2>5 DEF NotesOne
<1>11. \A a \in raised : a.job # c => a \in raised'
  BY <1>1
<1> QED
  BY <1>1, <1>2, <1>6, <1>7, <1>9, <1>10, <1>11, PastRecord

LEMMA UpdateNoteHolds == ASSUME DiscIInv, discVars' = discVars, NEW t \in Ticks, UpdateNote(t) PROVE DiscIInv'
<1>1. /\ tick[t].pc = "update" /\ UNCHANGED <<job, matches, raised, policy, cached, inserts, crossed>>
  BY DEF UpdateNote
<1>2. PICK c : c = Current(t)
  OBVIOUS
<1>3. tick[t] \in TickRow /\ tick \in [Ticks -> TickRow] /\ WorkOf(t, c)
  BY <1>1, <1>2, AtWork
<1>4. PICK pc : pc = AfterUpdate
  OBVIOUS
<1>5. pc \in {"insert", "finish"} /\ (pc = "insert" => OpenNotes = {})
  BY <1>4 DEF AfterUpdate
<1>6. PICK s : s = [tick[t] EXCEPT !.pc = pc]
  OBVIOUS
<1>7. s \in TickRow /\ s.pc = pc /\ s.todo = tick[t].todo /\ s.kept = tick[t].kept /\ s.severity = tick[t].severity
  <2>1. pc \in Working
    BY <1>5 DEF Working
  <2> QED
    BY <1>3, <1>6, <2>1 DEF TickRow
<1>8. tick' = [tick EXCEPT ![t] = s]
  BY <1>3, <1>4, <1>6 DEF UpdateNote
<1>9. tick'[t] = s /\ \A u \in Ticks \ {t} : tick'[u] = tick[u]
  BY <1>3, <1>8
<1>10. noted \in Seq(NoteRow) /\ tick[t].files \in Nat
  BY <1>3 DEF DiscIInv, JobsTyped, TickRow
<1>11. /\ noted' \in Seq(NoteRow) /\ DOMAIN noted' = DOMAIN noted
       /\ \A i \in DOMAIN noted : noted'[i].open <=> noted[i].open
  <2>1. PICK n : n = Len(noted)
    OBVIOUS
  <2>2. PICK g : g = [i \in 1..n |-> IF noted[i].open THEN [noted[i] EXCEPT !.files = tick[t].files] ELSE noted[i]]
    OBVIOUS
  <2>3. n \in Nat /\ DOMAIN noted = 1..n /\ noted' = g
    BY <1>10, <2>1, <2>2 DEF UpdateNote
  <2>4. ASSUME NEW i \in 1..n PROVE g[i] \in NoteRow /\ (g[i].open <=> noted[i].open)
    <3>1. PICK r \in NoteRow : r = noted[i]
      BY <1>10, <2>3
    <3>2. PICK f \in Nat : f = tick[t].files
      BY <1>10
    <3>3. [r EXCEPT !.files = f] \in NoteRow /\ [r EXCEPT !.files = f].open = r.open
      BY DEF NoteRow
    <3>4. g[i] = IF r.open THEN [r EXCEPT !.files = f] ELSE r
      BY <2>2, <3>1, <3>2
    <3> QED
      BY <3>1, <3>3, <3>4
  <2>5. DOMAIN g = 1..n /\ g \in [1..n -> NoteRow]
    <3>1. DOMAIN g = 1..n /\ g = [i \in 1..n |-> g[i]]
      BY ONLY <2>2
    <3> QED
      BY ONLY <2>4, <3>1
  <2>6. g \in Seq(NoteRow)
    BY ONLY <2>3, <2>5
  <2> QED
    BY <2>3, <2>4, <2>5, <2>6
<1>12. raised' \subseteq FileAlert /\ crossed' \in BOOLEAN
  BY <1>1 DEF DiscIInv, JobsTyped
<1>13. NotesOne'
  <2>1. OpenNotes' = OpenNotes
    BY <1>11 DEF OpenNotes
  <2>2. \A u \in Ticks : Noting(u)' => Noting(u)
    BY <1>1, <1>9 DEF Noting
  <2>3. ASSUME ~crossed, NEW u \in Ticks, tick'[u].pc = "insert" PROVE OpenNotes = {}
    <3>1. CASE u = t
      BY <1>5, <1>7, <1>9, <2>3, <3>1
    <3>2. CASE u # t
      BY <1>9, <2>3, <3>2 DEF DiscIInv, NotesOne
    <3> QED
      BY <3>1, <3>2
  <2> QED
    BY <1>1, <2>1, <2>2, <2>3 DEF DiscIInv, NotesOne
<1>14. \A a \in raised : a.job # c => a \in raised'
  BY <1>1
<1>15. s.pc = "finish" /\ ~job[c].discovery /\ s.severity # "none" /\ Staying(c) => Alerted(c, s.severity)'
  BY <1>1, <1>3 DEF WorkOf
<1>16. s.pc \in {"update", "insert", "suggest", "finish"} /\ s.pc # "suggest"
  BY <1>5, <1>7
<1> QED
  BY <1>1, <1>2, <1>7, <1>8, <1>11, <1>12, <1>13, <1>14, <1>15, <1>16, PastRecord

LEMMA InsertNoteHolds == ASSUME DiscIInv, discVars' = discVars, NEW t \in Ticks, InsertNote(t) PROVE DiscIInv'
<1>1. /\ tick[t].pc = "insert" /\ UNCHANGED <<job, matches, raised, policy, cached, inserts, crossed>>
  BY DEF InsertNote
<1>2. PICK c : c = Current(t)
  OBVIOUS
<1>3. tick[t] \in TickRow /\ tick \in [Ticks -> TickRow] /\ WorkOf(t, c)
  BY <1>1, <1>2, AtWork
<1>4. PICK s : s = [tick[t] EXCEPT !.pc = "finish"]
  OBVIOUS
<1>5. s \in TickRow /\ s.pc = "finish" /\ s.todo = tick[t].todo /\ s.kept = tick[t].kept /\ s.severity = tick[t].severity
  BY <1>3, <1>4 DEF TickRow, Working
<1>6. tick' = [tick EXCEPT ![t] = s]
  BY <1>3, <1>4 DEF InsertNote
<1>7. tick'[t] = s /\ \A u \in Ticks \ {t} : tick'[u] = tick[u]
  BY <1>3, <1>6
<1>8. noted \in Seq(NoteRow) /\ tick[t].files \in Nat
  BY <1>3 DEF DiscIInv, JobsTyped, TickRow
<1>9. PICK r : r = [open |-> TRUE, files |-> tick[t].files]
  OBVIOUS
<1>10. r \in NoteRow /\ noted' = Append(noted, r)
  BY <1>8, <1>9 DEF NoteRow, InsertNote
<1>11. /\ noted' \in Seq(NoteRow) /\ Len(noted) \in Nat /\ DOMAIN noted = 1..Len(noted)
       /\ DOMAIN noted' = 1..(Len(noted) + 1) /\ \A i \in DOMAIN noted : noted'[i] = noted[i]
  BY <1>8, <1>10
<1>12. raised' \subseteq FileAlert /\ crossed' \in BOOLEAN
  BY <1>1 DEF DiscIInv, JobsTyped
<1>13. NotesOne'
  <2> SUFFICES ASSUME ~crossed PROVE NotesOne'
    BY <1>1 DEF NotesOne
  <2>1. OpenNotes = {} /\ \A u \in Ticks : Noting(u) => u = t
    BY <1>1 DEF DiscIInv, NotesOne, Noting
  <2>2. \A u \in Ticks : ~Noting(u)'
    BY <1>5, <1>7, <2>1 DEF Noting
  <2>3. \A i \in OpenNotes' : i = Len(noted) + 1
    BY <1>11, <2>1 DEF OpenNotes
  <2>4. \A u \in Ticks : tick'[u].pc # "insert"
    BY <2>2 DEF Noting
  <2> QED
    BY <2>2, <2>3, <2>4 DEF NotesOne
<1>14. \A a \in raised : a.job # c => a \in raised'
  BY <1>1
<1>15. s.pc = "finish" /\ ~job[c].discovery /\ s.severity # "none" /\ Staying(c) => Alerted(c, s.severity)'
  BY <1>1, <1>3 DEF WorkOf
<1> QED
  BY <1>1, <1>2, <1>5, <1>6, <1>11, <1>12, <1>13, <1>14, <1>15, PastRecord

LEMMA RaiseFileAlertHolds == ASSUME DiscIInv, discVars' = discVars, NEW t \in Ticks, RaiseFileAlert(t) PROVE DiscIInv'
<1>1. /\ tick[t].pc = "alert" /\ UNCHANGED <<job, matches, noted, policy, cached, inserts, crossed>>
  BY DEF RaiseFileAlert
<1>2. PICK c : c = Current(t)
  OBVIOUS
<1>3. tick[t] \in TickRow /\ tick \in [Ticks -> TickRow] /\ c \in JobIds
  BY <1>1, <1>2, AtWork
<1>4. PICK severity, high : severity = tick[t].severity /\ high = (severity \in {"HIGH", "CRITICAL"})
  OBVIOUS
<1>5. PICK pc : pc = IF severity \in {"HIGH", "CRITICAL"} THEN "suggest" ELSE "finish"
  OBVIOUS
<1>6. PICK s : s = [tick[t] EXCEPT !.pc = pc]
  OBVIOUS
<1>7. /\ pc \in {"suggest", "finish"} /\ s \in TickRow /\ s.pc = pc
      /\ s.todo = tick[t].todo /\ s.kept = tick[t].kept /\ s.severity = tick[t].severity
  <2>1. pc \in Working /\ pc \in {"suggest", "finish"}
    BY <1>5 DEF Working
  <2> QED
    BY <1>3, <1>6, <2>1 DEF TickRow
<1>8. tick' = [tick EXCEPT ![t] = s]
  BY <1>3, <1>4, <1>5, <1>6 DEF RaiseFileAlert
<1>9. tick'[t] = s /\ \A u \in Ticks \ {t} : tick'[u] = tick[u]
  BY <1>3, <1>8
<1>10. PICK a : a = [job |-> c, severity |-> severity, suggested |-> FALSE]
  OBVIOUS
<1>11. a \in FileAlert /\ raised' = raised \cup {a}
  BY <1>2, <1>3, <1>4, <1>10 DEF FileAlert, RaiseFileAlert, TickRow
<1>12. raised' \subseteq FileAlert /\ noted' \in Seq(NoteRow) /\ crossed' \in BOOLEAN
  BY <1>1, <1>11 DEF DiscIInv, JobsTyped
<1>13. NotesOne'
  BY <1>1, <1>7, <1>9, NotesQuiet DEF DiscIInv
<1>14. s.pc = "finish" => Alerted(c, s.severity)'
  <2>1. s.pc = "finish" => severity \notin {"HIGH", "CRITICAL"}
    BY <1>5, <1>7
  <2>2. ASSUME s.pc = "finish" PROVE high = FALSE
    <3>1. severity \notin {"HIGH", "CRITICAL"}
      BY <2>1, <2>2
    <3>2. ~high
      BY ONLY <1>4, <3>1
    <3>3. high \in BOOLEAN
      BY ONLY <1>4
    <3> QED
      BY ONLY <3>2, <3>3
  <2>3. s.severity = severity
    BY <1>4, <1>7
  <2>4. s.pc = "finish" => [job |-> c, severity |-> severity, suggested |-> high] \in raised'
    BY <1>10, <1>11, <2>2
  <2> QED
    BY <1>4, <2>3, <2>4 DEF Alerted
<1>15. s.pc = "suggest" =>
         s.severity \in {"HIGH", "CRITICAL"} /\ [job |-> c, severity |-> s.severity, suggested |-> FALSE] \in raised'
  BY <1>4, <1>5, <1>7, <1>10, <1>11
<1>16. \A b \in raised : b.job # c => b \in raised'
  BY <1>11
<1>17. s.pc \in {"update", "insert", "suggest", "finish"} /\ s.pc \notin {"update", "insert"}
  BY <1>7
<1> QED
  BY <1>1, <1>2, <1>7, <1>8, <1>12, <1>13, <1>14, <1>15, <1>16, <1>17, PastRecord

LEMMA SuggestResponsesHolds == ASSUME DiscIInv, discVars' = discVars, NEW t \in Ticks, SuggestResponses(t) PROVE DiscIInv'
<1>1. /\ tick[t].pc = "suggest" /\ UNCHANGED <<job, matches, noted, policy, cached, inserts, crossed>>
  BY DEF SuggestResponses
<1>2. PICK c : c = Current(t)
  OBVIOUS
<1>3. tick[t] \in TickRow /\ tick \in [Ticks -> TickRow] /\ c \in JobIds /\ WorkOf(t, c)
  BY <1>1, <1>2, AtWork
<1>4. PICK s : s = [tick[t] EXCEPT !.pc = "finish"]
  OBVIOUS
<1>5. s \in TickRow /\ s.pc = "finish" /\ s.todo = tick[t].todo /\ s.kept = tick[t].kept /\ s.severity = tick[t].severity
  BY <1>3, <1>4 DEF TickRow, Working
<1>6. tick' = [tick EXCEPT ![t] = s]
  BY <1>3, <1>4 DEF SuggestResponses
<1>7. tick'[t] = s /\ \A u \in Ticks \ {t} : tick'[u] = tick[u]
  BY <1>3, <1>6
<1>8. raised' = {IF a.job = c THEN [a EXCEPT !.suggested = TRUE] ELSE a : a \in raised} /\ raised \subseteq FileAlert
  BY <1>2 DEF SuggestResponses, DiscIInv, JobsTyped
<1>9. ASSUME NEW a \in FileAlert
      PROVE  [a EXCEPT !.suggested = TRUE] = [job |-> a.job, severity |-> a.severity, suggested |-> TRUE]
  <2>1. PICK yes, j, v, g : yes = TRUE /\ j = a.job /\ v = a.severity /\ g = a.suggested
    OBVIOUS
  <2>2. a = [job |-> j, severity |-> v, suggested |-> g]
    BY <2>1 DEF FileAlert
  <2>3. [a EXCEPT !.suggested = yes] = [job |-> j, severity |-> v, suggested |-> yes]
    BY ONLY <2>2
  <2> QED
    BY ONLY <2>1, <2>3
<1>10. raised' \subseteq FileAlert
  <2>1. ASSUME NEW a \in raised PROVE [a EXCEPT !.suggested = TRUE] \in FileAlert
    <3>1. a \in FileAlert
      BY <1>8
    <3>2. [job |-> a.job, severity |-> a.severity, suggested |-> TRUE] \in FileAlert
      BY <3>1 DEF FileAlert
    <3> QED
      BY <1>9, <3>1, <3>2
  <2> QED
    BY <1>8, <2>1
<1>11. noted' \in Seq(NoteRow) /\ crossed' \in BOOLEAN
  BY <1>1 DEF DiscIInv, JobsTyped
<1>12. NotesOne'
  BY <1>1, <1>5, <1>7, NotesQuiet DEF DiscIInv
<1>13. \A a \in raised : a.job # c => a \in raised'
  BY <1>8
<1>14. Staying(c) => Alerted(c, s.severity)'
  <2> SUFFICES ASSUME Staying(c) PROVE Alerted(c, s.severity)'
    OBVIOUS
  <2>1. PICK severity, high : severity = tick[t].severity /\ high = (severity \in {"HIGH", "CRITICAL"})
    OBVIOUS
  <2>2. severity \in {"HIGH", "CRITICAL"} /\ [job |-> c, severity |-> severity, suggested |-> FALSE] \in raised
    BY <1>1, <1>3, <2>1 DEF WorkOf
  <2>3. PICK a \in raised : a = [job |-> c, severity |-> severity, suggested |-> FALSE]
    BY <2>2
  <2>4. a \in FileAlert /\ a.job = c /\ a.severity = severity
    BY <1>8, <2>3
  <2>5. [a EXCEPT !.suggested = TRUE] \in raised'
    BY <1>8, <2>4
  <2>6. [job |-> c, severity |-> severity, suggested |-> TRUE] \in raised'
    BY <1>9, <2>4, <2>5
  <2>7. high = TRUE
    BY <2>1, <2>2
  <2>8. [job |-> c, severity |-> severity, suggested |-> high] \in raised'
    BY <2>6, <2>7
  <2>9. s.severity = severity
    BY <1>5, <2>1
  <2> QED
    BY <2>1, <2>8, <2>9 DEF Alerted
<1> QED
  BY <1>1, <1>2, <1>5, <1>6, <1>10, <1>11, <1>12, <1>13, <1>14, PastRecord

LEMMA TickHolds ==
    ASSUME DiscIInv, discVars' = discVars, NEW t \in Ticks, TickStep(t) \/ FailJob(t) PROVE DiscIInv'
<1>1. CASE Claim(t)
  BY <1>1, ClaimHolds
<1>2. CASE Begin(t)
  BY <1>2, BeginHolds
<1>3. CASE RecordMatches(t)
  BY <1>3, RecordMatchesHolds
<1>4. CASE CountFiles(t)
  BY <1>4, CountFilesHolds
<1>5. CASE UpdateNote(t)
  BY <1>5, UpdateNoteHolds
<1>6. CASE InsertNote(t)
  BY <1>6, InsertNoteHolds
<1>7. CASE RaiseFileAlert(t)
  BY <1>7, RaiseFileAlertHolds
<1>8. CASE SuggestResponses(t)
  BY <1>8, SuggestResponsesHolds
<1>9. CASE FinishJob(t)
  <2>1. /\ tick[t].pc = "finish" /\ job' = SetStatus(Current(t), "DONE") /\ NextInBatch(t)
        /\ UNCHANGED <<matches, raised, noted, policy, cached, inserts, crossed>>
    BY <1>9 DEF FinishJob
  <2>2. tick[t].pc # "idle"
    BY <2>1
  <2> QED
    BY <2>1, <2>2, GoesToNext
<1>10. CASE FailJob(t)
  <2>1. /\ tick[t].pc # "idle" /\ job' = SetStatus(Current(t), "FAILED") /\ NextInBatch(t)
        /\ UNCHANGED <<matches, raised, noted, policy, cached, inserts, crossed>>
    BY <1>10 DEF FailJob, CaughtStatus
  <2> QED
    BY <2>1, GoesToNext
<1> QED
  BY <1>1, <1>2, <1>3, <1>4, <1>5, <1>6, <1>7, <1>8, <1>9, <1>10 DEF TickStep, ContinueTick

LEMMA DiscIInvInit == DiscInit => DiscIInv
<1> SUFFICES ASSUME DiscInit PROVE DiscIInv
  OBVIOUS
<1>1. /\ job = [j \in JobIds |-> AbsentJob] /\ matches = {} /\ raised = {} /\ noted = <<>>
      /\ policy \in Policies /\ cached = {} /\ tick = [t \in Ticks |-> IdleTick]
      /\ inserts = [j \in JobIds |-> 0] /\ crossed = FALSE
      /\ file = [p \in Paths |-> 0] /\ version = 0 /\ known = [p \in Paths |-> 0]
      /\ scan = IdleScan /\ pass = IdlePass /\ result = [p \in Paths |-> NoResult]
      /\ late = FALSE /\ followLost = FALSE
  BY DEF DiscInit, ClsInit
<1>2. AbsentJob \in JobRow /\ AbsentJob.status = "ABSENT" /\ ~AbsentJob.discovery
  BY DEF AbsentJob, JobRow
<1>3. JobsTyped
  <2>1. job \in [JobIds -> JobRow] /\ tick \in [Ticks -> TickRow] /\ inserts \in [JobIds -> {0, 1}]
    BY <1>1, <1>2, IdleTicks
  <2>2. <<>> \in Seq(NoteRow)
    OBVIOUS
  <2>3. noted \in Seq(NoteRow)
    BY ONLY <1>1, <2>2
  <2>4. matches \subseteq JobIds \X Sensitive /\ raised \subseteq FileAlert /\ crossed \in BOOLEAN
    BY ONLY <1>1
  <2> QED
    BY <1>1, <2>1, <2>3, <2>4 DEF JobsTyped
<1>4. scan.pc = "idle" /\ pass.pc = "idle" /\ scan \in ScanRow /\ pass \in PassRow
  BY <1>1 DEF IdleScan, IdlePass, ScanRow, PassRow
<1>5. NoResult \in ResultRow /\ NoResult.version = 0 /\ NoResult.job = 0
  BY ClassificationAssumption DEF NoResult, ResultRow
<1>6. FilesTyped
  BY <1>1, <1>4, <1>5 DEF FilesTyped
<1>7. TicksOwn /\ WorkSound /\ JobsKept
  BY <1>1, <1>2, <1>5, IdleTicks DEF TicksOwn, Owned, WorkSound, JobsKept, Exists
<1>8. NotesOne
  <2>1. OpenNotes = {} /\ \A t \in Ticks : tick[t].pc = "idle"
    BY <1>1, IdleTicks DEF OpenNotes
  <2> QED
    BY <2>1 DEF NotesOne, Noting
<1>9. Removals /\ Followed
  BY <1>1, <1>4, <1>5 DEF Removals, Followed, Removing3
<1> QED
  BY <1>3, <1>6, <1>7, <1>8, <1>9 DEF DiscIInv

LEMMA DiscIInvStep == DiscIInv /\ [DiscNext]_allVars => DiscIInv'
<1> SUFFICES ASSUME DiscIInv, [DiscNext]_allVars PROVE DiscIInv'
  OBVIOUS
<1>1. ASSUME NEW p \in Paths, WriteFile(p) \/ RemoveFile(p) \/ \E q \in Paths : RenameFile(p, q) PROVE DiscIInv'
  BY <1>1, UsersMove
<1>2. CASE ScanStep
  <2>1. CASE \E p, q \in Paths : FollowRenamed(p, q)
    BY <2>1, FollowRenamedHolds
  <2> QED
    BY <1>2, <2>1, WalkHolds, FollowDeletedHolds, MoveResultHolds, RemoveMatchesHolds, RemoveJobHolds, RemoveResultsHolds,
       ScanCompletesHolds DEF ScanStep
<1>3. CASE PassStep \/ PostLost
  BY <1>3, PlanPassHolds, ReadFileHolds, StartPostHolds, PostResultHolds, PassEndsHolds, PostLostHolds DEF PassStep
<1>4. CASE ClsNext /\ UNCHANGED discVars
  <2>1. discVars' = discVars
    BY <1>4
  <2>2. ASSUME NEW t \in Ticks, TickStep(t) \/ FailJob(t) PROVE DiscIInv'
    BY <2>1, <2>2, TickHolds
  <2>3. ASSUME NEW x \in Texts, CreateJob(x) PROVE DiscIInv'
    BY <2>1, <2>3, CreateJobHolds
  <2>4. ASSUME NEW p \in Policies, SaveClassification(p) PROVE DiscIInv'
    BY <2>1, <2>4, SaveClassificationHolds
  <2>5. ASSUME NEW i \in DOMAIN noted, ResolveNote(i) PROVE DiscIInv'
    BY <2>1, <2>5, ResolveNoteHolds
  <2>6. CASE CopyExpires \/ WorkerStops
    BY <2>1, <2>6, CopyExpiresHolds, WorkerStopsHolds
  <2> QED
    BY <1>4, <2>2, <2>3, <2>4, <2>5, <2>6 DEF ClsNext
<1>5. CASE UNCHANGED allVars
  <2>1. discVars' = discVars /\ clsVars' = clsVars
    BY <1>5 DEF allVars
  <2>2. UNCHANGED <<job, matches, raised, noted, policy, cached, tick, inserts, crossed>>
    BY <2>1 DEF clsVars
  <2>3. JobsTyped'
    BY <2>2 DEF JobsTyped, DiscIInv
  <2>4. NotesOne'
    BY <2>2, NotesQuiet DEF DiscIInv
  <2> QED
    BY <2>1, <2>2, <2>3, <2>4, QuietStep
<1> QED
  BY <1>1, <1>2, <1>3, <1>4, <1>5 DEF DiscNext

LEMMA AlwaysDiscIInv == DiscSpec => []DiscIInv
<1>1. DiscInit => DiscIInv
  BY DiscIInvInit
<1>2. DiscIInv /\ [DiscNext]_allVars => DiscIInv'
  BY DiscIInvStep
<1> QED
  BY <1>1, <1>2, PTL DEF DiscSpec

\* A set without two members has at most one.
LEMMA OneAtMost ==
    ASSUME NEW S, \A x, y \in S : x = y
    PROVE  Cardinality(S) <= 1
<1>1. CASE S = {}
  BY <1>1, FS_EmptySet
<1>2. CASE S # {}
  <2>1. PICK x \in S : TRUE
    BY <1>2
  <2>2. S = {x}
    BY <2>1
  <2> QED
    BY <2>2, FS_Singleton
<1> QED
  BY <1>1, <1>2

LEMMA DiscIInvTypes == DiscIInv => ClsTypeOK
<1> SUFFICES ASSUME DiscIInv PROVE ClsTypeOK
  OBVIOUS
<1>1. JobsTyped /\ TicksOwn
  BY DEF DiscIInv
<1>2. \A j \in JobIds : /\ job[j].status \in {"ABSENT", "PENDING", "PROCESSING", "DONE", "FAILED", "REMOVED"}
                        /\ job[j].text \in Seq(Sensitive)
  BY <1>1 DEF JobsTyped, JobRow
<1>3. cached \subseteq Policies /\ Cardinality(cached) <= 1
  BY <1>1, OneAtMost DEF JobsTyped
<1>4. \A t \in Ticks : tick[t].todo \subseteq JobIds /\ (tick[t].pc = "idle" <=> tick[t].todo = {})
  BY <1>1 DEF JobsTyped, TickRow, TicksOwn, Owned
<1> QED
  BY <1>1, <1>2, <1>3, <1>4 DEF ClsTypeOK, JobsTyped

LEMMA DiscIInvSound == DiscIInv => ClassificationHolds
<1> SUFFICES ASSUME DiscIInv PROVE ClassificationHolds
  OBVIOUS
<1>1. RecordedOnce
  <2>1. \A j \in JobIds : inserts[j] \in {0, 1}
    BY DEF DiscIInv, JobsTyped
  <2> QED
    BY <2>1 DEF RecordedOnce
<1>2. DoneIsComplete
  <2> SUFFICES ASSUME ~followLost, NEW j \in JobIds, j \notin BeingRemoved, job[j].status = "DONE" PROVE Complete(j)
    BY DEF DoneIsComplete
  <2>1. Staying(j)
    BY DEF Staying, Exists
  <2> QED
    BY <2>1 DEF DiscIInv, WorkSound
<1>3. OneOpenNote
  <2> SUFFICES ASSUME ~crossed PROVE Cardinality(OpenNotes) <= 1
    BY DEF OneOpenNote
  <2>1. \A i, k \in OpenNotes : i = k
    BY DEF DiscIInv, NotesOne
  <2> QED
    BY <2>1, OneAtMost
<1>4. JobsHaveResults
  <2> SUFFICES ASSUME NEW j \in JobIds, Exists(j), job[j].discovery
               PROVE  \E p \in Paths : result[p].job = j /\ \A q \in Paths \ {p} : result[q].job # j
    BY DEF JobsHaveResults
  <2>1. PICK p \in Paths : result[p].job = j
    BY DEF DiscIInv, JobsKept
  <2>2. j # 0
    BY ClassificationAssumption DEF JobIds
  <2>3. \A q \in Paths \ {p} : result[q].job # j
    BY <2>1, <2>2 DEF DiscIInv, JobsKept
  <2> QED
    BY <2>1, <2>3
<1>5. ResultsFollowFiles
  BY DEF ResultsFollowFiles, DiscIInv, Followed
<1> QED
  BY <1>1, <1>2, <1>3, <1>4, <1>5 DEF ClassificationHolds

\* The worker's queue, its ticks and its copy of the settings have their types: a
\* tick that is at work has jobs in its hands, and the copy is one of the settings.
THEOREM ClsTypeCorrect == DiscSpec => []ClsTypeOK
<1>1. DiscSpec => []DiscIInv
  BY AlwaysDiscIInv
<1>2. DiscIInv => ClsTypeOK
  BY DiscIInvTypes
<1> QED
  BY <1>1, <1>2, PTL

\* However ticks, scans, passes and administrators overlap, and wherever a worker
\* stops or a step fails: a job's matches are recorded once, a job that is done has
\* on record what some settings keep of it and its alert, a source has one open note
\* at most, and what discovery found goes with its file.
THEOREM ClassificationSound == DiscSpec => []ClassificationHolds
<1>1. DiscSpec => []DiscIInv
  BY AlwaysDiscIInv
<1>2. DiscIInv => ClassificationHolds
  BY DiscIInvSound
<1> QED
  BY <1>1, <1>2, PTL
=============================================================================
