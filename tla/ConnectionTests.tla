--------------------------- MODULE ConnectionTests ---------------------------
(***************************************************************************)
(* A form or a row of the file servers' page that tries a connection: it   *)
(* posts a test for an agent, and polls it on a timer until it is settled. *)
(* A poll that is under way when the timer is cleared still lands, whatever*)
(* has been started since.  How an agent takes a test up is AgentJobs'.    *)
(***************************************************************************)
EXTENDS Naturals, Sequences

CONSTANTS
    TestForms, MaxTestsRun, MaxTestFaults \* bounds of a behaviour

VARIABLES
    testRows,   \* the tests, in order: "PENDING", "SUCCEEDED" or "FAILED"
    formResult,     \* what a form shows: "idle" or a status
    polled,     \* testId: the test a form polls, 0 for none
    starting,   \* the requests for a test under way: 0 asked for, or the test made
    polling,    \* answers of polls under way: [form, test, status]
    testFaults,
    lastTest,     \* history: the test made last for a form
    pollCrossed     \* history: forms that began a test with a poll of another under way

testVars == <<testRows, formResult, polled, starting, polling, testFaults, lastTest, pollCrossed>>

TestsInit ==
    /\ testRows = <<>> /\ polling = {} /\ testFaults = 0 /\ pollCrossed = {}
    /\ formResult = [f \in TestForms |-> "idle"]
    /\ polled = [f \in TestForms |-> 0]
    /\ lastTest = [f \in TestForms |-> 0]
    /\ starting = [f \in TestForms |-> <<>>]

\* Mutant of MayTest: the button works while a test is under way.
MayTestAlways(f) == TRUE

MayTest(f) == formResult[f] # "PENDING"

RunTest(f) ==
    /\ MayTest(f) /\ Len(testRows) + Len(starting[f]) < MaxTestsRun
    /\ formResult' = [formResult EXCEPT ![f] = "PENDING"]
    /\ starting' = [starting EXCEPT ![f] = Append(@, 0)]
    /\ pollCrossed' = IF \E p \in polling : p.form = f THEN pollCrossed \cup {f} ELSE pollCrossed
    /\ UNCHANGED <<testRows, polled, polling, testFaults, lastTest>>

Creates(f, i) ==
    /\ starting[f][i] = 0 /\ Len(testRows) < MaxTestsRun
    /\ testRows' = Append(testRows, "PENDING")
    /\ starting' = [starting EXCEPT ![f][i] = Len(testRows')]
    /\ lastTest' = [lastTest EXCEPT ![f] = Len(testRows')]
    /\ UNCHANGED <<formResult, polled, polling, testFaults, pollCrossed>>

WithoutAt(s, i) == SubSeq(s, 1, i - 1) \o SubSeq(s, i + 1, Len(s))

Started(f, i) ==
    /\ starting[f][i] # 0
    /\ starting' = [starting EXCEPT ![f] = WithoutAt(@, i)]
    /\ polled' = [polled EXCEPT ![f] = starting[f][i]]
    /\ UNCHANGED <<testRows, formResult, polling, testFaults, lastTest, pollCrossed>>

\* Refused, or lost before or after the row was made.
StartFails(f, i) ==
    /\ testFaults < MaxTestFaults /\ testFaults' = testFaults + 1
    /\ starting' = [starting EXCEPT ![f] = WithoutAt(@, i)]
    /\ formResult' = [formResult EXCEPT ![f] = "FAILED"]
    /\ UNCHANGED <<testRows, polled, polling, lastTest, pollCrossed>>

\* An agent reports, or nobody did for too long: the next poll says so.
Reported(t, how) ==
    /\ testRows[t] = "PENDING" /\ testRows' = [testRows EXCEPT ![t] = how]
    /\ UNCHANGED <<formResult, polled, starting, polling, testFaults, lastTest, pollCrossed>>

PollTest(f) ==
    /\ polled[f] # 0
    /\ polling' = polling \cup {[form |-> f, test |-> polled[f], status |-> testRows[polled[f]]]}
    /\ UNCHANGED <<testRows, formResult, polled, starting, testFaults, lastTest, pollCrossed>>

\* It may not have been the only one of its kind under way.
Lands(p) == polling' \in {polling, polling \ {p}}

ShowsResult(f, status) ==
    /\ formResult' = [formResult EXCEPT ![f] = status]
    /\ polled' = [polled EXCEPT ![f] = 0]

PollAnswered(p) ==
    /\ Lands(p)
    /\ IF p.status = "PENDING" THEN UNCHANGED <<formResult, polled>> ELSE ShowsResult(p.form, p.status)
    /\ UNCHANGED <<testRows, starting, testFaults, lastTest, pollCrossed>>

\* Mutant of TestPollFails: a failure only ends the polling.
PollEnds(p) ==
    /\ testFaults < MaxTestFaults /\ testFaults' = testFaults + 1
    /\ Lands(p) /\ polled' = [polled EXCEPT ![p.form] = 0]
    /\ UNCHANGED <<formResult, testRows, starting, lastTest, pollCrossed>>

TestPollFails(p) ==
    /\ testFaults < MaxTestFaults /\ testFaults' = testFaults + 1
    /\ Lands(p) /\ ShowsResult(p.form, "FAILED")
    /\ UNCHANGED <<testRows, starting, lastTest, pollCrossed>>

TestsNext ==
    \/ \E f \in TestForms :
         \/ RunTest(f) \/ PollTest(f)
         \/ \E i \in DOMAIN starting[f] : Creates(f, i) \/ Started(f, i) \/ StartFails(f, i)
    \/ \E t \in DOMAIN testRows, how \in {"SUCCEEDED", "FAILED"} : Reported(t, how)
    \/ \E p \in polling : PollAnswered(p) \/ TestPollFails(p)

TestsSpec == TestsInit /\ [][TestsNext]_testVars

----------------------------------------------------------------------------
(* Properties. *)

TestStatus == {"PENDING", "SUCCEEDED", "FAILED"}
PollAnswer == [form : TestForms, test : Nat, status : TestStatus]

\* Every variable holds values of its type, tests that were made; a form that
\* waits, and whose button is off, has a request under way or a test to poll,
\* whatever failed.
TestsTypeOK ==
    /\ testRows \in Seq(TestStatus) /\ polling \subseteq PollAnswer
    /\ \A p \in polling : p.test \in DOMAIN testRows
    /\ formResult \in [TestForms -> TestStatus \cup {"idle"}]
    /\ polled \in [TestForms -> 0..Len(testRows)] /\ lastTest \in [TestForms -> 0..Len(testRows)]
    /\ starting \in [TestForms -> Seq(0..Len(testRows))]
    /\ pollCrossed \subseteq TestForms
    /\ \A f \in TestForms : formResult[f] = "PENDING" => starting[f] # <<>> \/ polled[f] # 0

\* A form that says a connection works says it of the test that was made last for
\* it, unless a poll of an earlier one was still under way when that was begun.
TickIsOfLast ==
    \A f \in TestForms \ pollCrossed :
        formResult[f] = "SUCCEEDED" => lastTest[f] # 0 /\ testRows[lastTest[f]] = "SUCCEEDED"

\* Without that exception it does not hold.
TickIsAlwaysOfLast ==
    \A f \in TestForms : formResult[f] = "SUCCEEDED" /\ starting[f] = <<>> => testRows[lastTest[f]] = "SUCCEEDED"
=============================================================================
