---------------------------- MODULE MCResponses ----------------------------
(***************************************************************************)
(* Instances of ResponseLoop for TLC.  part says which story is explored:  *)
(*   policy   an alert that is sent without approval, with two rows that   *)
(*            differ in their id only, two administrators and two runs;    *)
(*   approve  an alert raised by a worker that may die, with its           *)
(*            notification and quarantine, two administrators, a run and   *)
(*            a poll;                                                      *)
(*   loop     the agent's side too: a quarantine of two files that have    *)
(*            one base name in two folders, and two polls.  s0, s1, s2     *)
(*            stand for that base name, plain and numbered.                *)
(***************************************************************************)
EXTENDS ResponseLoop, TLC

CONSTANTS
    a1, a2, w1, w1b, w2, q2, r1, r2, n1, n2, p1, p2, f1, f2, s0, s1, s2,
    Parts

VARIABLE part

MCAbout  == [x \in Actions |-> IF x \in {w1, w1b} THEN a1 ELSE a2]
MCTypeOf == [x \in Actions |-> IF x = q2 THEN "FILE_QUARANTINE" ELSE "WEBHOOK_NOTIFICATION"]

BothFiles    == [x \in Quarantines |-> {f1, f2}]
SameBaseName == [f \in Files |-> <<s0, s1, s2>>]

\* Who takes part in a story: its alert, and how many requests, policy runs and
\* polls are under way at a time.  In policy and loop the alert stays open, in
\* loop also recent.
Cast == [policy  |-> [alert |-> a1, requests |-> 2, runs |-> 2, polls |-> 0],
         approve |-> [alert |-> a2, requests |-> 2, runs |-> 1, polls |-> 1],
         loop    |-> [alert |-> a2, requests |-> 1, runs |-> 0, polls |-> 2]]

WithinCast ==
    /\ \A a \in Alerts \ {Cast[part].alert} : alert'[a] = alert[a] /\ a \in recent'
    /\ part # "approve" => \A a \in Alerts : alert'[a] \in {"ABSENT", "OPEN"}
    /\ part = "loop" => recent' = recent
    /\ Cardinality({n \in Runs : run'[n] # IdleRun}) <= Cast[part].runs
    /\ Cardinality({p \in Polls : held'[p] # {}}) <= Cast[part].polls
    /\ Cardinality({r \in Requests : \E d \in inFlight' \cup sending' : d.task = r}) <= Cast[part].requests

\* In approve the agent moves both files, or none, as it reports.
MovesAll(x) ==
    /\ PathsOf[x] \subseteq inPlace
    /\ inPlace' = inPlace \ PathsOf[x] /\ moved' = moved \cup PathsOf[x] /\ UNCHANGED moves
    /\ \E f, g \in PathsOf[x] : f # g /\ folder' = [folder EXCEPT ![s0] = f, ![s1] = g]

PromptNext ==
    \/ /\ \/ BackendNext
          \/ \E p \in Polls : FetchCommands(p)
          \/ \E p \in Polls : \E x \in held[p] : CompleteCommand(p, x, FALSE) \/ ReportLost(p, x)
       /\ UNCHANGED <<inPlace, folder, moves, moved>>
    \/ \E p \in Polls : \E x \in held[p] : CompleteCommand(p, x, TRUE) /\ MovesAll(x)

AllVars == <<part, loopVars>>
PartInit == part \in Parts /\ LoopInit
PartNext ==
    /\ \/ part = "policy" /\ BackendStep
       \/ part = "approve" /\ PromptNext
       \/ part = "loop" /\ LoopNext
    /\ WithinCast
    /\ UNCHANGED part
PartSpec == PartInit /\ [][PartNext]_AllVars

\* Requests, policy runs, polls, files, and rows of one alert and type are
\* interchangeable.
Symmetry == Permutations({r1, r2}) \cup Permutations({n1, n2}) \cup Permutations({p1, p2})
            \cup Permutations({w1, w1b}) \cup Permutations({f1, f2})
=============================================================================
