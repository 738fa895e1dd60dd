------------------------------ MODULE MCField ------------------------------
(***************************************************************************)
(* Instances of what happens on the other machines: the installation of an *)
(* agent, its session with the backend, its scan of a folder, and its walk *)
(* of a cloud drive, and which machines of a network have an agent at all. *)
(* They share no variable, so each is explored while the others rest: part *)
(* says which one moves.                                                   *)
(*   deploy   two deployments of one machine, two syncs, the page;         *)
(*   session  two processes that share a key, one with two callers;        *)
(*   scan     a file in the root, one in folder A and one in B, a folder   *)
(*            of A; the root's and B's file have one name;                 *)
(*   cloud    two files and two folders of a cloud drive, with two names:  *)
(*            file 1 in folder 3, file 2 and folder 4 at the top, or yet   *)
(*            to be added;                                                 *)
(*   network  two machines, two agents of the first, one scan of a range   *)
(*            of four addresses of four bits.                              *)
(***************************************************************************)
EXTENDS Deployments, AgentSession, SnapshotScan, CloudWalk, NetworkCoverage, TLC

CONSTANTS
    d1, d2, r1, g1, s1, s2, host1, \* deploy
    p1, p2, c1, c2, c3,            \* session
    R, A, B, x, ay, bx,            \* scan
    m1, m2, ag1, ag2,              \* network
    Parts

VARIABLE part

OneMachine   == [d \in Ids |-> host1]
TwoProcesses == [c \in Calls |-> IF c = c3 THEN p2 ELSE p1]

Old == [size |-> 1, mtime |-> 0]
MCFolderOf == [p \in Paths |-> IF p = x THEN R ELSE IF p = ay THEN A ELSE B]
MCBaseOf   == [p \in Paths |-> IF p = ay THEN "y" ELSE "x"]
MCInside   == {<<d, d>> : d \in {R, A, B}} \cup {<<A, R>>, <<B, R>>, <<B, A>>}
MCTrees == {[i \in 1..4 |-> IF i = 1 THEN [in |-> 3, name |-> "n"]
                            ELSE [in |-> IF i \in out THEN Nowhere ELSE TopFolder, name |-> IF i = 3 THEN "n" ELSE "m"]] :
               out \in {{2}, {4}}}
MCAtFirst  == {[p \in S |-> Old] : S \in {{}, {x}, Paths}}

MCHostOf == [m \in Machines |-> m]
OnFirst  == [a \in Installed |-> m1]

AllVars == <<part, deployVars, sessionVars, scanVars, cloudVars, coverageVars>>

Init == /\ part \in Parts
        /\ part # "cloud" => kind = "gdrive" /\ place = CHOOSE t \in FirstTrees : TRUE
        /\ DeployInit /\ SessionInit /\ ScanInit /\ CloudInit
        /\ CoverageInit /\ lease[m1].at = 5 /\ (part # "network" => lease[m2].at = 0)
        /\ part # "scan" => share = Empty

\* An installation that is broken off is the one fault of its behaviour.
DeployPart  == /\ part = "deploy" /\ DeployNext
               /\ deployFaults'.crashes > 0 => deployFaults'.restarts + deployFaults'.losses = 0
               /\ UNCHANGED <<part, sessionVars, scanVars, cloudVars, coverageVars>>
\* A third secret is issued, or there is a second of the bounded events.
SessionPart == /\ part = "session" /\ SessionNext
               /\ issued' + events' <= 4
               /\ UNCHANGED <<part, deployVars, scanVars, cloudVars, coverageVars>>
\* A fault in place of a second change.
ScanPart    == /\ part = "scan" /\ ScanNext
               /\ changes' + faults' <= 2
               /\ UNCHANGED <<part, deployVars, sessionVars, cloudVars, coverageVars>>
CloudPart   == part = "cloud" /\ CloudNext /\ UNCHANGED <<part, deployVars, sessionVars, scanVars, coverageVars>>

\* One scan finds machines.  Any range may be scanned before, at the start, and find
\* none: then that is all.
NetworkPart ==
    /\ part = "network" /\ CoverageNext
    /\ scan.hosts # {} \/ scan.prefix = Width
    /\ scan' # scan => scan.hosts = {} /\ (scan'.hosts # {} \/ (Rows = {} /\ hour = 0))
    /\ UNCHANGED <<part, deployVars, sessionVars, scanVars, cloudVars>>

Next == DeployPart \/ SessionPart \/ ScanPart \/ CloudPart \/ NetworkPart
Spec == Init /\ [][Next]_AllVars

\* Two syncs, and the callers of one process, are interchangeable.
Symmetry == Permutations({s1, s2}) \cup Permutations({c1, c2})

\* The type invariant of each component, where that one moves.
FieldTypesOK ==
    /\ part = "deploy" => DeployTypeOK
    /\ part = "session" => SessionTypeOK
    /\ part = "scan" => ScanTypeOK
    /\ part = "cloud" => CloudTypeOK
    /\ part = "network" => CoverageTypeOK
=============================================================================
