------------------------------ MODULE MCWorkers ------------------------------
(***************************************************************************)
(* Instances of the two workers beside the backend, of its retention, and  *)
(* of the page that sets up the file servers.  They share no variable, so  *)
(* each is explored while the others rest; part says which one moves:      *)
(*   backup              two backup workers, the second for a while;       *)
(*   classify, discover  the classification worker and content discovery;  *)
(*   events, snapshots, alerts   what two sweeps of the retention find;    *)
(*   forms               two pages of the file servers: a server, a share; *)
(*   tests               a form tries a connection, three times.           *)
(***************************************************************************)
EXTENDS Backups, ContentDiscovery, Retention, ServerForms, ConnectionTests

CONSTANTS w1, w2, tA, tB, s1, t1, t2, pa, pb,
          e1, e2, a1, so1, so2, hs, rs, pg, h1, br1, br2, fs1, sh1, tf, Parts

VARIABLE part

MCForms == {[enabled |-> FALSE, type |-> "none", typed |-> FALSE, key |-> FALSE],
            [enabled |-> TRUE, type |-> tB, typed |-> TRUE, key |-> TRUE],
            [enabled |-> TRUE, type |-> tB, typed |-> FALSE, key |-> TRUE],
            [enabled |-> TRUE, type |-> tB, typed |-> TRUE, key |-> FALSE],
            [enabled |-> TRUE, type |-> tA, typed |-> FALSE, key |-> TRUE]}

Everything == [k \in Sensitive |-> TRUE]
Lenient == [enabled |-> Everything, alert |-> [k \in Sensitive |-> k = "SSN"],
            severity |-> [k \in Sensitive |-> "HIGH"], min |-> 1]
Strict == [enabled |-> [k \in Sensitive |-> k # "SSN"], alert |-> Everything,
           severity |-> [k \in Sensitive |-> "MEDIUM"], min |-> 2]
MCPolicies == {Lenient, Strict}
MCTexts == {<<"SSN">>, <<"EMAIL", "EMAIL">>}

MCLimits == {[enabled |-> FALSE, days |-> 1], [enabled |-> TRUE, days |-> 1], [enabled |-> TRUE, days |-> 2]}

\* Another name, another password, or other records of activity.
MCEntries == [plain : {1, 2}, secret : {4, NothingTyped}, activity : {FALSE}, reads : {FALSE}]
                 \cup [plain : {1}, secret : {NothingTyped}, activity : BOOLEAN, reads : BOOLEAN]

AllVars == <<part, backupVars, allVars, retVars, formVars, testVars>>

RetentionParts == {"events", "snapshots", "alerts"}

Init == /\ part \in Parts
        /\ BackupInit /\ DiscInit /\ RetentionInit
        /\ limit.days > 1 => part \in RetentionParts \ {"alerts"}
        /\ FormsInit /\ serverRows[fs1].enabled
        /\ {serverRows[k].is : k \in FormRows} \in IF part = "forms" THEN {{"gone", "new"}, {"gone", "there"}} ELSE {{"gone"}}
        /\ TestsInit
        /\ part = "discover" => policy = Lenient

\* A second worker comes up only where nothing is saved and nobody stops.
BackupPart == /\ part = "backup" /\ BackupNext
              /\ overlapped' => saves' + crashes' = 0
              /\ UNCHANGED <<part, allVars, retVars, formVars, testVars>>

\* Two jobs at most, of changed files or of results of discovery, and two ticks.
FileExamined == \E p \in Paths, x \in Texts :
                   /\ result[p].version = 0 /\ (p = pb => result[pa].version # 0)
                   /\ Examined([path |-> p, version |-> 1, sample |-> TRUE], x)
                   /\ pass' = pass
ClassifyPart == /\ part = "classify"
                /\ (ClsNext /\ UNCHANGED discVars) \/ FileExamined
                /\ Cardinality(Unused') >= MaxJobs - 2
                /\ UNCHANGED <<part, backupVars, retVars, formVars, testVars>>

\* A fourth change is a rename, while a scan is followed and the first pass begins:
\* its results may arrive when the next scan's renames are followed.  No ticks then.
RenamedLate ==
    /\ version' = 4 /\ lostPosts' = 0 /\ tick'[t1] = IdleTick
    /\ version = 3 => /\ scan.pc = "follow" /\ pass.pc = "fetch" /\ result = [p \in Paths |-> NoResult]
                      /\ \E p, q \in Paths : file[p] # 0 /\ file'[q] = file[p] /\ file[q] = 0
Changes == IF MaxVersion > 3 THEN 3 ELSE MaxVersion

\* One tick, no faults of the worker, one policy, no files that change with their
\* text; a post is lost in place of the last change.  The first file is pa.
DiscoverPart == /\ part = "discover" /\ DiscNext
                /\ tick'[t2] = IdleTick /\ clsFaults' = clsFaults
                /\ \A j \in JobIds : job'[j].status = "PENDING" => job'[j].discovery /\ Len(job'[j].text) = 1
                /\ version' + lostPosts' <= Changes \/ RenamedLate
                /\ version' = 1 => file'[pb] = 0
                /\ UNCHANGED <<part, backupVars, retVars, formVars, testVars>>

\* The first event is e1, the first snapshot one of so1; alerts go after a day.
RetentionPart ==
    /\ part \in RetentionParts /\ RetentionNext
    /\ e2 \in Present(event') => e1 \in Present(event') \cup gone'
    /\ newest'[so2] >= 0 => newest'[so1] >= 0
    /\ part = "alerts" => limit'.days = 1
    /\ part # "events" => event' = event
    /\ part # "snapshots" => snaps' = snaps
    /\ part # "alerts" => alertRow' = alertRow /\ handler' = handler
    /\ UNCHANGED <<part, backupVars, allVars, formVars, testVars>>

\* The first request is br1's.
FormsPart ==
    /\ part = "forms" /\ FormsNext
    /\ sendCount' + sendsLost' <= 2
    /\ sendCount' = 1 => \A r \in sends' : r.by = br1
    /\ UNCHANGED <<part, backupVars, allVars, retVars, testVars>>

TestsPart ==
    /\ part = "tests" /\ TestsNext
    /\ UNCHANGED <<part, backupVars, allVars, retVars, formVars>>

Next == BackupPart \/ ClassifyPart \/ DiscoverPart \/ RetentionPart \/ FormsPart \/ TestsPart

Fairness ==
    /\ \A w \in Workers : WF_AllVars(part = "backup" /\ WorkerStep(w) /\ UNCHANGED <<part, allVars, retVars, formVars, testVars>>)
    /\ WF_AllVars(part = "backup" /\ StartWorker(w1) /\ UNCHANGED <<part, allVars, retVars, formVars, testVars>>)
    /\ \A t \in Ticks : WF_AllVars(part = "classify" /\ TickStep(t) /\ UNCHANGED <<part, backupVars, discVars, retVars, formVars, testVars>>)
    /\ WF_AllVars(part = "discover" /\ TickStep(t1) /\ UNCHANGED <<part, backupVars, discVars, retVars, formVars, testVars>>)
    /\ WF_AllVars(part = "discover" /\ ScanStep /\ UNCHANGED <<part, backupVars, retVars, formVars, testVars>>)
    /\ WF_AllVars(part = "discover" /\ PassStep /\ UNCHANGED <<part, backupVars, retVars, formVars, testVars>>)

Spec == Init /\ [][Next]_AllVars /\ Fairness

\* Both kinds of jobs come to an end, and so does a pass.
ClassifySettles == part = "classify" => JobsSettle
DiscoveryEnds == part = "discover" => AllExamined

\* The type invariant of each component, where that one moves.
WorkersTypesOK ==
    /\ part = "backup" => BackupTypeOK
    /\ part \in {"classify", "discover"} => ClsTypeOK
    /\ part \in RetentionParts => RetentionTypeOK
    /\ part = "forms" => FormsTypeOK
    /\ part = "tests" => TestsTypeOK

\* What is settled stays: the outcome of a backup run, and an alert that is not
\* resolved.
SettledStays == OutcomeStays /\ OpenAlertsStay

\* What the workers begin comes to its end, also after a stop.
WorkersFinish == EveryRunSettles /\ ClassifySettles /\ DiscoveryEnds
=============================================================================
