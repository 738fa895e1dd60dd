------------------------------- MODULE MCAgents -------------------------------
(***************************************************************************)
(* Instances of what the agents watch and are asked to do, and of the      *)
(* alerts that come of it.  The components share no variable, so each is   *)
(* explored while the others rest; part says what happens:                 *)
(*   names      events and audit records of one file meet, in any order;   *)
(*   collect    the audit log is polled, the agent stops, posts are lost;  *)
(*   watch      a home folder with one below it, and an excluded file;     *)
(*   post       one file and the batches it makes, some of them refused;   *)
(*   home       both of these together;                                    *)
(*   sources    two administrators assign a share, and unassign it;        *)
(*   jobs       one job that two machines may be given;                    *)
(*   files, devices, reads   what the rules count in two overlapping posts;*)
(*   silence    an agent that stops reporting, and the sweeps.             *)
(***************************************************************************)
EXTENDS Attribution, NativeWatch, Sources, AgentJobs, AlertRules, TLC

CONSTANTS u1, u2, pa, pb, pc, ps, px, home, sub, s1, h1, h2, f1, ag, x, y, j1, m1, m2,
          p1, p2, c1, c2, c3, c4, fa, fb, k1, k2, d1,
          Parts

VARIABLE part

Folder == (pa :> home) @@ (pb :> home) @@ (ps :> sub) @@ (px :> sub)

MCChangeOf ==
    [c \in Changes |-> CASE c = c1 -> [kind |-> "CREATED", path |-> "a", volume |-> "v"]
                         [] c \in {c2, c4} -> [kind |-> "DELETED", path |-> "a", volume |-> "none"]
                         [] OTHER -> [kind |-> "MODIFIED", path |-> "b", volume |-> "w"]]

AllVars == <<part, attrVars, watchVars, sourceVars, jobVars, ruleVars>>

Init == /\ part \in Parts
        /\ AttrInit /\ WatchInit /\ SourcesInit /\ JobsInit /\ AlertRulesInit
        /\ part \notin {"watch", "home", "post"} => files = {}
        /\ part # "sources" => server.host = h1
        /\ part # "jobs" => \A j \in Jobs : jobKind[j] = "test"

Seen == {log[i].path : i \in Ids} \cup UNION {{c.path, c.previous} : c \in changes}

\* A poll starts where nothing else has been recorded since the last one, and may
\* break off at the backend while the log is short.  The log grows from the first
\* poll to the second and until a change is reported (later records are out of
\* its window), first by a record of one person and path and to a third
\* path after a second; the first of three, which is out of the window then, is a
\* write.  A scan will notice one change at most.
NamesPart ==
    /\ part = "names" /\ AttrNext
    /\ collector.pc = "idle" /\ collector'.pc # "idle" => handed = bookmark
    /\ log' # log => /\ bookmark = 0 /\ activity = Quiet /\ posted = Quiet /\ fileEvent = <<>>
                     /\ (Len(log') = 3 => log'[1].action = "WRITE")
                     /\ log'[Len(log')].action # "noise"
                     /\ log'[1].user = u1 /\ log'[1].path = pa
                     /\ Cardinality(changes') <= 1 /\ (pc \in Seen' => pb \in Seen')
    /\ lostPosts' # lostPosts => activity.pc = "ingest"
    /\ lostPosts' > 0 => Len(log') < MaxLog
    /\ agentRestarts' = 0

\* One file is created; the records of one person, of two paths and no reads.
CollectPart ==
    /\ part = "collect" /\ AttrNext
    /\ posted' = Quiet
    /\ \A c \in changes' : c.type = "CREATED" /\ c.path = pa
    /\ log' # log => /\ log'[Len(log')].user # u2 /\ pc \notin Seen'
                     /\ \A i \in Ids' : log'[i].action # "READ"

WatchPart ==
    /\ \/ part = "watch" /\ (DiskChanges \/ WatchSteps)
       \/ part = "home" /\ WatchNext
       \/ part = "post" /\ (CreateFile(pa) \/ WriteFile(pa) \/ RemoveFile(pa) \/ WatchSteps \/ PostSteps)

Stays(E)   == \A p \in Posters : post'[p].pc = "store" => post'[p].todo \subseteq E
Only(E)    == Stays(E) /\ Stored' \subseteq E
PostOne(E) == Stays(E) /\ \A p \in Posters : post'[p].pc = "store" => Cardinality(post'[p].todo) < 2
DecideOne  == DecisionStep /\ \A d \in Deciders : decision'[d].pc = "update" => Cardinality(decision'[d].todo) < 2

\* Posts of one change at a time, of the two on a device or of the two of one file;
\* with a decision or a stop, for reads with two decisions or with a later moment.
RulesPart ==
    /\ \/ part = "files" /\ ((FilePosts /\ PostOne({c1, c2})) \/ Tick \/ DecideOne \/ BackendStops)
       \/ part = "devices" /\ ((FilePosts /\ (Only({c1, c3}) \/ Only({c2, c4}))) \/ Tick)
       \/ part = "reads" /\ (ReadPosts \/ Tick \/ DecideOne)
       \/ part = "silence" /\ (SilenceSteps \/ Tick \/ DecideOne \/ BackendStops)
    /\ part # "reads" => decisions' <= 1
    /\ part = "files" => decisions' + stops' <= 1
    /\ part = "reads" => decisions' + clock' <= 2

Next ==
    \/ (NamesPart \/ CollectPart) /\ UNCHANGED <<part, watchVars, sourceVars, jobVars, ruleVars>>
    \/ WatchPart /\ UNCHANGED <<part, attrVars, sourceVars, jobVars, ruleVars>>
    \/ part = "sources" /\ SourcesNext /\ UNCHANGED <<part, attrVars, watchVars, jobVars, ruleVars>>
    \/ part = "jobs" /\ JobsNext /\ UNCHANGED <<part, attrVars, watchVars, sourceVars, ruleVars>>
    \/ RulesPart /\ UNCHANGED <<part, attrVars, watchVars, sourceVars, jobVars>>

Spec == Init /\ [][Next]_AllVars

\* Each component's own fairness, in its part.
Fairness ==
    /\ WF_attrVars(part = "collect" /\ EventStep) /\ WF_attrVars(part = "collect" /\ ActivityStep)
    /\ WF_attrVars(part = "collect" /\ Sync) /\ WF_attrVars(part = "collect" /\ Poll)
    /\ WF_watchVars(part = "home" /\ Handle)
    /\ \A n \in Names : WF_watchVars(part = "home" /\ Fire(n)) /\ WF_watchVars(part = "home" /\ RenameLapses(n))
    /\ WF_watchVars(part = "home" /\ \E e \in firing : Tell(e))
    /\ WF_watchVars(part = "home" /\ TickerFlushes /\ WatchRests)
    /\ WF_watchVars(part = "home" /\ (\E f \in Flushers : Posted(f) \/ NotPosted(f)) /\ WatchRests)
    /\ \A d \in Admins : WF_sourceVars(part = "sources" /\ edit[d] # NoEdit /\ AdminWrites(d))
    /\ \A a \in Collectors :
         /\ WF_sourceVars(part = "sources" /\ AsksSync(a))
         /\ WF_sourceVars(part = "sources" /\ \E i \in {1} \cap DOMAIN answers[a] : Apply(a, i))
    /\ \A j \in Jobs :
         /\ WF_jobVars(part = "jobs" /\ GrowsOld(j)) /\ WF_jobVars(part = "jobs" /\ LookAtTest(j))
         /\ WF_jobVars(part = "jobs" /\ GiveUpTest(j)) /\ WF_jobVars(part = "jobs" /\ ExpireStuckScans(j))
    /\ WF_ruleVars(part = "silence" /\ Tick)
    /\ \A k \in Sweeps : WF_ruleVars(part = "silence" /\ (SweepStarts(k) \/ SweepStep(k)))

FairSpec == Spec /\ Fairness

\* The bookmark reaches the end of the audit log (where the log is polled).
LogIsCollected == part = "collect" => CollectorCatchesUp

\* The type invariant of each component, where that one moves.
AgentsTypesOK ==
    /\ part \in {"names", "collect"} => AttrTypeOK
    /\ part \in {"watch", "home", "post"} => WatchTypeOK
    /\ part = "sources" => SourcesTypeOK
    /\ part = "jobs" => JobsTypeOK
    /\ part \in {"files", "devices", "reads", "silence"} => RulesTypeOK

\* What was told stays: who an event names, and the outcome of a test.
ToldStays == NamesStay /\ TestOutcomeStays

\* What happens on a machine reaches the backend: the audit log to its end,
\* every changed file, every queued event.
ReportsArrive == LogIsCollected /\ WatchDrains

\* What agents are for gets done: they run what is assigned to them, their jobs
\* are settled, and their silence is told of while it lasts.
DutiesDone == RunsAsAssigned /\ JobsSettle /\ SilenceHeard
=============================================================================
