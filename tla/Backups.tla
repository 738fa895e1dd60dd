------------------------------- MODULE Backups -------------------------------
(***************************************************************************)
(* Off-box backups.  Administrators save settings and queue runs; a worker *)
(* polls the database, adds the runs its schedule calls for and carries    *)
(* out pending runs one at a time: dump, upload, retention, restore check. *)
(* A worker may stop anywhere; the next one to start fails what was left   *)
(* running.  During a redeployment two workers may be alive together.      *)
(*                                                                         *)
(* The clock counts half days: a backup is due at every even time and a    *)
(* restore check at every odd one (the hour in between is not told apart). *)
(* Dumps and bundles are named by the moment their run began, a number     *)
(* that grows; two runs do not begin within one second.                    *)
(***************************************************************************)
EXTENDS Naturals, Sequences, FiniteSets, FiniteSetsExt

CONSTANTS
    Workers,     \* processes of packages/backup
    FirstWorker, \* the one that is up at first
    Types,       \* destination types
    AtFirst,     \* the destinations, or none, an installation may begin with
    Savers,      \* PUT /backup/settings in flight together
    Forms,       \* the forms that may be submitted
    Keep,        \* localRetention and remoteRetention
    MaxRuns, MaxTime, MaxSaves, MaxCrashes \* bounds of a behaviour

ASSUME BackupsAssumption == Keep \in Nat \ {0} /\ FirstWorker \in Workers
                        /\ AtFirst \subseteq Types \cup {"none"}

VARIABLES
    runs,       \* BackupRun: the rows by createdAt
    settings,   \* the BackupSettings row
    saver,      \* each PUT: the row it read
    time,       \* the clock
    worker,     \* each worker: where it is and what it holds
    dumps,      \* dumps in the backup directory
    bundles,    \* bundles on each destination
    alerted,    \* runs with an alert
    stamp,      \* the last name given to a dump
    finishes,   \* how many runs a worker has settled: orders finishedAt
    overlapped, \* history: two workers were alive together
    saves, crashes

backupVars == <<runs, settings, saver, time, worker, dumps, bundles, alerted, stamp,
                finishes, overlapped, saves, crashes>>

None == "none"
Kinds == {"BACKUP", "VERIFY", "TEST_DESTINATION"}
Settled == {"SUCCEEDED", "FAILED"}
RunIds == DOMAIN runs
Idle == [pc |-> "idle"]
Down == [pc |-> "down"]

\* What the form of Administration -> Backups may hold, as far as it is told apart.
Form == [enabled: BOOLEAN, type: Types \cup {None}, typed: BOOLEAN, key: BOOLEAN]

BackupInit ==
    /\ runs = <<>>
    /\ \E type \in AtFirst : settings = [enabled |-> TRUE, since |-> 0, type |-> type,
                                        creds |-> type, key |-> type # None]
    /\ saver = [r \in Savers |-> [pc |-> "idle"]]
    /\ time = 1
    /\ worker = [w \in Workers |-> IF w = FirstWorker THEN Idle ELSE Down]
    /\ dumps = {} /\ bundles = [t \in Types |-> {}]
    /\ alerted = {} /\ stamp = 0 /\ finishes = 0
    /\ overlapped = FALSE /\ saves = 0 /\ crashes = 0

----------------------------------------------------------------------------
(* The schedule. *)

LatestSlot(kind, now) == IF kind = "BACKUP" THEN now - (now % 2) ELSE now - ((now + 1) % 2)

LastRunSlot(kind) ==
    Max({0} \cup {runs[i].slot : i \in {j \in RunIds : runs[j].kind = kind}})

\* A slot counts if it falls after the schedule was activated and has no run.
DueSlots(kind, cfg, now) ==
    {s \in {LatestSlot(kind, now)} : cfg.enabled /\ s >= cfg.since /\ LastRunSlot(kind) < s}

NewRun(kind, slot) == [kind |-> kind, slot |-> slot, status |-> "PENDING", uploaded |-> None,
                       stamp |-> 0, finished |-> 0]

----------------------------------------------------------------------------
(* The backend's routes. *)

\* PUT /backup/settings reads the row, checks the form against it, then writes.
ReadForSave(r) ==
    /\ saver[r].pc = "idle" /\ saves < MaxSaves
    /\ saver' = [saver EXCEPT ![r] = [pc |-> "write", existing |-> settings]]
    /\ saves' = saves + 1
    /\ UNCHANGED <<runs, settings, time, worker, dumps, bundles, alerted, stamp, finishes,
                   overlapped, crashes>>

\* Switching the destination's type discards the old type's secrets.
StoredCredentials(existing, type) == IF existing.type = type THEN existing.creds ELSE None

MergedCredentials(existing, type, typed) ==
    IF typed THEN type ELSE StoredCredentials(existing, type)

FormAccepted(type, creds, key) == type # None => creds # None /\ key

\* The form names a destination or none, with its secrets typed in or left blank.
WriteSettings(r, form) ==
    LET existing == saver[r].existing
        enabled == form.enabled  type == form.type  typed == form.typed  key == form.key
        creds == IF type = None THEN None ELSE MergedCredentials(existing, type, typed)
    IN  /\ saver[r].pc = "write"
        /\ settings' = IF FormAccepted(type, creds, key)
                       THEN [enabled |-> enabled, type |-> type, creds |-> creds, key |-> key,
                             since |-> CASE ~enabled -> 0
                                         [] enabled /\ existing.enabled -> existing.since
                                         [] OTHER -> time]
                       ELSE settings
        /\ saver' = [saver EXCEPT ![r] = [pc |-> "idle"]]
        /\ UNCHANGED <<runs, time, worker, dumps, bundles, alerted, stamp, finishes, overlapped,
                       saves, crashes>>

\* POST /backup/runs: the page asks for one run at a time.
RequestRun(kind) ==
    /\ Len(runs) < MaxRuns
    /\ kind = "TEST_DESTINATION" => settings.type # None
    /\ kind = "BACKUP" /\ settings.type # None => settings.key
    /\ \A i \in RunIds : runs[i].kind = kind => runs[i].status \in Settled
    /\ runs' = Append(runs, NewRun(kind, 0))
    /\ UNCHANGED <<settings, saver, time, worker, dumps, bundles, alerted, stamp, finishes,
                   overlapped, saves, crashes>>

----------------------------------------------------------------------------
(* The worker: poll, add what is due, then drain the queue. *)

Poll(w) ==
    /\ worker[w].pc = "idle"
    /\ worker' = [worker EXCEPT ![w] =
                     IF settings.enabled
                     THEN [pc |-> "due", kind |-> "BACKUP", cfg |-> settings, now |-> time]
                     ELSE [pc |-> "claim"]]
    /\ UNCHANGED <<runs, settings, saver, time, dumps, bundles, alerted, stamp, finishes,
                   overlapped, saves, crashes>>

AfterKind(w) ==
    IF worker[w].kind = "BACKUP"
    THEN [pc |-> "due", kind |-> "VERIFY", cfg |-> worker[w].cfg, now |-> worker[w].now]
    ELSE [pc |-> "claim"]

FindDue(w) ==
    LET me == worker[w]  due == DueSlots(me.kind, me.cfg, me.now)
    IN  /\ me.pc = "due"
        /\ worker' = [worker EXCEPT ![w] =
               IF due = {} THEN AfterKind(w)
               ELSE [pc |-> "add", kind |-> me.kind, cfg |-> me.cfg, now |-> me.now,
                     slot |-> CHOOSE x \in due : TRUE]]
        /\ UNCHANGED <<runs, settings, saver, time, dumps, bundles, alerted, stamp, finishes,
                       overlapped, saves, crashes>>

\* Mutant of Inserted: no unique index on (kind, scheduledFor).
InsertedAlways(kind, slot) == Append(runs, NewRun(kind, slot))

\* ON CONFLICT DO NOTHING.
Inserted(kind, slot) ==
    IF \E i \in RunIds : runs[i].kind = kind /\ runs[i].slot = slot
    THEN runs ELSE Append(runs, NewRun(kind, slot))

AddDue(w) ==
    /\ worker[w].pc = "add"
    /\ runs' = IF Len(runs) < MaxRuns THEN Inserted(worker[w].kind, worker[w].slot) ELSE runs
    /\ worker' = [worker EXCEPT ![w] = AfterKind(w)]
    /\ UNCHANGED <<settings, saver, time, dumps, bundles, alerted, stamp, finishes,
                   overlapped, saves, crashes>>

Claimable == {i \in RunIds : runs[i].status = "PENDING"}

\* The oldest pending run; the row lock lets one worker have it.
ClaimRun(w) ==
    /\ worker[w].pc = "claim"
    /\ IF Claimable = {}
       THEN runs' = runs /\ worker' = [worker EXCEPT ![w] = Idle]
       ELSE LET i == Min(Claimable)
            IN  /\ runs' = [runs EXCEPT ![i].status = "RUNNING"]
                /\ worker' = [worker EXCEPT ![w] = [pc |-> "load", run |-> i]]
    /\ UNCHANGED <<settings, saver, time, dumps, bundles, alerted, stamp, finishes,
                   overlapped, saves, crashes>>

\* The settings are read again for every run; what the run cannot start with fails it.
LoadSettings(w) ==
    LET i == worker[w].run  kind == runs[i].kind
        refused == \/ kind = "TEST_DESTINATION" /\ settings.type = None
                   \/ kind = "BACKUP" /\ settings.type # None /\ ~settings.key
    IN  /\ worker[w].pc = "load"
        /\ worker' = [worker EXCEPT ![w] =
               IF refused THEN [pc |-> "fail", run |-> i]
               ELSE [pc |-> CASE kind = "BACKUP" -> "dump" [] kind = "VERIFY" -> "check"
                              [] OTHER -> "test",
                     run |-> i, to |-> settings.type]]
        /\ UNCHANGED <<runs, settings, saver, time, dumps, bundles, alerted, stamp, finishes,
                       overlapped, saves, crashes>>

Fails(w) == worker' = [worker EXCEPT ![w] = [pc |-> "fail", run |-> worker[w].run]]

\* pg_dump to a .partial name, renamed only once pg_restore can read it back.
DumpLocally(w) ==
    /\ worker[w].pc = "dump"
    /\ stamp' = stamp + 1
    /\ \/ dumps' = dumps /\ Fails(w)
       \/ /\ dumps' = dumps \cup {stamp'}
          /\ worker' = [worker EXCEPT ![w] =
                 [pc |-> IF worker[w].to = None THEN "prune" ELSE "upload",
                  run |-> worker[w].run, to |-> worker[w].to, stamp |-> stamp', listing |-> {}]]
    /\ UNCHANGED <<runs, settings, saver, time, bundles, alerted, finishes, overlapped, saves,
                   crashes>>

\* Bundle, encrypt and copy; a failure may leave the bundle there or not.
Upload(w) ==
    LET me == worker[w]
    IN  /\ me.pc = "upload"
        /\ \/ bundles' = bundles /\ Fails(w)
           \/ /\ bundles' = [bundles EXCEPT ![me.to] = @ \cup {me.stamp}]
              /\ Fails(w) \/ worker' = [worker EXCEPT ![w].pc = "list"]
        /\ UNCHANGED <<runs, settings, saver, time, dumps, alerted, stamp, finishes, overlapped,
                       saves, crashes>>

\* The destination is listed: the bundle must be there.
ListUploaded(w) ==
    LET me == worker[w]
    IN  /\ me.pc = "list"
        /\ \/ Fails(w)
           \/ /\ me.stamp \in bundles[me.to]
              /\ worker' = [worker EXCEPT ![w].pc = "prune", ![w].listing = bundles[me.to]]
        /\ UNCHANGED <<runs, settings, saver, time, dumps, bundles, alerted, stamp, finishes,
                       overlapped, saves, crashes>>

\* selectForRetention keeps the newest.
Retained(names) == {n \in names : Cardinality({k \in names : k > n}) < Keep}

Prune(w) ==
    LET me == worker[w]
    IN  /\ me.pc = "prune"
        /\ bundles' = IF me.to = None THEN bundles
                      ELSE [bundles EXCEPT ![me.to] = @ \ (me.listing \ Retained(me.listing))]
        /\ dumps' = Retained(dumps)
        /\ worker' = [worker EXCEPT ![w] = [pc |-> "done", run |-> me.run, to |-> me.to,
                                            stamp |-> me.stamp]]
        /\ UNCHANGED <<runs, settings, saver, time, alerted, stamp, finishes, overlapped, saves,
                       crashes>>

\* The newest finished upload, 0 if there is none.
LastUpload ==
    LET up == {i \in RunIds : runs[i].status = "SUCCEEDED" /\ runs[i].uploaded # None}
    IN  IF up = {} THEN 0 ELSE CHOOSE i \in up : \A j \in up : runs[j].finished <= runs[i].finished

\* The newest dump is restored, and the newest upload looked for on the destination.
RestoreCheck(w) ==
    LET me == worker[w]
        there == me.to # None /\ LastUpload # 0 => runs[LastUpload].stamp \in bundles[me.to]
    IN  /\ me.pc = "check"
        /\ \/ Fails(w)
           \/ /\ dumps # {} /\ there
              /\ worker' = [worker EXCEPT ![w] = [pc |-> "done", run |-> me.run, to |-> None,
                                                  stamp |-> 0]]
        /\ UNCHANGED <<runs, settings, saver, time, dumps, bundles, alerted, stamp, finishes,
                       overlapped, saves, crashes>>

TestDestination(w) ==
    /\ worker[w].pc = "test"
    /\ Fails(w) \/ worker' = [worker EXCEPT ![w] = [pc |-> "done", run |-> worker[w].run,
                                                     to |-> None, stamp |-> 0]]
    /\ UNCHANGED <<runs, settings, saver, time, dumps, bundles, alerted, stamp, finishes,
                   overlapped, saves, crashes>>

Alerting(kind) == kind # "TEST_DESTINATION"

\* finishRun writes by id, whatever the row says now.
FinishRun(w) ==
    LET me == worker[w]
    IN  /\ me.pc \in {"done", "fail"}
        /\ finishes' = finishes + 1
        /\ runs' = [runs EXCEPT
               ![me.run] = IF me.pc = "fail" THEN [@ EXCEPT !.status = "FAILED"]
                           ELSE [@ EXCEPT !.status = "SUCCEEDED", !.uploaded = me.to,
                                          !.stamp = me.stamp, !.finished = finishes']]
        /\ worker' = [worker EXCEPT ![w] = IF me.pc = "fail" /\ Alerting(runs[me.run].kind)
                                           THEN [pc |-> "alert", run |-> me.run]
                                           ELSE [pc |-> "claim"]]
        /\ UNCHANGED <<settings, saver, time, dumps, bundles, alerted, stamp, overlapped, saves,
                       crashes>>

RaiseFailureAlert(w) ==
    /\ worker[w].pc = "alert"
    /\ alerted' = alerted \cup {worker[w].run}
    /\ worker' = [worker EXCEPT ![w] = [pc |-> "claim"]]
    /\ UNCHANGED <<runs, settings, saver, time, dumps, bundles, stamp, finishes, overlapped,
                   saves, crashes>>

\* Mutant of Abandoned: nothing is failed at the start.
NoneAbandoned == {}

Abandoned == {i \in RunIds : runs[i].status = "RUNNING"}

\* A worker starts: every run marked RUNNING is failed.
StartWorker(w) ==
    /\ worker[w].pc = "down"
    /\ runs' = [i \in RunIds |-> IF i \in Abandoned THEN [runs[i] EXCEPT !.status = "FAILED"]
                                 ELSE runs[i]]
    /\ worker' = [worker EXCEPT ![w] = Idle]
    /\ overlapped' = (overlapped \/ \E v \in Workers \ {w} : worker[v].pc # "down")
    /\ UNCHANGED <<settings, saver, time, dumps, bundles, alerted, stamp, finishes, saves, crashes>>

StopWorker(w) ==
    /\ worker[w].pc # "down" /\ crashes < MaxCrashes
    /\ worker' = [worker EXCEPT ![w] = Down]
    /\ crashes' = crashes + 1
    /\ UNCHANGED <<runs, settings, saver, time, dumps, bundles, alerted, stamp, finishes,
                   overlapped, saves>>

BackupClock ==
    /\ time < MaxTime
    /\ time' = time + 1
    /\ UNCHANGED <<runs, settings, saver, worker, dumps, bundles, alerted, stamp, finishes,
                   overlapped, saves, crashes>>

CarryOut(w) == \/ LoadSettings(w) \/ DumpLocally(w) \/ Upload(w) \/ ListUploaded(w)
               \/ Prune(w) \/ RestoreCheck(w) \/ TestDestination(w) \/ FinishRun(w)
               \/ RaiseFailureAlert(w)

WorkerStep(w) == Poll(w) \/ FindDue(w) \/ AddDue(w) \/ ClaimRun(w) \/ CarryOut(w)

SaveSettings(r) ==
    \/ ReadForSave(r)
    \/ \E form \in Forms \cap Form : WriteSettings(r, form)

BackupNext ==
    \/ \E r \in Savers : SaveSettings(r)
    \/ \E kind \in Kinds : RequestRun(kind)
    \/ \E w \in Workers : WorkerStep(w) \/ StartWorker(w) \/ StopWorker(w)
    \/ BackupClock

BackupSpec == BackupInit /\ [][BackupNext]_backupVars

\* A worker that is up runs on, and the container's restart policy starts it again.
BackupFairness == \A w \in Workers : WF_backupVars(WorkerStep(w)) /\ WF_backupVars(StartWorker(w))

----------------------------------------------------------------------------
(* Properties. *)

BackupTypeOK ==
    /\ \A i \in RunIds :
          /\ runs[i].kind \in Kinds /\ runs[i].slot \in 0..time
          /\ runs[i].status \in Settled \cup {"PENDING", "RUNNING"}
          /\ runs[i].uploaded \in Types \cup {None} /\ runs[i].stamp \in 0..stamp
    /\ settings.type \in Types \cup {None} /\ settings.creds \in Types \cup {None}
    /\ settings.since \in 0..time
    /\ dumps \subseteq 1..stamp /\ alerted \subseteq RunIds
    /\ \A t \in Types : bundles[t] \subseteq 1..stamp
    /\ \A w \in Workers : "run" \in DOMAIN worker[w] => worker[w].run \in RunIds

\* However many workers poll, a slot of the schedule has one run of each kind.
OneRunPerSlot ==
    \A i, j \in RunIds : i # j /\ runs[i].slot # 0 => <<runs[i].kind, runs[i].slot>> # <<runs[j].kind, runs[j].slot>>

\* Where workers never overlap, a run that came to an outcome keeps it, through
\* crashes, restarts and every later run.
OutcomeStays ==
    [][\A i \in RunIds : runs[i].status \in Settled /\ ~overlapped' => runs'[i] = runs[i]]_backupVars

\* Where workers never overlap, retention and crashes leave on its destination
\* a bundle no older than the newest upload recorded, and a dump beside it.
NewestKept ==
    ~overlapped =>
        /\ LastUpload # 0 => \E b \in bundles[runs[LastUpload].uploaded] : runs[LastUpload].stamp <= b
        /\ (\E i \in RunIds : runs[i].kind = "BACKUP" /\ runs[i].status = "SUCCEEDED") => dumps # {}

\* The stored secrets are those of the stored destination, and it has a key,
\* whatever saves from old pages overlap.
CredentialsFit == settings.type = settings.creds /\ (settings.type # None => settings.key)

\* A backup or restore check that fails leads to an alert, unless its worker
\* stopped on the way or another one started beside it.
FailuresAlert ==
    crashes = 0 /\ ~overlapped =>
        \A i \in RunIds :
            runs[i].status = "FAILED" /\ runs[i].kind # "TEST_DESTINATION" =>
                i \in alerted \/ \E w \in Workers : worker[w] = [pc |-> "alert", run |-> i]

\* Every run that was queued comes to an outcome, also when its worker stops.
EveryRunSettles ==
    \A i \in 1..MaxRuns : i \in RunIds ~> (i \in RunIds /\ runs[i].status \in Settled)

\* Backups can be relied on: one run per slot, the newest bundle kept, secrets
\* of the destination they are used for, and no failure without its alert.
BackupsHold == OneRunPerSlot /\ NewestKept /\ CredentialsFit /\ FailuresAlert
=============================================================================
