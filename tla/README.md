# Verification of Logikos DSP

TLA+ models of the control logic of Logikos DSP, model-checked with TLC and proved
about with TLAPS. "The code" is the repository this directory stands beside: the
TypeScript packages under `packages/` and the Go agent under `native-agent/`. Line
numbers are those of that source. `PROJECT.json` maps every definition to the lines it
stands for, and lists runs, mutants, findings, hazards and theorems.

Logikos DSP watches file shares. Agents (a Node process next to the file servers, a Go
process on Windows desktops) observe files and send events to a backend, which stores
them in PostgreSQL; workers classify contents and make backups; rules raise alerts;
alerts suggest actions, which an administrator approves. There is no message broker:
every interaction is an HTTP request from an agent or a browser, a timer, or a row in
the database that another process polls. The hard behaviours come from four habits of
the code:

- *read, await, write by id*: a handler reads a row, checks it, awaits something, and
  updates by id alone, so the check may be stale when the write lands;
- *timers without a guard*: `setInterval` starts the next round while the last one is
  still running;
- *memory beside the database*: credentials, install options, baselines and sessions
  live in one process and are gone when it restarts, while the rows are not;
- *pages that poll*: a form or a list is filled from an answer and acts on it later,
  when the rows, or the question it was the answer to, have changed.

## 1. Inventory

| Component | State | Operations | What is hard | What makes it correct |
| --- | --- | --- | --- | --- |
| Response actions | `ResponseAction` rows; policy runs, requests | rules insert; policy offers and sends; admin approves, rejects; agent fetches and reports | four actors, stale checks, restart between claim and record | nothing fires without authority; a notification is sent once; an outcome is real |
| Agent quarantine | files, quarantine folder, polls | poll, move each path, report | overlapping polls, concurrent search for a free name, lost reports | `EXECUTED` only if all was moved; one place per file |
| Remote deployments | `Deployment` rows; credentials and options in memory; installers | create, list (expires), collect, install, report | two memories and a row, restarts, overlapping syncs | a password leaves once; success is the installer's; all settle |
| Agent session | secret, its hash, revocation | register, authenticate, recover from 401, revoke, restore, delete | shared recovery, late 401s, lost answers | registers for cause; a revoked secret stays dead; recovers |
| Snapshot diff scan | last listing, skipped folders | walk, compare, post, stop | changes under the walk, locked folders, failed batches | reports add up; nothing falsely gone or new |
| Cloud connectors | folder stack, page, token, listing | page, open folder, retry, sample | moves under the walk, failing pages, expiring token | what stayed is listed once under its path |
| Sources, file servers, scan limiter | loops by share, slots, share and server rows | sync, start, stop, re-time; add, change, switch, delete | answers that overtake each other; stop during a walk; reads before writes | one live loop per share; walks capped; labels in step |
| Network discovery, connection tests | scan and test rows, attempts; address leases | hand out, take up, report, give up; sweep, match | lost reports and answers, agent that dies, late give-up | hosts of one run; first outcome stays; no covered machine called unprotected |
| Activity and attribution | bookmark, audit records, events | poll, post, match, backfill | event and record come in either order; broken posts | a name has its record; an event with a record has its name |
| Alert rules and workflow | events, alerts, decisions | count, look, raise, suggest; acknowledge, resolve | check-then-create, overlapping posts and sweeps | one alert per burst; every burst told |
| Content discovery | passes, one result per file | examine, post, follow renames and deletions | a pass beside scans and the worker | results follow their files |
| Classification worker | job queue, matches | claim, classify, settle | overlapping ticks, dying worker, changed policy | recorded once and whole |
| Backup worker | run queue, schedule, bundles, dumps | enqueue due, claim, dump, upload, prune, check | two workers, a stop anywhere, saved settings | one run per slot; the newest bundle is kept |
| Users, login, sessions | counts, locks, versions, tokens | sign in, lock, change, reset, demote | requests that overlap | guessing is cut short; an administrator remains |
| Directory sign-in | controllers, their copies, settings | bind, find, check, groups; re-check | failover between the steps | one controller vouches for all of it |
| Settings | rows, five-second copy, drafts, questions | edit, ask, save, revert, reset, import | two pages, late reads, lost answers | nothing weak unasked; no edit lost; a fresh copy |
| Retention | histories, limit, page | sweep in batches, change the limit | rows that come, change and close beside it | newest snapshots stay; open alerts stay |
| File servers' pages | forms, buttons, poll, tests | open, submit, press, cancel, test | stale forms, late polls | passwords as typed; a tick is of the last test |
| Lists (Alerts, File Events) | head, older pages, filters, selection | poll, load more, filter, resolve | late pages, rows that move, merged feeds | no gap; nothing acted on off screen |
| Native agent (Go) | watched folders, pending renames, timers, queue | notice, debounce, tell, flush | timers against notices | every change is told |

How they interact: an agent's syncs and polls are the only way work reaches it
(`GET /agent-sync`, `GET /agent-commands`); all its calls go through one session. A scan
posts events to ingest, ingest runs the rules, rules insert alerts with their actions,
the policy timer or an administrator decides, and a quarantine goes back to the agent.

## 2. Modules

| Module | Code |
| --- | --- |
| `ResponseActions` | backend `routes/responseActions.ts`, `notificationPolicy.ts`, `responseActions/execute.ts`, `routes/agentCommands.ts`, the inserts of the rules and workers |
| `NotificationAuthority` | abstract: what the above promises of notifications |
| `Quarantine`; `ResponseLoop` | agent `quarantine.ts`; its composition with `ResponseActions`, a request being one step of both |
| `Deployments` | `routes/deployments.ts`, `deployCredentials.ts`, `routes/agentSync.ts`, agent `deployer.ts` |
| `AgentSession` | agent `agentSession.ts`, `client.ts`; backend `routes/agents.ts`, `auth/agentAuth.ts` |
| `SnapshotDiff`, `SnapshotScan` | agent `diff.ts` (pure operators); `snapshotDiff.ts` and the walk of `sources/smb.ts` |
| `CloudWalk` | agent `sources/googledrive.ts`, `sources/m365.ts` |
| `Sources` | agent `sourceReconcile.ts`, `managedSources.ts`; backend `routes/fileServers.ts` |
| `AgentJobs`, `NetworkCoverage` | `routes/agentSync.ts`, `routes/discovery.ts`, agent `managedSources.ts`; ranges and `coverageFor` |
| `Attribution` | agent collectors; backend ingest, `activity.ts` |
| `AlertRules` | backend `rules/`, `routes/alerts.ts` |
| `Classification`, `ContentDiscovery` | `packages/classification`; agent discovery, backend `contentScans` (extends the former) |
| `Backups` | `packages/backup`, the backup routes |
| `Accounts`, `DirectoryLookup` | `auth/`, `routes/users.ts`; `auth/directoryClient.ts` |
| `Settings` | the settings service and routes, `SettingsView.tsx` |
| `Retention` | `retention.ts`, its page |
| `ServerForms`, `ConnectionTests` | `FileServersView.tsx`, `usePolling.ts` and the routes they call |
| `PagedFeed` | `usePagedFeed.ts`, `AlertsView.tsx`, `FileEventsView.tsx` |
| `NativeWatch` | `native-agent/internal/watch`, the queue and flush of `cmd/agent/run.go` |
| `..._proofs` | theorems of the module they name |
| `MC...` | instances for TLC; each holds several components that share no variable |

Between two awaits JavaScript runs alone, so what a handler does there is one action, and
so is one database statement: an `await` that another actor can slip into ends an action.
Not every one does. Joined over an `await` are

- queries sent together (`Promise.all`): the three of a rename link
  (`ReadRenames`, `activity.ts:115-122`) and the five of a sync (`agentSync.ts:59`);
- the statements of one transaction (`Examined`, the hosts of a sweep);
- statements on rows or columns the model does not keep, with the statement before them
  (`MoveResult`: the matches' own path);
- in the Go watcher, the three critical sections and the look at the file of
  `watch.go:307-328` (`Fire`). The look decides what is told; what a notice between them can change
  is which of two events of one path carries the old name, and no property is about that.

A definition whose comment begins with "Mutant of" is a plausible mistake in the code, used
to show that a property can fail; it is no part of any specification. Variables marked
*history* are read by properties only.

*ResponseActions.* A row id stands for a row of a given alert and type. `RaiseAlert`,
`SuggestNotification` and `SuggestQuarantine` are the separate inserts of a rule or
worker; `WorkerDies` and `BackendRestart` stop them in between. A policy run reads alerts
without a notification (`StartRun`), inserts for each without looking again (`OfferOne`),
reads what is due (`ReadDue`) and claims row by row with an update guarded by `PENDING`
(`ClaimDue`). `Send` and `Record` are the halves of `executeNotification`. The admin
routes read (`ReadRow`) and write (`ApproveNotification`, `ApproveQuarantine`, `Reject`);
only the first write repeats the test. *Quarantine*: a command's paths are moved at one
time (`BeginCommand`), each finds a free name (`FindName`) and then renames (`Rename`),
which may fail though the file is there (`RenameFails`).

*Deployments.* `post`, `deployPage` and `sync` are the progress of each request.
`TakeJob` takes credentials, then options, and skips a job that lacks either. `Dead`,
`PickDead`, `FailDead`, `Forget` are `expireUncollected`; `Report`, `ReportThrows` and
`RetryThrows` the try and catch of `deployOne`.

*AgentSession.* Secrets are numbered, `hash` is the valid one; `strays` counts
registrations whose client is gone but whose handler is not.

*SnapshotScan, CloudWalk.* A listing is read folder by folder, or page by page, while
people change the share. `PairRenames` depends on the order of a Map (`diff.ts:86`) and
takes it as an argument: `Compare` tries every one, and `Pairing` is the loop over it as a
recursive function. `believed` is history: what somebody
holds who applies every report the backend took.

*Sources, AgentJobs.* An agent's syncs overlap, so answers are a sequence that arrives in
either order. A report may be lost, or only its answer: the two differ.

*Attribution, AlertRules, Retention, Classification, Backups, Accounts.* A post, check,
sweep, tick or request is a record with a `pc`; each statement is one action, and what a
statement read is kept in the record, stale or not.

*Attribution.* `activity.ts` reads rows, awaits, and updates them one by one by their ids.
`links` holds for a post of events and for one of records where it is in
`linkBetweenScanRenames` and `linkCopySources` (`renames`, `copies`, `reads`, `rest`), and
the updates it has decided on and not yet made, each with the row it was decided from
(`Update`, `seen`). `Fill`, `ReadRenames`, `ReadCopies` and `ReadReads` are the reads,
`WriteRow` makes one update; between any two of them the other post goes on. An update of
`linkCopySources` writes the actor as well, `IF` the row it read had none, as `Applied`
does. `Linking` is the loop over the rows that were read: a record used up by one is not
there for the next. `overwritten` names the rows written after they had changed since they
were read, `passed` the records that were gone through while an event had looked and had no
row yet, or never because their post broke off.

*Classification, ContentDiscovery.* The batch of a tick and the plan of a pass are sets
taken in their order (by `createdAt`, by time): rows have no equal keys, so the sequence is
that of the set. A changed file's job comes with its event (`CreateJob`); a result and its
job are written by one transaction per posted file (`Examined`); following a deletion is
three statements without one (`RemoveMatches`, `RemoveJob`, `RemoveResults`), following a
rename a look at the new name (`FollowRenamed`) and an update that fails if a result has
come to it since (`MoveResult`, `NameTaken`). `Texts` is
what files may contain: their finds. `ClassificationHolds` is about both modules and stands
in `ContentDiscovery`; the part `classify` has no files.

*DirectoryLookup.* Each controller has its copy; an attempt asks one question a step and
starts over at the next controller when one does not answer.

*Settings, ServerForms, ConnectionTests, PagedFeed.* The dashboard's state is what React
keeps: a draft, a question, a form, a page of rows, the timer of a poll. A request is a
record on its way, its answer lands later, whatever the page has become meanwhile. The
import panel of the settings has no busy flag while it sends: several imports of one page
may be under way (`Uploads`), and it can be cancelled all the while. A request of
`Settings` keeps what warnings were on the screen when it was sent (`read`).

*NativeWatch.* Notices are handled one at a time (`Handle`); a timer's callback looks at
the file (`Fire`) and later queues what it saw (`Tell`).

## 3. Runs

Components that share no variable are explored one at a time within a run: `part` says
which moves, and a behaviour never changes it. So a run is as good as one run per part.

| Run | Parts | What it shows |
| --- | --- | --- |
| `responses` | policy, approve, loop | a notification goes out once and on authority, the machinery implements `NotificationAuthority`, outcomes are those of sends, and a quarantined file is moved on approval and is in one place |
| `field` | deploy, session, scan, cloud, network | passwords leave once, success is real, registrations have a cause, dead secrets stay dead, a diff adds up, a listing is true, coverage is true |
| `workers` | backup, classify, discover, events, snapshots, alerts, forms, tests | what the two workers, retention and the file servers' page promise |
| `console` | settings, guess, users, directory, list, select, merge, lookup | settings, accounts, lists and directory sign-in under overlapping requests |
| `agents` | names, collect, watch, post, sources, jobs, files, devices, reads, silence | attribution, the watcher, loops, jobs and alert rules |
| `live` | respond, deploy, session, settings, retention | notifications go out, deployments settle, a session recovers, copies catch up, old rows go |
| `workers_live` | backup, classify, discover | runs, jobs and passes end |
| `agents_live` | collect, home, sources, jobs, silence | the log is read, files are told, loops run as assigned, jobs settle, silence is told |
| `rejected`, `burst`, `pairs`, `deletes` | | the findings below |

**Why the bounds suffice.** Every race in this code is between a read and a write, so two
actors of each kind show it: a third adds no new order of two accesses to one row. Two
rows of an alert allow a second notification, two files of one name a collision, two
jobs with one place per sync allow one to hide the other, three files in a chain of
three folders give one under a locked folder and one beside it. Names beginning with
`Max` bound counters and faults (but `MaxScans`, `MaxScanAddresses` and `MaxSamplePaths`
are limits of the code); `LastDay`, `LastTick`, `LastHour` the clocks. In the
`MC` modules the parts are narrowed further, and each restriction carries its comment:

- `deploy`: an installation that is broken off is the one fault of its behaviour.
  `session`: a third secret, or a second event. `scan`: a fault in place of a second
  change. `network`: one scan finds machines; any range may be swept.
- `backup`: a second worker only where nobody saves or stops. `classify`: two jobs, two
  ticks. `discover`: one tick, no stop of the worker, one policy, and a post is lost in
  place of a change; the fourth change is a rename while a scan is still being
  followed, so that a result can come to the new name in between.
- Retention: the first of two equal rows is a fixed one; the part `alerts` has a limit of a
  day. `forms`: two requests, or one and a lost one.
- `settings`: an answer is lost in place of a second edit; two imports. `guess`, `users`,
  `directory`: what the other two are about rests. Lists: two arrivals or changes.
  `lookup`: one change of a copy or of the settings, two of these and outages.
- `names`: three paths, one change; the log grows only between the first poll and the
  second and before the change is reported, and of three records the first is a write,
  out of the event's window; a post of records breaks off only past its store. The two
  posts cross in every way. `collect`: one file, the records of one person. `post`:
  one file. `files`: a decision or a stop; `reads`: two of decisions and ticks.
- `approve`: the agent moves both files or none as it reports (`loop` has every step).

Each restricts how many independent disturbances one behaviour has, not in which order
they come. Symmetry is used only in runs without liveness, over actors the constants do
not tell apart. Deadlock is checked in `responses`. In the others a bounded instance
comes to a state where nothing is left to do: deployments settled, secrets used up,
requests spent.

**Fairness.** Code past an await runs on: weak fairness of each handler's continuation.
Timers come back: syncs, polls, ticks of the workers, sweeps, the flush ticker. The
policy timer fires every 15 s and the hours that are not quiet last far longer, so a run
outside them starts again and again (weak fairness would not do, the hours alternate).
`DeploymentsSettle` assumes the page is open, because `expireUncollected` runs nowhere
else, and no restart or lost answer in the instance: after a restart past `MarkRunning` a
row stays `RUNNING`. A worker that exits is started again by its container. Administrators, users and
the network are never obliged to act.

### Findings

- `rejected`: `POST /response-actions/:id/reject` tests for `PENDING` and then writes by
  id (`responseActions.ts:77`): an approval in between is overwritten, the action fires
  and the row reads `REJECTED`.
- `burst`: two files with one base name choose one free name (`quarantine.ts:26`), and
  the second rename replaces the first file.
- `pairs`: of two new files that fit one vanished file the first in walk order becomes
  the renamed one (`diff.ts:86`).
- `deletes`: a path is marked as known before it is looked at (`watch.go:310`), so the
  deletion of a file that was never announced is announced.

### Stated without a run

These say what a comment or a reader expects; the code does not keep them in the instance
named. The run's own property has the exception that makes it true, as a history variable.

| Definition | Violated in | By |
| --- | --- | --- |
| `OneNotification`, `ClaimedSettles` | policy, respond | a run between an alert's insert and its notification's; a restart between claim and record |
| `FailedMeansLeft` | loop | a poll fetches a command another is carrying out |
| `OneInstaller`, `UncollectedIsTrue`, `OutcomeReported` | deploy | two creations pass the check; a sync between the page's read and write; a lost answer and a retry that says "failed" |
| `RevokedHasNoSecret`, `OnlyRevokedDeleted`, `DeletedStaysGone` | session | a registration past its check during a revocation; a restore during a deletion; the running process of a deleted agent |
| `AdminLeft` | users | two demotions overlap between count and update (`users.ts:86`) |
| `NoneSkipped` | collect | a poll that is cut short among records it cannot use |
| `NamesNeverChange` | names | a backfill reads an event without a name, the rename link of `/ingest/events` names it, the backfill's update by id (`activity.ts:92`) writes over the name, against `activity.ts:68-69` |
| `LastFlushEmpties` | post | what is queued beyond the batch of the last flush, or the ticker's batch still under way |
| `Everything` (`PagedFeed`) | list, merge | a row that comes or leaves while older pages are in use |
| `OutageKeepsSessions` | lookup | a search that fails during a re-check, which is taken for an account that is gone |
| `TickIsAlwaysOfLast` | tests | a poll that lands during the next test |
| `CoveredIsAlwaysFound` | network | a revoked agent heard last from the address |

Observed while modelling, with no property of their own: a block of an address
(`ipBlockedUntil`, `loginThrottle.ts:37`) is never compared with the time; a
pending rename of the folder is claimed by any new name (`watch.go:373`); a path's
`renamedFrom` may be stale by the time it is told (`watch.go:325`); changing a server's
host across a share's change leaves its label behind (`fileServers.ts:226`); a filter
changed and changed back lets a page of the earlier use in (`strayed`); a form saved from
an old page reverts the other fields, and the answer of a cancelled form closes the one
opened since; `readsExplainedByCopies` hides every read of a path that a loaded copy
names. `NothingInvented` and `SampleWasThere` hold only where no folder moves under the
walk.

## 4. Proofs

Eight modules hold theorems. They hold for every value of the constants that satisfies
the named assumptions: any number of actors, rows, files and faults.

| Theorem | States |
| --- | --- |
| `ResponseActions_proofs`: `TypeCorrect`, `NotificationSentAtMostOnce`, `NothingUnapproved`, `OutcomesAreReal` | `[]` of `TypeOK`, `SentAtMostOnce`, `ApproveFirst`, `OutcomeIsReal` |
| same: `ImplementsAuthority` | `ResponseActions` implements `NotificationAuthority`, step by step |
| `ResponseLoop_proofs`: `QuarantineSound` | `LoopSpec => []QuarantineKept` |
| `Field_proofs` (`Deployments`): `DeployTypeCorrect`, `PasswordOnce`, `SuccessIsReal` | `[]` of the type, `PasswordLeavesOnce`, `SucceededIsReal` |
| same (`AgentSession`): `SessionTypeCorrect`, `RegistersOnlyForCause`, `SecretsSound` | `[]` of the type, `RegistersForCause`, `SecretsHold` |
| same (`NativeWatch`): `WatchTypeCorrect`, `WatchSound` | `[]` of the type, `FilesTold` |
| same (`SnapshotScan`): `ScanTypeCorrect`, `DiffSound` | `[]` of the type, `DiffIsTrue` |
| `Workers_proofs` (`ConnectionTests`): `TestsTypeCorrect`, `TickOfLast` | `[]` of the type, `TickIsOfLast` |
| same (`ServerForms`): `FormsTypeCorrect`, `FormsSound` | `[]` of the type, `FormsHold` |
| same (`Retention`): `RetentionTypeCorrect`, `RetentionSound`, `OpenAlertsKept` | `[]` of the type, `RetentionHolds`; the action property `OpenAlertsStay` |
| same (`ContentDiscovery`): `ClsTypeCorrect`, `ClassificationSound` | `[]` of the type of `Classification`, `ClassificationHolds` |
| same (`Backups`): `BackupsTypeCorrect`, `BackupsSound`, `BackupOutcomesStay` | `[]` of the type, `BackupsHold`; the action property `OutcomeStays` |
| `Agents_proofs` (`AgentJobs`): `TypeCorrect`, `SweepsNotMixed`, `OutcomeStays` | `[]` of the type, `SweepNotMixed`; the action property `TestOutcomeStays` |
| same (`Sources`): `SourcesTypeCorrect`, `SourcesSound` | `[]` of the type, `SourcesHold` |
| same (`AlertRules`): `RulesTypeCorrect`, `AlertsSound` | `[]` of the type, `AlertsHold` |
| same (`Attribution`): `AttrTypeCorrect`, `NamesSound`, `NamesNeverRewritten` | `[]` of the type, `NamesHold`; the action property `NamesStay` |
| `Accounts_proofs`: `AccountsTypeCorrect`, `AccountsSound` | `[]` of the type, `AccountsHold` |
| `Console_proofs` (`DirectoryLookup`): `TypeCorrect`, `SignInSound` | `[]` of the type, `SignInHolds` |
| same (`PagedFeed`): `FeedTypeCorrect`, `ListsSound` | `[]` of the type, `PageIsTrue` |
| `Settings_proofs`: `TypeCorrect`, `SettingsSound`, `EditsKept` | `[]` of the type, `SettingsHold`; the action property `EditsHold` |

The assumptions type the constants and say what the code's configuration says:
`ConstantsAssumption` keeps requests and runs apart; `LoopAssumption` gives a command at
least one path and every file a sequence of names; `AgentJobsAssumption` makes the jobs
finitely many; `LookupAssumption` asks for at least one controller and that the value for
"no group configured" is no group; `SettingsAssumption` that a key's default is not weak,
that the keys are finitely many, and that an import is something a panel can ask for;
`FormsAssumption` that a form can be filled in; `AccountsAssumption` that there is a local
administrator to begin with and the lock's limit is positive; `BackupsAssumption` that a
backup at least is kept; `NativeWatchAssumption` that files are in folders and the watched
one is not excluded; `ScanAssumption` that a share has finitely many paths and that lying
beneath a folder is transitive, and has the root at its top, and `AtFirstAssumption` that a
share begins with files; `RetentionAssumption`, `SourcesAssumption` and `AlertRulesAssumption`
that limits are numbers and what is counted is finite; `AttributionAssumption` that a poll
asks for a record at least and goes back no less than that, and that what stands for null is
no user and no path; `ClassificationAssumption` that a batch holds a job at least and a text
is a sequence of finds; `FeedAssumption` that a page holds a row, times are
numbers, and the Alerts list is alone on its page. TLC evaluates all of them in the runs.

No property above is inductive as it stands. What each needs:

*ResponseActions* (`IInv`). `Claimed`: a row being sent reads `APPROVED`, or `REJECTED`
after a late rejection, never `PENDING`, its one authority is the claimant's, and the
execution's step tells whether it was sent. `OneExecution`, `Untouched` (an absent or
pending row was neither authorised nor sent), `Commanded` (an approved quarantine, and
whatever a poll holds, is one), `DueAutomatic`. The guarded update of `Claim` keeps them.
The refinement maps `by` to `authorised` and `fired` to `sends`; each step is an
`Authorise`, a `Fire` or a stutter.

*ResponseLoop* (`LInv`). The backend half is `IInv`, which survives composition: to the
backend each step of the loop is one of its own, none, or a restart of the agent
(`LoopStepIsStep`, `RestartKeepsIInv`). The agent's half is `MovesOK`: a move is of a
command its poll holds (`MovesHeld`), so by `ApproveFirst` an admin's; the moves of a
poll are of one command (`OneCommand`) and cover its paths (`AllPaths`); one that ended
well has moved its file (`OkMoved`). `Rename` may overwrite a name, but only one of
another file that is out of its place, so `OnePlace` survives what breaks
`NothingOverwritten`.

*Deployments* (`DeployIInv`). The credentials are in one place at a time: with the
request that creates (`OnePost`, `PostIsFirst`), in the maps, in one sync's answer
(`GivenIsOut`), or with the agent; an absent row is nowhere (`AbsentIsNowhere`), and an
installer is of a deployment handed out (`InstallIsOfHanded`).

*AgentSession* (`IInv`). An answer under way carries a secret newer than any held
(`AnswerIsNewest`); a running process holds a secret (`SecretIsHeld`), valid if nothing
disturbed it (`HolderIsValid`); attempts and rejections have causes. The test in `Stale`,
that the rejected secret is still the session's, keeps the last.

*ConnectionTests* (`TestsIInv`). A form that was never begun over an earlier poll has one
test at a time (`OneAtATime`), its polls are of the last (`PollsAreOfLast`), and a poll
that says how a test ended says what its row says for good (`PollsAreTrue`).

*ServerForms* (`FormsIInv`). Everything a page, a form or a save on its way was filled from
is a version of the row no later than the present one, with the present password if it is
the present version (`AsOf`); so a save that types no password either carries the present
one or is known as stale. Requests are told apart by their numbers, and a busy form waits
for one of its own (`BusyWaits`).

*Retention* (`RetentionIInv`). The ids a sweep holds may go, whatever came or changed
since its search; the snapshots kept contain the newest one, or that one is younger than
the cutoff. The counts rest on the sets removed and those held being disjoint.

*Backups* (`BackupsIInv`). While workers come up one at a time, one holds a `RUNNING` run;
every recorded upload has a bundle no older than itself, and a dump stands beside every
bundle the prune may come to; the saved secrets fit the destination.

*AgentJobs* (`JobsIInv`). What an attempt found is its own (`FoundIsOwn`); a settled test
that somebody is still about to settle is known as outlasted (`OutlastedAreKnown`). Two
lemmas say what `SetToSeq` returns and that an agent takes a job up once at a time.

*Sources* (`SourcesIInv`). The queue holds each waiting loop once, and somebody only when
every slot is taken; `active` is the number of walks; what `running` points to is a loop
of that agent and share; while no two requests overlapped, the one under way knows the
host the row has.

*AlertRules* (`RulesIInv`). An alert keeps its kind, a live one has been live all along;
what a raiser looked for and did not find has no recent live alert unless checks
crossed; what is owed is told, or still looked for.

*Attribution* (`AttrIInv`). An update under way was decided, from a stored record in the
row's window, on a row that lacked what it brings, and the row has kept its path, its time
and any name it had (`UpdatesSound`): so the row is as it was read, or is one of
`overwritten` once it is written. Every name, in a row or about to be stored with one, has
its record (`NamesKnown`). A row without a name is explained by no stored record but those
the post has still to go through, those whose update of the row is under way, and those
`passed` (`NamesGiven`, `FillsKnown`). None of this needs that the two posts keep out of
each other's way. The bookmark of the agent, those on their way and
the one it may be given back after a restart each have their usable records behind them in
the backend (`RecordsReach`). What `Linking` decides for each row it reads goes by
well-founded induction on the number of the row.

*ContentDiscovery* (`DiscIInv`). A job is with one tick, which works on it until its row is
settled or removed, and was not recorded unless that tick has just done so (`TicksOwn`). What
a tick has in its hands is what some settings keep of the job's text; past the record it is
recorded, and the alert is there as far as the tick has come, unless the job's removal has
begun or failed half way (`WorkSound`). One tick notes at a time, and inserts only where no
note is open, unless two crossed (`NotesOne`). A job of discovery has its one result
(`JobsKept`), what a scan found goes with its job (`Removals`), and a result without its file
is in what is still to be followed (`Followed`). `WorkStays` and `CompleteStays` say once what
a step of anybody else may do to a job under way; `GoesOn`, `GoesToNext` and `PastRecord`
what the steps of a tick have in common.

*NativeWatch* (`WatchIInv`). A file to be told of waits for its debounce, is being told,
or a notification still leads there. A "gone" notice is followed by one that leads there
too, a folder not yet watched has its create notice queued after any of its files' gone
notices, and nothing excluded is in any map. Notifications being a queue is what this needs.

*SnapshotScan* (`ScanIInv`). Of every path a walk knows that it is there, missing, under a
folder skipped, or still to be read, and nothing it has seen lies beneath what it skipped
or has still to read (`WalkSound`): so what vanished is missing, and, by transitivity, what
appeared was not in a folder opened since. The outbox leads from what is believed to the
new listing, and its events are true of that listing (`OutboxTrue`, `ToldAddsUp`), which is
why a part of it may be told before the rest (`BatchesFit`). A turn is asked for before its
walk begins (`TimesFit`). `RenamesFitAll` says that the loop over the new paths, in any
order, pairs each path once; `ReportsFit` that each change becomes one event.

*Accounts* (`AccountsIInv`). Tokens and the rows that requests read are of the account
(`OfAccount`): its kind, and its password while the version is the same. Where no two
requests about an account overlapped, there is one at a time and the row it read is the
row as it is (`Alone`, `RowsAreFresh`). The count of an account is of the guesses there
were but for the one about to be recorded (`Counted`); a change that may cost an
administrator was asked by another, who remains (`AnotherAdmin`).

*DirectoryLookup* (`LookupIInv`). For each attempt: what it has got past with the
controller it is at, that controller has said (`FoundHere`, `TookPassword`, `AdminsSaid`),
and its password was refused by nobody yet (`NotRefusedYet`). Starting over at the next
controller forgets all of it, which is what makes the join sound.

*PagedFeed* (`FeedIInv`). All a feed has and awaits is of the question it asks now, but
for a page left over from an earlier use. While no row came or went since older pages are
in use, the head, the polls and the older pages are of the same rows, the page asked for
starts where the list ends, and every row the head was read among is shown or comes after
the last one shown. `NewestIs` says what a page of the newest rows is (closed upwards, all
of them if it is not full), `LastIs` what the last row of a list is; both go by
well-founded induction. `HeadReaches` and `PageReaches` put a poll and a page into the list.

*Settings* (`SettingsIInv`). Four parts for a request (`Recording`, `Sending`, `Judging`,
`Comparing`), `PageSound` and `PanelSound`: a question is about everything its answer
would send, what was confirmed was shown, and a request nobody crossed was compared with
the rows as they are. `EditsKept` follows from the invariant and from `ReqMoves`: only a
commit takes a request to the copy, only an answer ends it.

**Only model-checked.** Liveness, fairness and `ENABLED`, which the prover does not reach.
The library's induction theorems take an operator, which the installed provers cannot
instantiate; where a recursive function is over numbers, its facts are proved by taking the
least number that has not the property (`Linking` above, `Pairing`, the lists of
`PagedFeed`). Not so for the recursive paths of `CloudWalk` (`ListingIsTrue`), which are
declared `RECURSIVE`. `RenamesUnambiguous` is refuted (`pairs`). `NetworkCoverage`
(`CoverageIsTrue`) uses `Bitwise`, in whose reach no theorem is proved. `MC...TypesOK` are
conjunctions of the modules' type invariants. `ApprovedSettles`, stated in `ResponseLoop`
under `LoopFairSpec`, has no run of its own.

## 5. Not modelled, and the plan

Not modelled: the TypeScript watcher and its storage scan (the twin of `NativeWatch` over
chokidar); installation of the native agent; text extraction, patterns and the language
model; queries; packaging. LDAP, the cloud APIs, encryption, `pg_dump`, `age` and `rclone`
are nondeterministic answers. The Go client and its quarantine do what `AgentSession` and
`Quarantine` model. `linkCrossSourceCopies` is no step of `Attribution`, which has one
source, with one post of events and one of records at a time (a restarted agent can have two
of records); rows a deletion takes along are left out, and so are the pages that keep no state
between requests but a busy flag.

Next, in this order:

1. Hazards without a property: a success of a backup recorded as a failure when its record
   fails (`backup/src/index.ts:53`), crossed renames of two folders (`watch.go:373`), the
   answer of a cancelled form.
