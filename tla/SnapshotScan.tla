---------------------------- MODULE SnapshotScan ----------------------------
(***************************************************************************)
(* The diff loop of one share (agent snapshotDiff.ts): walk the share      *)
(* folder by folder while people work on it, compare with the listing of   *)
(* the walk before, report the differences in batches, then post the       *)
(* storage snapshot.  Only a scan that gets through to its end moves the   *)
(* baseline on.  A folder the account may not read is skipped.             *)
(*                                                                         *)
(* The paths and stamps are data of SnapshotDiff.  `believed` is what      *)
(* somebody holds who knows the loop's first listing, applies every report *)
(* the backend has taken and adds the files the loop takes in silently.    *)
(***************************************************************************)
EXTENDS SnapshotDiff

CONSTANTS
    Root,           \* the watch root; a share whose root cannot be read fails the walk
    BatchSize,      \* eventBatchSize
    AtFirst,        \* the listings a share may have at the start
    MaxClock,       \* bound: the last moment
    MaxChanges,     \* bound: changes people make to the share
    MaxFaults       \* bound: failures and restarts

NoPath == "no path"

ASSUME ScanAssumption ==
    /\ IsFiniteSet(Paths) /\ NoPath \notin Paths
    /\ FolderOf \in [Paths -> Folders]
    /\ Root \in Folders
    /\ \A d \in Folders : <<d, d>> \in Inside /\ <<d, Root>> \in Inside
    /\ \A d, e, f \in Folders : <<d, e>> \in Inside /\ <<e, f>> \in Inside => <<d, f>> \in Inside
    /\ BatchSize \in Nat \ {0}
    /\ MaxClock \in Nat \ {0} /\ MaxChanges \in Nat /\ MaxFaults \in Nat

VARIABLES
    share,      \* the files there are, with their stamps
    locked,     \* folders the account may not read
    clock,
    changes,    \* changes made so far
    pc,         \* where the loop is
    stopped,    \* stop() was called
    first,      \* the baseline is null
    baseline,   \* the listing of the last completed scan
    before,     \* unreadableBefore
    since,      \* previousScanAt
    startedAt,  \* when this scan's turn was asked for
    toRead,     \* folders the walk has still to read
    seen,       \* the listing of this walk
    unreadable, \* folders it skipped
    outbox,     \* events not yet posted
    sent,       \* the backend has taken events of this scan
    missing,    \* history: paths that were not there when this walk read their folder
    walkAt,     \* history: when this walk began
    lastWalk,   \* history: when the last completed one began, and what it skipped
    believed,   \* history: see above
    clean,      \* history: every report of this loop so far stands
    faults      \* failures so far

shareVars  == <<share, locked, clock, changes>>
loopVars   == <<stopped, first, baseline, before, since>>
walkVars   == <<toRead, seen, unreadable, missing, walkAt>>
reportVars == <<lastWalk, believed, clean>>
scanVars == <<shareVars, pc, loopVars, startedAt, walkVars, outbox, sent, reportVars, faults>>

Stamp == [size : {0, 1}, mtime : 0..MaxClock]

\* A listing's stamps are stamps.
IsListing(f) == DOMAIN f \subseteq Paths /\ \A p \in DOMAIN f : f[p] \in Stamp

ASSUME AtFirstAssumption == \A f \in AtFirst : IsListing(f)

Event == [type : {"created", "modified", "copied", "renamed", "deleted"},
          path : Paths, from : Paths \cup {NoPath}]

ScanInit ==
    /\ share \in AtFirst /\ locked = {} /\ clock = 1 /\ changes = 0
    /\ pc = "idle" /\ stopped = FALSE /\ first = TRUE
    /\ baseline = Empty /\ before = {} /\ since = 0 /\ startedAt = 0
    /\ toRead = {} /\ seen = Empty /\ unreadable = {} /\ outbox = <<>> /\ sent = FALSE
    /\ missing = {} /\ walkAt = 0 /\ lastWalk = [at |-> 0, skipped |-> {}]
    /\ believed = {} /\ clean = TRUE /\ faults = 0

(***************************************************************************)
(* People, and the clock.  A write gives a file the time it happens at; a  *)
(* move or a copy keeps the stamp, also of a file that comes from          *)
(* elsewhere.  No lock keeps the people who own a folder from working.     *)
(***************************************************************************)
Change(newShare) ==
    /\ changes < MaxChanges
    /\ share' = newShare
    /\ changes' = changes + 1
    /\ UNCHANGED <<locked, clock, pc, loopVars, startedAt, walkVars, outbox, sent, reportVars, faults>>

With(p, stamp) == FilledUp([q \in {p} |-> stamp], share)
Without(p) == Only(share, Paths \ {p})

Write(p, size) == Change(With(p, [size |-> size, mtime |-> clock]))
Paste(p) == Change(With(p, [size |-> 1, mtime |-> 0]))
Delete(p) == p \in DOMAIN share /\ Change(Without(p))
Copy(p, q) == p \in DOMAIN share /\ p # q /\ Change(With(q, share[p]))
Move(p, q) ==
    /\ p \in DOMAIN share /\ q \notin DOMAIN share
    /\ Change(FilledUp([r \in {q} |-> share[p]], Without(p)))

SetAccess(d) ==
    /\ changes < MaxChanges
    /\ locked' = IF d \in locked THEN locked \ {d} ELSE locked \cup {d}
    /\ changes' = changes + 1
    /\ UNCHANGED <<share, clock, pc, loopVars, startedAt, walkVars, outbox, sent, reportVars, faults>>

TimePasses ==
    /\ clock < MaxClock
    /\ clock' = clock + 1
    /\ UNCHANGED <<share, locked, changes, pc, loopVars, startedAt, walkVars, outbox, sent, reportVars, faults>>

(***************************************************************************)
(* One scan.  Its turn is asked for, and its time taken, before it gets    *)
(* one of the scan limiter's slots.                                        *)
(***************************************************************************)
AfterScan == IF stopped THEN "ended" ELSE "idle"

Fault == faults < MaxFaults /\ faults' = faults + 1

AskForTurn ==
    /\ pc = "idle"
    /\ startedAt' = clock
    /\ pc' = "queued"
    /\ UNCHANGED <<shareVars, loopVars, walkVars, outbox, sent, reportVars, faults>>

BeginWalk ==
    /\ pc = "queued"
    /\ toRead' = Folders /\ seen' = Empty /\ unreadable' = {} /\ missing' = {}
    /\ walkAt' = clock
    /\ pc' = "walk"
    /\ UNCHANGED <<shareVars, loopVars, startedAt, outbox, sent, reportVars, faults>>

\* Parents before their folders; what lies in a locked one is not reached.
ReadFolder(d) ==
    /\ pc = "walk"
    /\ d \in toRead
    /\ \A e \in toRead : <<d, e>> \in Inside => e = d
    /\ IF d \in locked
       THEN /\ d # Root
            /\ unreadable' = unreadable \cup {d}
            /\ toRead' = {e \in toRead : <<e, d>> \notin Inside}
            /\ UNCHANGED <<seen, missing>>
       ELSE LET files == {p \in Paths : FolderOf[p] = d}
            IN  /\ seen' = FilledUp(seen, Only(share, files))
                /\ missing' = missing \cup (files \ DOMAIN share)
                /\ toRead' = toRead \ {d}
                /\ UNCHANGED unreadable
    /\ UNCHANGED <<shareVars, pc, loopVars, startedAt, walkAt, outbox, sent, reportVars, faults>>

WalkFails ==
    /\ pc = "walk"
    /\ Fault
    /\ pc' = AfterScan
    /\ UNCHANGED <<shareVars, loopVars, startedAt, walkVars, outbox, sent, reportVars>>

AbandonScan ==
    /\ pc = "walk" /\ toRead = {} /\ stopped
    /\ pc' = "ended"
    /\ UNCHANGED <<shareVars, loopVars, startedAt, walkVars, outbox, sent, reportVars, faults>>

PreviousPath(c) == IF c.from = {} THEN NoPath ELSE CHOOSE p \in c.from : TRUE

\* The events, one class after the other, for new paths in the order given.
Reports(previous, current, order) ==
    LET renames == PairRenames(previous, current, order)
        created == Appeared(previous, current) \ {r.to : r \in renames}
        copies  == PairCopies(created, previous, current, since)
        Plain(type, S) == {[type |-> type, path |-> p, from |-> NoPath] : p \in S}
    IN  SetToSeq(Plain("created", created \ {c.to : c \in copies}))
        \o SetToSeq(Plain("modified", Modified(previous, current)))
        \o SetToSeq({[type |-> "copied", path |-> c.to, from |-> PreviousPath(c)] : c \in copies})
        \o SetToSeq({[type |-> "renamed", path |-> r.to, from |-> r.from] : r \in renames})
        \o SetToSeq(Plain("deleted", Vanished(previous, current) \ {r.from : r \in renames}))

CompareFirst ==
    /\ pc = "walk" /\ toRead = {} /\ ~stopped /\ first
    /\ pc' = "post"
    /\ UNCHANGED <<shareVars, loopVars, startedAt, walkVars, outbox, sent, reportVars, faults>>

\* The files taken in silently go into the baseline of the scan before, and
\* stay there if this scan fails.
Compare ==
    /\ pc = "walk" /\ toRead = {} /\ ~stopped /\ ~first
    /\ LET previous == AbsorbNewlyReadable(baseline, seen, before, unreadable)
           current == CarryForwardUnreadable(previous, seen, unreadable)
       IN  /\ baseline' = previous
           /\ seen' = current
           /\ \E order \in SetToSeqs(Appeared(previous, current)) :
                 outbox' = Reports(previous, current, order)
           /\ believed' = believed \cup Appeared(baseline, previous)
    /\ sent' = FALSE
    /\ pc' = "post"
    /\ UNCHANGED <<shareVars, stopped, first, before, since, startedAt, toRead, unreadable,
                   missing, walkAt, lastWalk, clean, faults>>

-----------------------------------------------------------------------------
Batch == SubSeq(outbox, 1, IF Len(outbox) < BatchSize THEN Len(outbox) ELSE BatchSize)
AfterBatch == SubSeq(outbox, BatchSize + 1, Len(outbox))

Apply(events, paths) ==
    LET gone == {e.path : e \in {x \in Range(events) : x.type = "deleted"}}
                \cup {e.from : e \in {x \in Range(events) : x.type = "renamed"}}
        come == {e.path : e \in {x \in Range(events) : x.type # "deleted"}}
    IN  (paths \ gone) \cup come

PostBatch ==
    /\ pc = "post" /\ outbox # <<>>
    /\ believed' = Apply(Batch, believed)
    /\ outbox' = AfterBatch
    /\ sent' = TRUE
    /\ UNCHANGED <<shareVars, pc, loopVars, startedAt, walkVars, lastWalk, clean, faults>>

\* The backend refuses a batch: the agent logs it and goes on.
BatchRefused ==
    /\ pc = "post" /\ outbox # <<>>
    /\ Fault
    /\ outbox' = AfterBatch
    /\ clean' = FALSE
    /\ UNCHANGED <<shareVars, pc, loopVars, startedAt, walkVars, sent, lastWalk, believed>>

\* Mutant of PostFails: the baseline moves on before the reports are through.
PostFailsMovingOn ==
    /\ pc = "post" /\ outbox # <<>>
    /\ Fault
    /\ baseline' = seen
    /\ \E taken \in BOOLEAN :
          /\ believed' = IF taken THEN Apply(Batch, believed) ELSE believed
          /\ clean' = (clean /\ ~taken /\ ~sent)
    /\ outbox' = <<>>
    /\ pc' = AfterScan
    /\ UNCHANGED <<shareVars, stopped, first, before, since, startedAt, walkVars, sent, lastWalk>>

\* The request fails, with or without the backend having taken the batch: the
\* scan is over, and the next one starts from the baseline of the one before.
PostFails ==
    /\ pc = "post" /\ outbox # <<>>
    /\ Fault
    /\ \E taken \in BOOLEAN :
          /\ believed' = IF taken THEN Apply(Batch, believed) ELSE believed
          /\ clean' = (clean /\ ~taken /\ ~sent)
    /\ outbox' = <<>>
    /\ pc' = AfterScan
    /\ UNCHANGED <<shareVars, loopVars, startedAt, walkVars, sent, lastWalk>>

SnapshotFails ==
    /\ pc = "post" /\ outbox = <<>>
    /\ Fault
    /\ clean' = (clean /\ ~sent)
    /\ pc' = AfterScan
    /\ UNCHANGED <<shareVars, loopVars, startedAt, walkVars, outbox, sent, lastWalk, believed>>

Complete ==
    /\ pc = "post" /\ outbox = <<>>
    /\ baseline' = seen /\ before' = unreadable /\ since' = startedAt /\ first' = FALSE
    /\ believed' = IF first THEN DOMAIN seen ELSE believed
    /\ lastWalk' = [at |-> walkAt, skipped |-> unreadable]
    /\ sent' = FALSE
    /\ pc' = AfterScan
    /\ UNCHANGED <<shareVars, stopped, startedAt, toRead, seen, unreadable, missing, walkAt, outbox, clean, faults>>

(***************************************************************************)
(* stop() clears the timer; a scan under way runs on to its next check.    *)
(* A new loop, after that or after a restart of the agent, knows nothing.  *)
(***************************************************************************)
Stop ==
    /\ ~stopped /\ pc # "ended"
    /\ Fault
    /\ stopped' = TRUE
    /\ pc' = IF pc = "idle" THEN "ended" ELSE pc
    /\ UNCHANGED <<shareVars, first, baseline, before, since, startedAt, walkVars, outbox, sent, reportVars>>

NewLoop ==
    /\ pc' = "idle" /\ stopped' = FALSE /\ first' = TRUE
    /\ baseline' = Empty /\ before' = {} /\ since' = 0 /\ startedAt' = 0
    /\ toRead' = {} /\ seen' = Empty /\ unreadable' = {} /\ outbox' = <<>> /\ sent' = FALSE
    /\ missing' = {} /\ walkAt' = 0 /\ lastWalk' = [at |-> 0, skipped |-> {}]
    /\ believed' = {} /\ clean' = TRUE
    /\ UNCHANGED shareVars

StartLoop == pc = "ended" /\ NewLoop /\ UNCHANGED faults

AgentRestart == Fault /\ NewLoop

-----------------------------------------------------------------------------
People ==
    \/ \E p \in Paths : Delete(p) \/ Paste(p) \/ \E size \in {0, 1} : Write(p, size)
    \/ \E p, q \in Paths : Copy(p, q) \/ Move(p, q)
    \/ \E d \in Folders \ {Root} : SetAccess(d)

Scan ==
    \/ AskForTurn \/ BeginWalk \/ \E d \in Folders : ReadFolder(d)
    \/ CompareFirst \/ Compare \/ AbandonScan
    \/ PostBatch \/ Complete
    \/ WalkFails \/ BatchRefused \/ PostFails \/ SnapshotFails

ScanNext == People \/ TimePasses \/ Scan \/ Stop \/ StartLoop \/ AgentRestart

ScanSpec == ScanInit /\ [][ScanNext]_scanVars

-----------------------------------------------------------------------------
\* Listings are of paths and stamps, and every other variable has its type.
ScanTypeOK ==
    /\ IsListing(share) /\ IsListing(baseline) /\ IsListing(seen)
    /\ locked \subseteq Folders \ {Root} /\ before \subseteq Folders /\ unreadable \subseteq Folders
    /\ toRead \subseteq Folders /\ missing \subseteq Paths /\ believed \subseteq Paths
    /\ pc \in {"idle", "queued", "walk", "post", "ended"}
    /\ {stopped, first, sent, clean} \subseteq BOOLEAN
    /\ outbox \in Seq(Event)
    /\ clock \in 1..MaxClock /\ since \in 0..clock /\ startedAt \in 0..clock
    /\ changes \in 0..MaxChanges /\ faults \in 0..MaxFaults

\* As long as the backend has taken every report (a scan that failed before it
\* took one does not count), the reports add up to the listing: nothing the
\* walks saw come or go is left out, whatever was renamed, copied or locked.
ReportsAddUp == clean /\ ~first /\ pc = "idle" => believed = DOMAIN baseline

\* No path is reported gone twice, or come twice, in one scan: a vanished file
\* explains at most one new one.
OneReportEach ==
    LET Gone(e) == IF e.type = "deleted" THEN e.path ELSE e.from
        Goes(e) == e.type \in {"deleted", "renamed"}
    IN  \A i, j \in DOMAIN outbox :
           i # j => /\ outbox[i].path # outbox[j].path
                    /\ Goes(outbox[i]) /\ Goes(outbox[j]) => Gone(outbox[i]) # Gone(outbox[j])

\* A file is reported gone only if it was not there when the walk read its
\* folder: a folder that became unreadable, at any depth, deletes nothing.
GoneWasMissing ==
    \A i \in DOMAIN outbox :
        /\ outbox[i].type = "deleted" => outbox[i].path \in missing
        /\ outbox[i].type = "renamed" => outbox[i].from \in missing

\* What comes to light in a folder the last completed scan could not read is
\* not reported as new.
OpeningIsSilent ==
    \A i \in DOMAIN outbox :
        outbox[i].type \in {"created", "copied", "renamed"} => ~Under(outbox[i].path, lastWalk.skipped)

\* A copy from nowhere is a file older than the walk before: one that was
\* written here since its folder was read is never taken for a copy.
PastesPredateTheWalk ==
    \A i \in DOMAIN outbox :
        outbox[i].type = "copied" /\ outbox[i].from = NoPath =>
            seen[outbox[i].path].mtime < lastWalk.at

\* Only unambiguous pairs count as renames (diff.ts): there is no other new
\* path a renamed file could just as well have become.
RenamesUnambiguous ==
    \A i, j \in DOMAIN outbox :
        /\ outbox[i].type = "renamed" /\ BaseOf[outbox[i].from] # BaseOf[outbox[i].path]
        /\ i # j /\ outbox[j].type \in {"created", "copied", "renamed"}
        => seen[outbox[i].path] # seen[outbox[j].path]

\* What a diff loop has reported adds up to the share as it was listed last:
\* each change once, no deletion of a file that was only locked or in a folder
\* that was, no creation of one that had been there, and no copy from a file
\* that came later.
DiffIsTrue ==
    ReportsAddUp /\ OneReportEach /\ GoneWasMissing /\ OpeningIsSilent /\ PastesPredateTheWalk
=============================================================================
