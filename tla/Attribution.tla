----------------------------- MODULE Attribution -----------------------------
(***************************************************************************)
(* Who changed a file.  The scans of a share say what changed, the Windows *)
(* Security log of its server says who; a collector polls the log.  The    *)
(* backend joins the two from both sides, since either may come first.     *)
(*                                                                         *)
(* A record's id is its place in the log, which also stands for the time.  *)
(* Some of what a poll returns is no file access and parses to nothing     *)
(* ("noise"): a machine account, the root of the share.                    *)
(*                                                                         *)
(* Every update goes to a row by its id, with what was made of the row as  *)
(* it was read: a post of events and one of records each read rows, await  *)
(* and write them one after the other, and may do so across each other.    *)
(* The paths are those of one file name in different folders.              *)
(***************************************************************************)
EXTENDS Integers, Sequences, FiniteSets

CONSTANTS
    Users, Paths,
    Before, After,  \* the window around what a scan noticed
    IdWindow, PollSize, \* ids asked for in a poll, and events it may return
    ReadsRecorded,
    MaxLog, MaxChanges, MaxLostPosts, MaxAgentRestarts \* bounds of a behaviour

ASSUME AttributionAssumption ==
    /\ PollSize \in Nat \ {0} /\ IdWindow \in Nat /\ IdWindow >= PollSize
    /\ Before \in Nat /\ After \in Nat /\ ReadsRecorded \in BOOLEAN
    /\ "nobody" \notin Users /\ "nowhere" \notin Paths \* null in the rows

VARIABLES
    log,        \* [user, path, action] of the server's records
    changes,    \* what the next scan will notice: [type, path, previous]
    posted,     \* a batch of events at the backend and how far it is
    fileEvent,  \* FileEvent rows: [type, path, previous, at, actor]
    stored,     \* ids of the FileActivity rows
    bookmark,   \* fileServer.activityBookmark, -1 for none
    handed,     \* the bookmark of the last sync's answer
    collector,  \* the agent's poll, and localBookmarks
    activity,   \* a post of records at the backend, and which are still to store and to fill in
    start,      \* history: where collection began
    skipped,    \* history: ids a bookmark went past unread
    lostFirst,  \* history: a post was lost before the agent was handed a bookmark
    links,      \* what each kind of post has still to do of its links and updates
    passed,     \* history: records an event on its way could not meet
    overwritten, \* history: rows updated after they had changed since they were read
    lostPosts, agentRestarts

attrVars == <<log, changes, posted, fileEvent, stored, bookmark, handed, collector, activity, start,
              skipped, lostFirst, links, passed, overwritten, lostPosts, agentRestarts>>

Null == -1
Nobody == "nobody"
Nowhere == "nowhere"
Quiet == [pc |-> "quiet"]
Ids == 1..Len(log)

Requests == {"events", "records"}
Rested == [pc |-> "rest", todo |-> {}, rows |-> <<>>]

AttrInit ==
    /\ log = <<>> /\ changes = {} /\ posted = Quiet /\ fileEvent = <<>> /\ stored = {}
    /\ bookmark = Null /\ handed = Null
    /\ collector = [pc |-> "idle", local |-> Null]
    /\ activity = Quiet /\ start = Null /\ skipped = {} /\ lostFirst = FALSE
    /\ links = [r \in Requests |-> Rested] /\ passed = {} /\ overwritten = {}
    /\ lostPosts = 0 /\ agentRestarts = 0

----------------------------------------------------------------------------
(* People and their server. *)

Logged(u, p, action) == [user |-> u, path |-> p, action |-> action]
Change(type, p, old) == [type |-> type, path |-> p, previous |-> old]

Happens(records, noticed) ==
    /\ Len(log) + Len(records) <= MaxLog /\ Len(fileEvent) + Cardinality(changes \cup noticed) <= MaxChanges
    /\ log' = log \o records
    /\ changes' = changes \cup noticed
    /\ UNCHANGED <<posted, fileEvent, stored, bookmark, handed, collector, activity, start, skipped,
                   lostFirst, links, passed, overwritten, lostPosts, agentRestarts>>

Write(u, p) == \E type \in {"CREATED", "MODIFIED"} : Happens(<<Logged(u, p, "WRITE")>>, {Change(type, p, Nowhere)})

Delete(u, p) == Happens(<<Logged(u, p, "DELETE")>>, {Change("DELETED", p, Nowhere)})

\* A rename is a delete of the old name; a scan that never saw that name sees a create.
Rename(u, p, q) ==
    \E c \in {Change("RENAMED", q, p), Change("CREATED", q, Nowhere)} : Happens(<<Logged(u, p, "DELETE")>>, {c})

OpenFile(u, p) == Happens(<<Logged(u, p, "READ")>>, {})

\* A scan that finds both files new sees a create.
Copy(u, p, q) ==
    \E type \in {"COPIED", "CREATED"} :
        Happens(<<Logged(u, p, "READ"), Logged(u, q, "WRITE")>>, {Change(type, q, Nowhere)})

Noise ==
    /\ Len(log) < MaxLog
    /\ log' = Append(log, Logged(Nobody, Nowhere, "noise"))
    /\ UNCHANGED <<changes, posted, fileEvent, stored, bookmark, handed, collector, activity, start,
                   skipped, lostFirst, links, passed, overwritten, lostPosts, agentRestarts>>

----------------------------------------------------------------------------
(* matchActivity. *)

\* A rename is logged against its old name.
Explains(e, r) ==
    CASE e.type = "DELETED" -> r.path = e.path /\ r.action = "DELETE"
      [] e.type = "RENAMED" -> \/ r.path = e.previous /\ r.action \in {"DELETE", "WRITE"}
                               \/ r.path = e.path /\ r.action = "WRITE"
      [] OTHER -> r.path = e.path /\ r.action = "WRITE"

InWindow(e, i) == i >= e.at - Before /\ i <= e.at + After

Candidates(e, ids) == {i \in ids : InWindow(e, i) /\ Explains(e, log[i])}

Newest(ids) == CHOOSE i \in ids : \A j \in ids : j <= i

\* Mutant of ActorFor: left to the records that come.
ActorLater(e, ids) == Nobody

\* The newest that explains it: the last writer before the scan.
ActorFor(e, ids) == IF Candidates(e, ids) = {} THEN Nobody ELSE log[Newest(Candidates(e, ids))].user

----------------------------------------------------------------------------
(* Updates: what is to be written to a row, for which record, and the row  *)
(* it was decided from.                                                    *)

Update(k, as, i) == [row |-> k, seen |-> fileEvent[k], as |-> as, from |-> i]

\* A fill sets the actor; a link the type and the old path, and the actor
\* where the row as it was read had none.
Applied(e, w) ==
    IF w.as = "actor" THEN [e EXCEPT !.actor = log[w.from].user]
    ELSE [e EXCEPT !.type = w.as, !.previous = log[w.from].path,
                   !.actor = IF w.seen.actor = Nobody THEN log[w.from].user ELSE @]

WriteRow(r) ==
    /\ links[r].todo # {}
    /\ LET w == CHOOSE v \in links[r].todo : \A o \in links[r].todo : v.row <= o.row
       IN  /\ fileEvent' = [fileEvent EXCEPT ![w.row] = Applied(@, w)]
           /\ links' = [links EXCEPT ![r].todo = @ \ {w}]
           /\ overwritten' = IF fileEvent[w.row] = w.seen THEN overwritten ELSE overwritten \cup {w.row}
    /\ UNCHANGED <<log, changes, posted, stored, bookmark, handed, collector, activity, start,
                   skipped, lostFirst, passed, lostPosts, agentRestarts>>

----------------------------------------------------------------------------
(* linkBetweenScanRenames, then linkCopySources. *)

ReportedDeleted == {fileEvent[k].path : k \in {j \in DOMAIN fileEvent : fileEvent[j].type = "DELETED"}}

Unexplained(e) == e.type = "CREATED" /\ e.actor = Nobody /\ e.previous = Nowhere

Deletes(e, used) ==
    {i \in stored \ used : /\ log[i].action = "DELETE" /\ log[i].path # e.path
                           /\ log[i].path \notin ReportedDeleted /\ InWindow(e, i)}

\* With two that fit there is no telling which it was.
OnlyOne(ids) == Cardinality(ids) = 1

LinkRename(acc, k) ==
    LET fit == Deletes(fileEvent[k], acc.used)
    IN  IF Unexplained(fileEvent[k]) /\ OnlyOne(fit)
        THEN [todo |-> acc.todo \cup {Update(k, "RENAMED", Newest(fit))}, used |-> acc.used \cup fit]
        ELSE acc

\* The creates one after the other, and the records used up by then.
Linking ==
    LET done[n \in 0..Len(fileEvent)] == IF n = 0 THEN [todo |-> {}, used |-> {}]
                                         ELSE LinkRename(done[n - 1], n)
    IN  done

RenameUpdates == Linking[Len(fileEvent)].todo

\* A post of records links when it has gone through them.
MayLink(r) == links[r].todo = {} /\ (r = "records" => activity.ids = {} /\ activity.fresh = {})

\* The three queries are sent together; they are one read here.
ReadRenames(r) ==
    /\ links[r].pc = "renames" /\ MayLink(r)
    /\ links' = [links EXCEPT ![r].pc = "copies", ![r].todo = RenameUpdates]
    /\ UNCHANGED <<log, changes, posted, fileEvent, stored, bookmark, handed, collector, activity, start,
                   skipped, lostFirst, passed, overwritten, lostPosts, agentRestarts>>

ReadCopies(r) ==
    /\ links[r].pc = "copies" /\ MayLink(r)
    /\ links' = [links EXCEPT ![r].pc = "reads", ![r].rows = fileEvent]
    /\ UNCHANGED <<log, changes, posted, fileEvent, stored, bookmark, handed, collector, activity, start,
                   skipped, lostFirst, passed, overwritten, lostPosts, agentRestarts>>

\* A read of the file in another folder, and in one only.
Reads(e) == {i \in stored : log[i].action = "READ" /\ log[i].path # e.path /\ InWindow(e, i)}

MayBeCopy(e) == e.type \in {"COPIED", "CREATED"} /\ e.previous = Nowhere
                /\ Cardinality({log[i].path : i \in Reads(e)}) = 1

\* Whose it is known to be, only that person's read can explain; of several reads
\* the query's first counts, and it asks for no order.
CopyUpdates(rows, first) ==
    {[row |-> k, seen |-> rows[k], as |-> "COPIED", from |-> first[k]] :
        k \in {j \in DOMAIN rows : MayBeCopy(rows[j]) /\ rows[j].actor \in {Nobody, log[first[j]].user}}}

ReadReads(r) ==
    /\ links[r].pc = "reads" /\ MayLink(r)
    /\ LET rows == links[r].rows
       IN  \E first \in [DOMAIN rows -> stored \cup {Null}] :
             /\ \A k \in DOMAIN rows : first[k] \in IF MayBeCopy(rows[k]) THEN Reads(rows[k]) ELSE {Null}
             /\ links' = [links EXCEPT ![r] = [pc |-> "rest", todo |-> CopyUpdates(rows, first), rows |-> <<>>]]
    /\ UNCHANGED <<log, changes, posted, fileEvent, stored, bookmark, handed, collector, activity, start,
                   skipped, lostFirst, passed, overwritten, lostPosts, agentRestarts>>

LinkStep(r) == ReadRenames(r) \/ ReadCopies(r) \/ ReadReads(r) \/ WriteRow(r)

----------------------------------------------------------------------------
(* POST /ingest/events. *)

Report(c) ==
    /\ posted = Quiet
    /\ changes' = changes \ {c}
    /\ posted' = [pc |-> "look", event |-> [type |-> c.type, path |-> c.path, previous |-> c.previous,
                                            at |-> Len(log), actor |-> Nobody]]
    /\ UNCHANGED <<log, fileEvent, stored, bookmark, handed, collector, activity, start, skipped,
                   lostFirst, links, passed, overwritten, lostPosts, agentRestarts>>

\* findActorForEvent, then the row.
Look ==
    /\ posted.pc = "look"
    /\ posted' = [posted EXCEPT !.pc = "create", !.event.actor = ActorFor(posted.event, stored)]
    /\ UNCHANGED <<log, changes, fileEvent, stored, bookmark, handed, collector, activity, start,
                   skipped, lostFirst, links, passed, overwritten, lostPosts, agentRestarts>>

Create ==
    /\ posted.pc = "create"
    /\ fileEvent' = Append(fileEvent, posted.event)
    /\ posted' = [pc |-> "link"]
    /\ links' = [links EXCEPT !["events"].pc = "renames"]
    /\ UNCHANGED <<log, changes, stored, bookmark, handed, collector, activity, start, skipped,
                   lostFirst, passed, overwritten, lostPosts, agentRestarts>>

EventsDone ==
    /\ posted.pc = "link" /\ links["events"] = Rested
    /\ posted' = Quiet
    /\ UNCHANGED <<log, changes, fileEvent, stored, bookmark, handed, collector, activity, start, skipped,
                   lostFirst, links, passed, overwritten, lostPosts, agentRestarts>>

----------------------------------------------------------------------------
(* The collector. *)

Sync ==
    /\ handed # bookmark /\ handed' = bookmark
    /\ UNCHANGED <<log, changes, posted, fileEvent, stored, bookmark, collector, activity, start,
                   skipped, lostFirst, links, passed, overwritten, lostPosts, agentRestarts>>

Returned(after) ==
    LET asked == {i \in Ids : i > after /\ i <= after + IdWindow}
    IN  {i \in asked : Cardinality({j \in asked : j <= i}) <= PollSize}

Parsed(ids) == {i \in ids : log[i].action # "noise"}

Usable(i) == log[i].action \in {"WRITE", "DELETE"} \/ (ReadsRecorded /\ log[i].action = "READ")

\* recordIds are those that parsed; a full answer ends the poll at the last of them.
NextBookmark(after, ids) ==
    LET last == IF Parsed(ids) = {} THEN after ELSE Newest(Parsed(ids))
        end == IF after + IdWindow < Len(log) THEN after + IdWindow ELSE Len(log)
    IN  IF Cardinality(Parsed(ids)) >= PollSize THEN last
        ELSE IF last > end THEN last ELSE end

PollFrom == IF handed # Null THEN handed ELSE IF collector.local # Null THEN collector.local ELSE 0

StartsAt == IF Len(log) > PollSize THEN Len(log) - PollSize ELSE 0

\* The first poll starts just behind the newest record; localBookmarks moves before
\* the post.  Left out: a poll that finds nothing and tells the backend nothing new.
Poll ==
    /\ collector.pc = "idle" /\ activity = Quiet
    /\ LET first == handed = Null /\ collector.local = Null
           ids == IF first THEN {} ELSE Returned(PollFrom)
           to == IF first THEN StartsAt ELSE NextBookmark(PollFrom, ids)
       IN  /\ first \/ to # PollFrom \/ to # bookmark
           /\ collector' = [pc |-> "posting", local |-> to]
           /\ activity' = [pc |-> "sent", ids |-> {i \in ids : Usable(i)}, fresh |-> {}, to |-> to]
           /\ start' = IF first THEN to ELSE start
           /\ skipped' = skipped \cup {i \in Ids : i > PollFrom /\ i <= to /\ ~first /\ i \notin ids}
    /\ UNCHANGED <<log, changes, posted, fileEvent, stored, bookmark, handed, lostFirst, links, passed,
                   overwritten, lostPosts, agentRestarts>>

\* The post does not get there; an error is posted in its place, without a bookmark.
PostLost ==
    /\ activity.pc = "sent" /\ lostPosts < MaxLostPosts /\ lostPosts' = lostPosts + 1
    /\ activity' = Quiet
    /\ lostFirst' = (lostFirst \/ handed = Null)
    /\ collector' = [collector EXCEPT !.pc = "idle"]
    /\ UNCHANGED <<log, changes, posted, fileEvent, stored, bookmark, handed, start, skipped,
                   links, passed, overwritten, agentRestarts>>

AgentRestarts ==
    /\ agentRestarts < MaxAgentRestarts /\ agentRestarts' = agentRestarts + 1
    /\ collector' = [pc |-> "idle", local |-> Null]
    /\ handed' = bookmark
    /\ UNCHANGED <<log, changes, posted, fileEvent, stored, bookmark, activity, start,
                   skipped, lostFirst, links, passed, overwritten, lostPosts>>

----------------------------------------------------------------------------
(* POST /ingest/activity. *)

Earliest(ids) == CHOOSE i \in ids : \A j \in ids : i <= j

\* A record that is there already is not gone through again.
StoreRecord ==
    /\ activity.pc # "quiet" /\ activity.ids # {}
    /\ LET i == Earliest(activity.ids)
           fresh == i \notin stored
       IN  /\ stored' = stored \cup {i}
           /\ activity' = [activity EXCEPT !.pc = "ingest", !.ids = @ \ {i},
                                           !.fresh = IF fresh THEN @ \cup {i} ELSE @]
           /\ links' = IF fresh THEN [links EXCEPT !["records"].pc = "renames"] ELSE links
    /\ UNCHANGED <<log, changes, posted, fileEvent, bookmark, handed, collector, start, skipped,
                   lostFirst, passed, overwritten, lostPosts, agentRestarts>>

\* Mutant of FillUpdates: looks at every event.
FillsAll(i) ==
    {Update(k, "actor", i) : k \in {j \in DOMAIN fileEvent : Candidates(fileEvent[j], {i}) # {}}}

\* Only events with no actor yet are touched.
FillUpdates(i) ==
    {Update(k, "actor", i) : k \in {j \in DOMAIN fileEvent : fileEvent[j].actor = Nobody
                                                            /\ Candidates(fileEvent[j], {i}) # {}}}

\* backfillActorsForActivity, record by record: the events it may be of, and their
\* updates (WriteRow).  One that looked for its record before and is not yet
\* there is not among them.
Fill ==
    /\ activity.pc # "quiet" /\ activity.ids = {} /\ activity.fresh # {} /\ links["records"].todo = {}
    /\ LET i == Earliest(activity.fresh)
       IN  /\ links' = [links EXCEPT !["records"].todo = FillUpdates(i)]
           /\ activity' = [activity EXCEPT !.fresh = @ \ {i}]
           /\ passed' = IF posted.pc = "create" THEN passed \cup {i} ELSE passed
    /\ UNCHANGED <<log, changes, posted, fileEvent, stored, bookmark, handed, collector, start, skipped,
                   lostFirst, overwritten, lostPosts, agentRestarts>>

Advance ==
    /\ activity.pc # "quiet" /\ activity.ids = {} /\ activity.fresh = {} /\ links["records"] = Rested
    /\ bookmark' = activity.to
    /\ activity' = Quiet /\ collector' = [collector EXCEPT !.pc = "idle"]
    /\ UNCHANGED <<log, changes, posted, fileEvent, stored, handed, start, skipped, lostFirst, links, passed,
                   overwritten, lostPosts, agentRestarts>>

\* A statement fails or the backend stops: what is stored stays, the bookmark does
\* not move, and what was not filled in by then never is.
IngestBreaks ==
    /\ activity.pc = "ingest" /\ lostPosts < MaxLostPosts /\ lostPosts' = lostPosts + 1
    /\ passed' = passed \cup activity.fresh \cup {w.from : w \in links["records"].todo}
    /\ links' = [links EXCEPT !["records"] = Rested]
    /\ activity' = Quiet /\ collector' = [collector EXCEPT !.pc = "idle"]
    /\ lostFirst' = (lostFirst \/ handed = Null)
    /\ UNCHANGED <<log, changes, posted, fileEvent, stored, bookmark, handed, start, skipped,
                   overwritten, agentRestarts>>

EventStep == Look \/ Create \/ LinkStep("events") \/ EventsDone
ActivityStep == StoreRecord \/ Fill \/ LinkStep("records") \/ Advance

AttrNext ==
    \/ \E u \in Users, p \in Paths : \/ Write(u, p) \/ Delete(u, p) \/ OpenFile(u, p)
                                     \/ \E q \in Paths \ {p} : Rename(u, p, q) \/ Copy(u, p, q)
    \/ Noise
    \/ \E c \in changes : Report(c)
    \/ EventStep \/ Sync \/ Poll \/ ActivityStep
    \/ PostLost \/ AgentRestarts \/ IngestBreaks

AttrSpec == AttrInit /\ [][AttrNext]_attrVars

\* Scans and syncs come back, requests end.
AttrFairness ==
    /\ WF_attrVars(EventStep) /\ WF_attrVars(ActivityStep)
    /\ WF_attrVars(Sync) /\ WF_attrVars(Poll)

----------------------------------------------------------------------------
(* Properties. *)

AttrTypeOK ==
    /\ stored \subseteq Ids /\ \A i \in stored : Usable(i)
    /\ bookmark \in {Null} \cup 0..Len(log)
    /\ \A k \in DOMAIN fileEvent : fileEvent[k].actor \in Users \cup {Nobody}
    /\ overwritten \subseteq DOMAIN fileEvent /\ passed \subseteq stored

\* Whoever is named for an event has a stored record in its window, and at its
\* path or at the one it came from unless it was written over after it changed:
\* through direct matches, late records, renames between scans and copies.
NamesHaveRecords ==
    \A k \in DOMAIN fileEvent :
        LET e == fileEvent[k]
        IN  e.actor # Nobody => \E i \in stored : /\ log[i].user = e.actor /\ InWindow(e, i)
                                                  /\ k \in overwritten \/ log[i].path \in {e.path, e.previous}

\* When no post of records is under way, an event without a name has no stored
\* record that explains it, whichever of them came first, but for records
\* that were gone through between the event's look and its row, or not at all
\* because their post broke off.
NoneLeftUnnamed ==
    activity = Quiet =>
        \A k \in DOMAIN fileEvent : fileEvent[k].actor = Nobody => Candidates(fileEvent[k], stored) \subseteq passed

\* A name stays, unless its row had changed since the writer read it.
NamesStay ==
    [][\A k \in DOMAIN fileEvent :
         fileEvent[k].actor # Nobody /\ fileEvent'[k].actor # fileEvent[k].actor => k \in overwritten']_attrVars

\* activity.ts:68-69: "Only events with no actor yet are touched, so a later poll
\* can't rewrite history".
NamesNeverChange ==
    [][\A k \in DOMAIN fileEvent : fileEvent[k].actor # Nobody => fileEvent'[k].actor = fileEvent[k].actor]_attrVars

\* Every usable record between where collection began and the bookmark is
\* stored, through lost posts, broken ones, restarts and stale bookmarks, but
\* for what a poll went past unread, and as long as no post is lost before the
\* agent has a bookmark of the backend's.
RecordsArrive ==
    ~lostFirst => \A i \in Ids : i > start /\ i <= bookmark /\ Usable(i) /\ start # Null => i \in stored \cup skipped

\* activityRecords.ts:82-83: a poll that is cut short continues "right after the
\* last one returned, so none is skipped".
NoneSkipped == ~\E i \in skipped : Usable(i)

\* The bookmark reaches the end of the log.
CollectorCatchesUp == <>[](bookmark = Len(log))

\* Events and audit records meet in whatever order they come: a name has its
\* record, an event with a record gets its name, and no record is lost on the
\* way.
NamesHold == NamesHaveRecords /\ NoneLeftUnnamed /\ RecordsArrive
=============================================================================
