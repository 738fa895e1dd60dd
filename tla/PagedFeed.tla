------------------------------ MODULE PagedFeed ------------------------------
(***************************************************************************)
(* The long lists of the dashboard.  Each feed of a page polls its newest  *)
(* rows, and fetches older ones once, with a cursor, when the reader asks  *)
(* for more; a change of the filters starts over.  File Events merges two  *)
(* feeds by time, and Alerts acts on a selection of the rows on screen.    *)
(*                                                                         *)
(* A row's id is a number; it is listed by its time, newest first, and by  *)
(* its id among rows of one time.  What the filters ask a feed for is its  *)
(* key; NoKey is a feed the filters leave out.                             *)
(***************************************************************************)
EXTENDS Integers, FiniteSets, FiniteSetsExt

CONSTANTS
    Feeds, FeedKeys, NoKey,
    FilterSets,   \* what the filter row can be set to
    KeyOf,        \* [Feeds -> [FilterSets -> FeedKeys \cup {NoKey}]]
    OpenOnly,     \* keys that ask for rows that are not resolved
    RowIds,
    RowOf,        \* [RowIds -> [feed, time, path, from, keys]]; from: the path a copy names
    ReadsFeed,    \* the feed whose rows are reads
    AlertsFeed,   \* the feed of Alerts
    Burst,        \* BURST_MS
    FeedPage,     \* pageSize
    MaxPolls, MaxArrivals, MaxFilterChanges \* bounds of a behaviour

\* Alerts is a page of its own, with one feed.
ASSUME FeedAssumption ==
    /\ FeedPage \in Nat \ {0} /\ IsFiniteSet(Feeds) /\ AlertsFeed \in Feeds
    /\ RowIds \subseteq Nat /\ IsFiniteSet(RowIds) /\ \A r \in RowIds : RowOf[r].time \in Nat
    /\ NoKey \notin FeedKeys /\ \A d \in Feeds, f \in FilterSets : KeyOf[d][f] \in FeedKeys \cup {NoKey}
    /\ \A d \in Feeds \ {AlertsFeed}, f \in FilterSets : KeyOf[AlertsFeed][f] # NoKey => KeyOf[d][f] = NoKey

VARIABLES
    rows,         \* the backend's rows
    resolved,     \* those of them that are resolved
    filters,      \* the filter row
    head, older, olderFull, \* of each feed; head is Unread until the first answer
    polls,        \* answers to polls that are under way, in any order
    more,         \* the page asked for, by feed
    selected,     \* ids ticked
    bulk,         \* the request that resolves them
    asOf,         \* history: what matched when the head on screen was read
    moved,        \* history: rows came or went between the head and what follows it
    strayed,      \* history: a page of an earlier use of the key was added
    arrivals, changesMade

pageState == <<head, older, olderFull, polls, more, asOf, moved, strayed>>
feedVars == <<rows, resolved, filters, pageState, selected, bulk, arrivals, changesMade>>

Unread == {-1}
NoMore == [pc |-> "idle"]
NoBulk == [pc |-> "idle"]

FeedInit ==
    /\ rows \in SUBSET RowIds /\ resolved = {}
    /\ filters \in FilterSets
    /\ head = [d \in Feeds |-> Unread] /\ older = [d \in Feeds |-> {}]
    /\ olderFull = [d \in Feeds |-> "none"]
    /\ polls = [d \in Feeds |-> {}] /\ more = [d \in Feeds |-> NoMore]
    /\ selected = {} /\ bulk = NoBulk
    /\ asOf = [d \in Feeds |-> {}]
    /\ moved = [d \in Feeds |-> FALSE] /\ strayed = [d \in Feeds |-> FALSE]
    /\ arrivals = 0 /\ changesMade = 0

----------------------------------------------------------------------------
(* The backend's side. *)

Time(r) == RowOf[r].time

After(r, s) == Time(r) > Time(s) \/ (Time(r) = Time(s) /\ r > s)

Matching(d, k) == {r \in rows : /\ RowOf[r].feed = d /\ k \in RowOf[r].keys
                                /\ k \in OpenOnly => r \notin resolved}

\* Mutant of BeforeCursor: rows of one time are not told apart.
BeforeTime(R, c) == {r \in R : Time(r) < Time(c)}

BeforeCursor(R, c) == {r \in R : After(c, r)}

Newest(R) == {r \in R : Cardinality({s \in R : After(s, r)}) < FeedPage}

----------------------------------------------------------------------------
(* What is on screen. *)

Key(d) == KeyOf[d][filters]
WantedBy == [f \in FilterSets |-> {d \in Feeds : KeyOf[d][f] # NoKey}]
Wanted == WantedBy[filters]

Loaded(d) == IF head[d] = Unread THEN {} ELSE head[d] \cup older[d]

LastLoaded(d) == CHOOSE r \in Loaded(d) : \A s \in Loaded(d) : r = s \/ After(s, r)

Exhausted(d) ==
    /\ head[d] # Unread
    /\ IF olderFull[d] = "none" THEN Cardinality(head[d]) < FeedPage ELSE olderFull[d] = "short"

\* Down to where every feed is loaded; 0 where they all end.
Open == {d \in Wanted : ~Exhausted(d) /\ Loaded(d) # {}}

Cutoff == IF Open = {} THEN 0 ELSE Max({Time(LastLoaded(d)) : d \in Open})

Changes == UNION {Loaded(d) : d \in Wanted \ {ReadsFeed}}
Reads == IF ReadsFeed \in Wanted THEN Loaded(ReadsFeed) ELSE {}

\* Reads of a path that some copy on the page names as where it came from.
Explained == {r \in Reads : \E c \in Changes : RowOf[c].from = RowOf[r].path}

\* Of reads of one path in quick succession, the first stands for all.
Follows(r, s) == /\ RowOf[r].path = RowOf[s].path
                 /\ Time(r) > Time(s) \/ (Time(r) = Time(s) /\ r < s)
                 /\ Time(r) - Time(s) < Burst
Collapsed(R) == {r \in R : ~\E s \in R : Follows(r, s)}

Loading == \E d \in Wanted : head[d] = Unread

OnPage ==
    IF Loading THEN {}
    ELSE LET end == Cutoff IN {r \in Changes \cup Collapsed(Reads \ Explained) : Time(r) >= end}

----------------------------------------------------------------------------
(* Rows come and are resolved; each is seen by the polls after it. *)

Noted == moved' = [d \in Feeds |-> \/ moved[d] \/ olderFull[d] # "none" \/ polls[d] # {} \/ more[d].pc # "idle"]

\* An agent that was away reports what happened earlier.
RowArrives(r) ==
    /\ arrivals < MaxArrivals /\ arrivals' = arrivals + 1
    /\ r \notin rows /\ rows' = rows \cup {r}
    /\ Noted
    /\ UNCHANGED <<resolved, filters, head, older, olderFull, polls, more, asOf, strayed, selected, bulk, changesMade>>

ElsewhereResolved(r) ==
    /\ arrivals < MaxArrivals /\ arrivals' = arrivals + 1
    /\ r \in rows \ resolved /\ \E k \in RowOf[r].keys : k \in OpenOnly
    /\ resolved' = resolved \cup {r}
    /\ Noted
    /\ UNCHANGED <<rows, filters, head, older, olderFull, polls, more, asOf, strayed, selected, bulk, changesMade>>

----------------------------------------------------------------------------
(* One feed. *)

\* The timer's poll, as the backend answers it.
Polls(d) ==
    /\ d \in Wanted /\ Cardinality(polls[d]) < MaxPolls
    /\ LET R == Matching(d, Key(d))
       IN  polls' = [polls EXCEPT ![d] = @ \cup {[page |-> Newest(R), all |-> R]}]
    /\ UNCHANGED <<rows, resolved, filters, head, older, olderFull, more, asOf, moved, strayed, selected, bulk, arrivals, changesMade>>

\* Only rows on screen stay selected (Alerts has one feed).
OnScreen(d, h, o) == IF d # AlertsFeed \/ h = Unread THEN selected ELSE selected \cap (h \cup o)

PollLands(d, p) ==
    /\ p \in polls[d]
    /\ polls' = [polls EXCEPT ![d] = @ \ {p}]
    /\ head' = [head EXCEPT ![d] = p.page]
    /\ asOf' = [asOf EXCEPT ![d] = p.all]
    /\ UNCHANGED older
    /\ selected' = OnScreen(d, p.page, older[d])
    /\ UNCHANGED <<rows, resolved, filters, olderFull, more, moved, strayed, bulk, arrivals, changesMade>>

\* What is on screen stays there.
PollFails(d, p) ==
    /\ p \in polls[d]
    /\ polls' = [polls EXCEPT ![d] = @ \ {p}]
    /\ UNCHANGED <<rows, resolved, filters, head, older, olderFull, more, asOf, moved, strayed, selected, bulk, arrivals, changesMade>>

\* Of the feeds that end highest; the button waits for all of them.
Behind == LET end == Cutoff IN {d \in Open : Time(LastLoaded(d)) = end}

LoadMore ==
    /\ ~Loading /\ \A d \in Wanted : more[d].pc = "idle"
    /\ OnPage # {} /\ Behind # {}
    /\ more' = [d \in Feeds |-> IF d \in Behind
                                THEN [pc |-> "asked", key |-> Key(d), cursor |-> LastLoaded(d), fresh |-> TRUE]
                                ELSE more[d]]
    /\ moved' = [d \in Feeds |-> moved[d] \/ (d \in Behind /\ asOf[d] # Matching(d, Key(d)))]
    /\ UNCHANGED <<rows, resolved, filters, head, older, olderFull, polls, asOf, strayed, selected, bulk, arrivals, changesMade>>

Answered(d) ==
    /\ more[d].pc = "asked"
    /\ LET m == more[d]
       IN  more' = [more EXCEPT ![d] = [pc |-> "answered", key |-> m.key, fresh |-> m.fresh,
                                        page |-> Newest(BeforeCursor(Matching(d, m.key), m.cursor))]]
    /\ UNCHANGED <<rows, resolved, filters, head, older, olderFull, polls, asOf, moved, strayed, selected, bulk, arrivals, changesMade>>

StillWanted(d, m) == m.key = Key(d)

PageLands(d) ==
    /\ more[d].pc = "answered"
    /\ more' = [more EXCEPT ![d] = NoMore]
    /\ LET m == more[d]
       IN  IF StillWanted(d, m)
           THEN /\ older' = [older EXCEPT ![d] = @ \cup m.page]
                /\ olderFull' = [olderFull EXCEPT ![d] = IF Cardinality(m.page) >= FeedPage THEN "full" ELSE "short"]
                /\ strayed' = [strayed EXCEPT ![d] = @ \/ ~m.fresh]
           ELSE UNCHANGED <<older, olderFull, strayed>>
    /\ selected' = OnScreen(d, head[d], older'[d])
    /\ UNCHANGED <<rows, resolved, filters, head, polls, asOf, moved, bulk, arrivals, changesMade>>

MoreFails(d) ==
    /\ more[d].pc # "idle"
    /\ more' = [more EXCEPT ![d] = NoMore]
    /\ UNCHANGED <<rows, resolved, filters, head, older, olderFull, polls, asOf, moved, strayed, selected, bulk, arrivals, changesMade>>

\* A feed whose key changes starts over; its polls are cancelled, and a page that
\* is under way is not.
SetFilters(f) ==
    /\ changesMade < MaxFilterChanges /\ changesMade' = changesMade + 1
    /\ f # filters /\ filters' = f
    /\ (KeyOf[AlertsFeed][f] # NoKey) = (AlertsFeed \in Wanted) \* the other page has its own
    /\ LET Over(was, start) == [d \in Feeds |-> IF KeyOf[d][f] = Key(d) THEN was[d] ELSE start]
       IN  /\ head' = Over(head, Unread) /\ older' = Over(older, {}) /\ olderFull' = Over(olderFull, "none")
           /\ polls' = Over(polls, {}) /\ asOf' = Over(asOf, {})
           /\ moved' = Over(moved, FALSE) /\ strayed' = Over(strayed, FALSE)
    /\ more' = [d \in Feeds |-> IF KeyOf[d][f] = Key(d) \/ more[d].pc = "idle" THEN more[d]
                                ELSE [more[d] EXCEPT !.fresh = FALSE]]
    /\ UNCHANGED <<rows, resolved, selected, bulk, arrivals>>

----------------------------------------------------------------------------
(* The selection of Alerts. *)

Tick(r) ==
    /\ RowOf[r].feed = AlertsFeed /\ r \in rows \ selected /\ r \in OnPage
    /\ selected' = selected \cup {r}
    /\ UNCHANGED <<rows, resolved, filters, pageState, bulk, arrivals, changesMade>>

Untick(r) ==
    /\ r \in selected /\ r \in OnPage
    /\ selected' = selected \ {r}
    /\ UNCHANGED <<rows, resolved, filters, pageState, bulk, arrivals, changesMade>>

\* The box above the rows.
TickAll ==
    /\ AlertsFeed \in Wanted /\ selected' \in {OnPage, {}} \ {selected}
    /\ UNCHANGED <<rows, resolved, filters, pageState, bulk, arrivals, changesMade>>

ResolveSelected ==
    /\ bulk.pc = "idle" /\ ~Loading /\ selected # {}
    /\ bulk' = [pc |-> "sent", todo |-> selected]
    /\ UNCHANGED <<rows, resolved, filters, pageState, selected, arrivals, changesMade>>

\* changeStatus takes the alerts one after the other.
BulkStep(r) ==
    /\ bulk.pc = "sent" /\ r \in bulk.todo
    /\ bulk' = [bulk EXCEPT !.todo = @ \ {r}]
    /\ resolved' = resolved \cup {r}
    /\ Noted
    /\ UNCHANGED <<rows, filters, head, older, olderFull, polls, more, asOf, strayed, selected, arrivals, changesMade>>

BulkDone ==
    /\ bulk.pc = "sent" /\ bulk.todo = {}
    /\ bulk' = NoBulk /\ selected' = {}
    /\ UNCHANGED <<rows, resolved, filters, pageState, arrivals, changesMade>>

\* What was ticked stays ticked, some of it resolved.
BulkFails ==
    /\ bulk.pc = "sent"
    /\ bulk' = NoBulk
    /\ UNCHANGED <<rows, resolved, filters, pageState, selected, arrivals, changesMade>>

FeedStep(d) ==
    \/ Polls(d) \/ Answered(d) \/ PageLands(d) \/ MoreFails(d)
    \/ \E p \in polls[d] : PollLands(d, p) \/ PollFails(d, p)

FeedNext ==
    \/ \E r \in RowIds : RowArrives(r) \/ ElsewhereResolved(r) \/ Tick(r) \/ Untick(r) \/ BulkStep(r)
    \/ \E d \in Feeds : FeedStep(d)
    \/ LoadMore \/ \E f \in FilterSets : SetFilters(f)
    \/ TickAll \/ ResolveSelected \/ BulkDone \/ BulkFails

FeedSpec == FeedInit /\ [][FeedNext]_feedVars
----------------------------------------------------------------------------
(* Properties. *)

FeedTypeOK ==
    /\ rows \subseteq RowIds /\ resolved \subseteq rows
    /\ filters \in FilterSets
    /\ \A d \in Feeds :
         /\ head[d] = Unread \/ head[d] \subseteq rows
         /\ older[d] \subseteq rows /\ olderFull[d] \in {"none", "full", "short"}
         /\ older[d] # {} => olderFull[d] # "none"
         /\ \A p \in polls[d] : Cardinality(p.page) <= FeedPage
         /\ more[d].pc \in {"idle", "asked", "answered"}
         /\ d \notin Wanted => head[d] = Unread /\ older[d] = {} /\ polls[d] = {}
    /\ selected \subseteq rows /\ bulk.pc \in {"idle", "sent"}

\* A feed shows what its filters ask for and nothing of an earlier question,
\* whatever was under way when they changed.
AnswersTheQuestion ==
    \A d \in Wanted : \A r \in Loaded(d) : RowOf[r].feed = d /\ Key(d) \in RowOf[r].keys

\* A read is accounted for by a copy, or by the first of its burst.
ReadCounted(r) ==
    \/ \E c \in Changes : RowOf[c].from = RowOf[r].path
    \/ \E s \in Collapsed(Reads \ Explained) : RowOf[s].path = RowOf[r].path /\ (s \in OnPage \/ Time(s) < Cutoff)

Listed(d) == \A r \in asOf[d] \cap Matching(d, Key(d)) :
                Time(r) > Cutoff => r \in OnPage \/ (d = ReadsFeed /\ ReadCounted(r))

\* Down to where the list goes, and to the end where it says "That's everything
\* in this range", nothing is missing that there was when the head was read: for
\* feeds whose rows did not change while older pages were in use, and which got
\* no page of an earlier use of the same filters.
NothingHidden ==
    ~Loading => \A d \in Wanted : ~moved[d] /\ ~strayed[d] => Listed(d)

\* The same whatever comes and goes: what an older page follows is the end of the
\* head as it was, and the head moves on.
Everything == ~Loading => \A d \in Wanted : Listed(d)

\* What Resolve acts on is on screen: nothing ticked under other filters, nor a
\* row that has left the list.
SelectedOnScreen == head[AlertsFeed] # Unread => selected \subseteq Loaded(AlertsFeed)

\* A list is what its filters ask for, has no gap down to where it ends, and
\* acts on nothing that is not on screen.
PageIsTrue == AnswersTheQuestion /\ NothingHidden /\ SelectedOnScreen
=============================================================================
