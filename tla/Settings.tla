------------------------------- MODULE Settings -------------------------------
(***************************************************************************)
(* Settings: the rows, the backend's copy of them kept for five seconds,   *)
(* the requests that change them, and the pages of the dashboard that send *)
(* those.  An edit is a draft of its page until it is saved; a change that *)
(* weakens protection comes back as a question first.                      *)
(*                                                                         *)
(* A setting's value is a number, 0 its default, which has no row.         *)
(***************************************************************************)
EXTENDS Naturals, Sequences, FiniteSets, Functions, SequencesExt

CONSTANTS
    Keys, Values,
    Weak,       \* <<key, value>> that ask for confirmation
    Pages,      \* open settings pages
    Uploads,    \* imports that may be under way
    PageOf,     \* [Uploads -> Pages]: the page whose import panel one is of
    Imports,    \* what files to import may hold: partial functions of Keys
    Readers,    \* other requests and timers that read settings
    MaxEdits, MaxRequests, MaxLost \* bounds of a behaviour

\* What a request may ask for: some keys and their values.
ChangeSets == UNION {[K -> Values] : K \in SUBSET Keys}

ASSUME SettingsAssumption ==
    /\ 0 \in Values /\ Weak \subseteq Keys \X (Values \ {0}) /\ IsFiniteSet(Keys)
    /\ Pages \cap Uploads = {} /\ PageOf \in [Uploads -> Pages] /\ Imports \subseteq ChangeSets

VARIABLES
    stored,     \* Setting rows
    copy,       \* the cache: {} or {rows}
    reader,     \* a read under way: {} or {the rows it found}
    audit,      \* recorded changes: [key, from]
    page,       \* what a page shows, its draft, its question
    panel,      \* what the import panel of a page asks about
    req,        \* the request of a page, or an import, and how far it is
    unasked,    \* history: a weak value was stored whose warning was not shown before
    typedOver,  \* history: an edit was made while a save or a question was standing
    staleFill,  \* history: a read filled the copy with rows that had changed
    edits, requests, lost

settingsVars == <<stored, copy, reader, audit, page, panel, req, unasked, typedOver, staleFill,
                  edits, requests, lost>>

NoChange == [k \in {} |-> 0]
NoRequest == [pc |-> "none"]
PageWith(shown, draft, asked, pending) ==
    [shown |-> shown, draft |-> draft, asked |-> asked, pending |-> pending]
FreshPage(rows) == PageWith(rows, NoChange, {}, 0)
NoQuestion == [values |-> NoChange, asked |-> {}]
\* read: history, the warnings that were on the screen when it was sent.
Request(pc, kind, changes, confirmed, read, from, crossed) ==
    [pc |-> pc, kind |-> kind, changes |-> changes, confirmed |-> confirmed, read |-> read, from |-> from,
     crossed |-> crossed]

SettingsInit ==
    /\ stored = [k \in Keys |-> 0]
    /\ copy = {} /\ reader = [r \in Readers |-> {}]
    /\ audit = <<>>
    /\ page = [p \in Pages |-> FreshPage(stored)]
    /\ panel = [p \in Pages |-> NoQuestion]
    /\ req = [x \in Pages \cup Uploads |-> NoRequest]
    /\ unasked = FALSE /\ typedOver = FALSE /\ staleFill = FALSE
    /\ edits = 0 /\ requests = 0 /\ lost = 0

----------------------------------------------------------------------------
(* The page. *)

PageBusy(x) == req[x].pc # "none"

\* Editing back to what the page shows is no change at all.
Edited(p, k, v) ==
    IF v = page[p].shown[k] THEN Restrict(page[p].draft, DOMAIN page[p].draft \ {k})
    ELSE [j \in DOMAIN page[p].draft \cup {k} |-> IF j = k THEN v ELSE page[p].draft[j]]

\* The controls stay enabled while a save is under way or a question stands.
Edit(p, k, v) ==
    /\ edits < MaxEdits /\ edits' = edits + 1
    /\ page' = [page EXCEPT ![p].draft = Edited(p, k, v)]
    /\ typedOver' = (typedOver \/ PageBusy(p) \/ page[p].asked # {})
    /\ UNCHANGED <<stored, copy, reader, audit, panel, req, unasked, staleFill, requests, lost>>

Shown(x) == IF x \in Pages THEN page[x].asked ELSE panel[PageOf[x]].asked

SendSettings(x, kind, changes, confirmed) ==
    /\ ~PageBusy(x) /\ requests < MaxRequests /\ requests' = requests + 1
    /\ req' = [req EXCEPT ![x] = Request("sent", kind, changes, confirmed, Shown(x), NoChange, FALSE)]
    /\ UNCHANGED <<stored, copy, reader, audit, page, panel, unasked, typedOver, staleFill,
                   edits, lost>>

Save(p) == page[p].asked = {} /\ DOMAIN page[p].draft # {} /\ SendSettings(p, "save", page[p].draft, FALSE)

Reverted(i) == [k \in {audit[i].key} |-> audit[i].from]

\* "Yes, save" sends the draft as it is by then.
Confirm(p) ==
    /\ page[p].asked # {}
    /\ IF page[p].pending # 0 THEN SendSettings(p, "revert", Reverted(page[p].pending), TRUE)
       ELSE SendSettings(p, "save", page[p].draft, TRUE)

GoBack(p) ==
    /\ page[p].asked # {} /\ ~PageBusy(p)
    /\ page' = [page EXCEPT ![p] = PageWith(page[p].shown, page[p].draft, {}, 0)]
    /\ UNCHANGED <<stored, copy, reader, audit, panel, req, unasked, typedOver, staleFill, edits,
                   requests, lost>>

Discard(p) ==
    /\ page[p].asked = {} /\ DOMAIN page[p].draft # {} /\ ~PageBusy(p)
    /\ page' = [page EXCEPT ![p].draft = NoChange]
    /\ UNCHANGED <<stored, copy, reader, audit, panel, req, unasked, typedOver, staleFill, edits,
                   requests, lost>>

Reset(p, k) == page[p].shown[k] # 0 /\ SendSettings(p, "reset", [j \in {k} |-> 0], TRUE)

Revert(p, i) == SendSettings(p, "revert", Reverted(i), FALSE)

\* A file is picked while the page is not busy.  The panel has no state of its
\* own for an import under way: another may be begun, a question answered twice,
\* and the panel cancelled meanwhile.
Import(i, values) == ~PageBusy(PageOf[i]) /\ SendSettings(i, "import", values, FALSE)

ConfirmImport(i) ==
    panel[PageOf[i]].asked # {} /\ SendSettings(i, "import", panel[PageOf[i]].values, TRUE)

CancelImport(p) ==
    /\ panel[p].asked # {}
    /\ panel' = [panel EXCEPT ![p] = NoQuestion]
    /\ UNCHANGED <<stored, copy, reader, audit, page, req, unasked, typedOver, staleFill, edits,
                   requests, lost>>

----------------------------------------------------------------------------
(* The backend. *)

Warnings(changes) == {w \in Weak : w[1] \in DOMAIN changes /\ changes[w[1]] = w[2]}

MustAsk(r) == ~r.confirmed /\ Warnings(r.changes) # {}

\* Every change is checked before any is made; a 409 becomes the page's question.
Judge(x) ==
    /\ req[x].pc = "sent"
    /\ IF MustAsk(req[x])
       THEN /\ req' = [req EXCEPT ![x] = NoRequest]
            /\ IF x \in Uploads
               THEN /\ panel' = [panel EXCEPT ![PageOf[x]] = [values |-> req[x].changes,
                                                              asked |-> Warnings(req[x].changes)]]
                    /\ page' = page
               ELSE /\ page' = [page EXCEPT ![x] =
                           PageWith(page[x].shown, page[x].draft, Warnings(req[x].changes),
                                    IF req[x].kind # "revert" THEN page[x].pending
                                    ELSE CHOOSE i \in DOMAIN audit : Reverted(i) = req[x].changes)]
                    /\ panel' = panel
       ELSE req' = [req EXCEPT ![x].pc = "compare"] /\ UNCHANGED <<page, panel>>
    /\ UNCHANGED <<stored, copy, reader, audit, unasked, typedOver, staleFill, edits, requests, lost>>

Rows == IF copy = {} THEN stored ELSE CHOOSE rows \in copy : TRUE

\* Inside the transaction the present values are read through the copy.
Compare(x) ==
    /\ req[x].pc = "compare"
    /\ copy' = {Rows}
    /\ req' = [req EXCEPT ![x] = Request("commit", req[x].kind, req[x].changes, req[x].confirmed,
                                         req[x].read, Restrict(Rows, DOMAIN req[x].changes),
                                         \E y \in DOMAIN req : req[y].pc = "drop")]
    /\ UNCHANGED <<stored, reader, audit, page, panel, unasked, typedOver, staleFill, edits,
                   requests, lost>>

Changed(r) == {k \in DOMAIN r.changes : r.changes[k] # r.from[k]}

Commit(x) ==
    LET r == req[x]  weak == {w \in Warnings(r.changes) : w[1] \in Changed(r)}
    IN  /\ r.pc = "commit"
        /\ stored' = [k \in Keys |-> IF k \in Changed(r) THEN r.changes[k] ELSE stored[k]]
        /\ req' = [y \in DOMAIN req |-> CASE y = x -> [r EXCEPT !.pc = "drop"]
                                          [] req[y].pc = "commit" /\ y # x -> [req[y] EXCEPT !.crossed = TRUE]
                                          [] OTHER -> req[y]]
        /\ unasked' = (unasked \/ weak \ r.read # {})
        /\ UNCHANGED <<copy, reader, audit, page, panel, typedOver, staleFill, edits, requests, lost>>

\* Mutant of Dropped: nothing is dropped.
DroppedNothing == copy

Dropped == {}

Recorded(r) == SetToSeq({[key |-> k, from |-> r.from[k]] : k \in Changed(r)})

\* invalidateSettings, then an audit entry for each change.
Drop(x) ==
    /\ req[x].pc = "drop"
    /\ copy' = Dropped
    /\ audit' = audit \o Recorded(req[x])
    /\ req' = [req EXCEPT ![x].pc = "reply"]
    /\ UNCHANGED <<stored, reader, page, panel, unasked, typedOver, staleFill, edits, requests, lost>>

\* Mutant of DraftAfter: any answer clears the draft.
DraftCleared(p) == NoChange

\* What a page's draft is after the answer to its request.
DraftAfter(p) ==
    LET draft == page[p].draft
    IN  CASE req[p].kind = "save" -> NoChange
          [] req[p].kind = "reset" -> Restrict(draft, DOMAIN draft \ DOMAIN req[p].changes)
          [] OTHER -> draft

\* describeSettings is part of the answer.  An import's panel hands it to its
\* page, and asks nothing any more.
Reply(x) ==
    /\ req[x].pc = "reply"
    /\ copy' = {Rows}
    /\ req' = [req EXCEPT ![x] = NoRequest]
    /\ IF x \in Uploads
       THEN /\ panel' = [panel EXCEPT ![PageOf[x]] = NoQuestion]
            /\ page' = [page EXCEPT ![PageOf[x]].shown = Rows]
       ELSE /\ page' = [page EXCEPT ![x] =
                    PageWith(Rows, DraftAfter(x), IF req[x].kind = "reset" THEN page[x].asked ELSE {},
                             IF req[x].kind = "revert" THEN 0 ELSE page[x].pending)]
            /\ panel' = panel
    /\ UNCHANGED <<stored, reader, audit, unasked, typedOver, staleFill, edits, requests, lost>>

\* The answer does not arrive: the page says so and keeps its draft and question.
ReplyLost(x) ==
    /\ req[x].pc = "reply" /\ lost < MaxLost /\ lost' = lost + 1
    /\ req' = [req EXCEPT ![x] = NoRequest]
    /\ UNCHANGED <<stored, copy, reader, audit, page, panel, unasked, typedOver, staleFill, edits,
                   requests>>

\* overrides(): findMany, then, after the await, the copy.
BeginRead(r) ==
    /\ copy = {} /\ reader[r] = {}
    /\ reader' = [reader EXCEPT ![r] = {stored}]
    /\ UNCHANGED <<stored, copy, audit, page, panel, req, unasked, typedOver, staleFill, edits,
                   requests, lost>>

EndRead(r) ==
    /\ reader[r] # {}
    /\ copy' = reader[r]
    /\ reader' = [reader EXCEPT ![r] = {}]
    /\ staleFill' = (staleFill \/ stored \notin reader[r])
    /\ UNCHANGED <<stored, audit, page, panel, req, unasked, typedOver, edits, requests, lost>>

\* Mutant of CopyAges: only a save drops the copy.
CopyKept == FALSE /\ UNCHANGED settingsVars

CopyAges ==
    /\ copy # {}
    /\ copy' = {}
    /\ UNCHANGED <<stored, reader, audit, page, panel, req, unasked, typedOver, staleFill, edits,
                   requests, lost>>

PageStep(p) ==
    \/ Save(p) \/ Confirm(p) \/ GoBack(p) \/ Discard(p) \/ CancelImport(p)
    \/ \E k \in Keys : Reset(p, k) \/ \E v \in Values : Edit(p, k, v)
    \/ \E i \in DOMAIN audit : Revert(p, i)

UploadStep(i) == ConfirmImport(i) \/ \E c \in Imports : Import(i, c)

BackendStep(x) == Judge(x) \/ Compare(x) \/ Commit(x) \/ Drop(x) \/ Reply(x)

SettingsNext ==
    \/ \E p \in Pages : PageStep(p)
    \/ \E i \in Uploads : UploadStep(i)
    \/ \E x \in Pages \cup Uploads : BackendStep(x) \/ ReplyLost(x)
    \/ \E r \in Readers : BeginRead(r) \/ EndRead(r)
    \/ CopyAges

SettingsSpec == SettingsInit /\ [][SettingsNext]_settingsVars

\* Awaits come back and time passes; what people do is not fair.
SettingsFairness ==
    /\ \A r \in Readers : WF_settingsVars(EndRead(r))
    /\ \A x \in Pages \cup Uploads : WF_settingsVars(BackendStep(x))
    /\ WF_settingsVars(CopyAges)

----------------------------------------------------------------------------
(* Properties. *)

PageState ==
    [shown : [Keys -> Values], draft : ChangeSets, asked : SUBSET Weak, pending : Nat]
RequestState ==
    {NoRequest}
    \cup [pc : {"sent", "compare", "commit", "drop", "reply"}, kind : {"save", "revert", "reset", "import"},
          changes : ChangeSets, confirmed : BOOLEAN, read : SUBSET Weak, from : ChangeSets, crossed : BOOLEAN]

SettingsTypeOK ==
    /\ stored \in [Keys -> Values]
    /\ copy \subseteq [Keys -> Values] /\ \A c, d \in copy : c = d
    /\ reader \in [Readers -> SUBSET [Keys -> Values]] /\ \A r \in Readers : \A c, d \in reader[r] : c = d
    /\ audit \in Seq([key : Keys, from : Values])
    /\ page \in [Pages -> PageState] /\ \A p \in Pages : page[p].pending \in 0..Len(audit)
    /\ panel \in [Pages -> [values : ChangeSets, asked : SUBSET Weak]]
    /\ req \in [Pages \cup Uploads -> RequestState]
    /\ unasked \in BOOLEAN /\ typedOver \in BOOLEAN /\ staleFill \in BOOLEAN
    /\ edits \in Nat /\ requests \in Nat /\ lost \in Nat

\* A weakening value is stored only after its own warning was shown, through
\* saves, reverts and imports, as long as nothing is typed over a question.
AskedBeforeStored == ~typedOver => ~unasked

\* The copy lags behind the rows only between a commit and the drop that
\* follows it, unless a read that began before the commit filled it after.
CopyIsFresh ==
    ~staleFill => \A rows \in copy : rows = stored \/ \E x \in DOMAIN req : req[x].pc = "drop"

\* A request that is alone on its way leaves what it asked for in the rows,
\* unless the copy it compared with was filled by a late read.
RequestTakesHold ==
    [][\A x \in DOMAIN req :
         req[x].pc = "commit" /\ req'[x].pc = "drop" /\ ~staleFill /\ ~req[x].crossed => \A k \in DOMAIN req[x].changes : stored'[k] = req[x].changes[k]]_settingsVars

\* What a page's answer leaves of its draft is what was typed and not sent;
\* an edit is lost only when it was typed while the save was on its way.
EditsSurvive ==
    [][\A p \in Pages : req[p].pc = "reply" /\ req'[p].pc = "none" /\ ~typedOver =>
         \A k \in DOMAIN page[p].draft \ DOMAIN page'[p].draft :
             k \in DOMAIN req[p].changes /\ req[p].changes[k] \in {0, page[p].draft[k]}]_settingsVars

\* Once nobody changes anything more, what the backend goes by is what is stored.
CopyCatchesUp == <>[](\A rows \in copy : rows = stored)

\* No weak value is stored without its question, and the copy the backend goes
\* by is that of the rows.
SettingsHold == AskedBeforeStored /\ CopyIsFresh

\* What was typed arrives in the rows or stays in the form.
EditsHold == RequestTakesHold /\ EditsSurvive
=============================================================================
