--------------------------- MODULE Settings_proofs ---------------------------
(***************************************************************************)
(* Proofs about Settings, for every set of keys, values and pages, every   *)
(* set of values that ask for confirmation and every file to import.       *)
(***************************************************************************)
EXTENDS Settings, FiniteSetTheorems, SequenceTheorems, TLAPS

Entry == [key : Keys, from : Values]
Kinds == {"save", "revert", "reset", "import"}
RowsType == [Keys -> Values]

\* What is asked for is a function of some keys.
LEMMA ChangeSetsAre ==
    /\ \A K \in SUBSET Keys : [K -> Values] \subseteq ChangeSets
    /\ \A c \in ChangeSets : DOMAIN c \in SUBSET Keys /\ c \in [DOMAIN c -> Values]
BY DEF ChangeSets

\* Leaving keys out, or taking the values of the same keys from the rows, leaves
\* something that can be asked for.
LEMMA RestrictType ==
    /\ \A c \in ChangeSets : \A K : Restrict(c, DOMAIN c \ K) \in ChangeSets
    /\ \A c \in ChangeSets, rows \in RowsType : Restrict(rows, DOMAIN c) \in ChangeSets
    /\ NoChange \in ChangeSets
    /\ \A k \in Keys, v \in Values : [j \in {k} |-> v] \in ChangeSets
<1>1. ASSUME NEW c \in ChangeSets, NEW K PROVE Restrict(c, DOMAIN c \ K) \in ChangeSets
  <2>1. DOMAIN c \ K \in SUBSET Keys /\ \A k \in DOMAIN c \ K : c[k] \in Values
    BY ChangeSetsAre
  <2>2. Restrict(c, DOMAIN c \ K) \in [DOMAIN c \ K -> Values]
    BY <2>1 DEF Restrict
  <2> QED
    BY <2>1, <2>2, ChangeSetsAre
<1>2. ASSUME NEW c \in ChangeSets, NEW rows \in RowsType PROVE Restrict(rows, DOMAIN c) \in ChangeSets
  <2>1. DOMAIN c \in SUBSET Keys /\ \A k \in DOMAIN c : rows[k] \in Values
    BY ChangeSetsAre DEF RowsType
  <2>2. Restrict(rows, DOMAIN c) \in [DOMAIN c -> Values]
    BY <2>1 DEF Restrict
  <2> QED
    BY <2>1, <2>2, ChangeSetsAre
<1>3. NoChange \in ChangeSets
  <2>1. NoChange \in [{} -> Values] /\ {} \in SUBSET Keys
    BY DEF NoChange
  <2> QED
    BY <2>1, ChangeSetsAre
<1>4. ASSUME NEW k \in Keys, NEW v \in Values PROVE [j \in {k} |-> v] \in ChangeSets
  <2>1. [j \in {k} |-> v] \in [{k} -> Values] /\ {k} \in SUBSET Keys
    OBVIOUS
  <2> QED
    BY <2>1, ChangeSetsAre
<1> QED
  BY <1>1, <1>2, <1>3, <1>4

\* An edit adds one key to a draft, or takes it out.
LEMMA EditedType ==
    ASSUME SettingsTypeOK, NEW p \in Pages, NEW k \in Keys, NEW v \in Values
    PROVE  Edited(p, k, v) \in ChangeSets
<1>1. page[p].draft \in ChangeSets
  BY DEF SettingsTypeOK, PageState
<1>2. CASE v = page[p].shown[k]
  BY <1>1, <1>2, RestrictType DEF Edited
<1>3. CASE v # page[p].shown[k]
  <2> DEFINE D == DOMAIN page[p].draft \cup {k}
             e == [j \in D |-> IF j = k THEN v ELSE page[p].draft[j]]
  <2>1. D \in SUBSET Keys /\ \A j \in DOMAIN page[p].draft : page[p].draft[j] \in Values
    BY <1>1, ChangeSetsAre
  <2>2. e \in [D -> Values]
    BY <2>1
  <2>3. Edited(p, k, v) = e
    BY <1>3 DEF Edited
  <2> QED
    BY <2>1, <2>2, <2>3, ChangeSetsAre
<1> QED
  BY <1>2, <1>3

\* What a change is recorded as can be asked for again.
LEMMA RevertedType ==
    ASSUME SettingsTypeOK, NEW i \in DOMAIN audit
    PROVE  Reverted(i) \in ChangeSets
<1>0. audit \in Seq(Entry)
  BY DEF SettingsTypeOK, Entry
<1>1. audit[i] \in Entry
  BY <1>0
<1> QED
  BY <1>1, RestrictType DEF Reverted, Entry

\* A set that is finite is listed by a sequence of its elements.
LEMMA SetToSeqType == ASSUME NEW S, IsFiniteSet(S) PROVE SetToSeq(S) \in Seq(S)
<1>1. Cardinality(S) \in Nat /\ ExistsBijection(1..Cardinality(S), S)
  BY FS_CardinalityType
<1>2. PICK f \in [1..Cardinality(S) -> S] : IsInjective(f)
  BY <1>1 DEF ExistsBijection, Bijection, Injection, IsInjective
<1>3. SetToSeq(S) \in [1..Cardinality(S) -> S]
  BY <1>2 DEF SetToSeq
<1> QED
  BY <1>1, <1>3, SeqDef

\* A request that went under way is one of its kind of record.
Sent == [pc : {"sent", "compare", "commit", "drop", "reply"}, kind : Kinds, changes : ChangeSets,
         confirmed : BOOLEAN, read : SUBSET Weak, from : ChangeSets, crossed : BOOLEAN]

LEMMA RequestIs ==
    ASSUME SettingsTypeOK, NEW x \in Pages \cup Uploads
    PROVE  /\ req[x] \in {NoRequest} \cup Sent
           /\ req[x].pc # "none" => req[x] \in Sent
           /\ req[x].pc = "none" => req[x] = NoRequest
<1>1. req[x] \in RequestState
  BY DEF SettingsTypeOK
<1>2. req[x] \in {NoRequest} \cup Sent
  BY <1>1 DEF RequestState, Sent, Kinds
<1>3. NoRequest.pc = "none" /\ \A r \in Sent : r.pc # "none"
  BY DEF NoRequest, Sent
<1> QED
  BY <1>2, <1>3

LEMMA RequestRecords ==
    /\ \A pc \in {"sent", "compare", "commit", "drop", "reply"}, kind \in Kinds, c, f \in ChangeSets, yes, over \in BOOLEAN,
          read \in SUBSET Weak : Request(pc, kind, c, yes, read, f, over) \in RequestState
    /\ \A r \in Sent : /\ \A pc \in {"sent", "compare", "commit", "drop", "reply"} : [r EXCEPT !.pc = pc] \in RequestState
                       /\ [r EXCEPT !.crossed = TRUE] \in RequestState
    /\ NoRequest \in RequestState
BY DEF Request, RequestState, Sent, Kinds

LEMMA PageRecords ==
    /\ \A shown \in RowsType, c \in ChangeSets, asked \in SUBSET Weak, i \in Nat :
          PageWith(shown, c, asked, i) \in PageState
    /\ \A g \in PageState : /\ \A c \in ChangeSets : [g EXCEPT !.draft = c] \in PageState
                            /\ \A rows \in RowsType : [g EXCEPT !.shown = rows] \in PageState
BY DEF PageWith, PageState, RowsType

LEMMA NoQuestionIs ==
    /\ NoQuestion \in [values : ChangeSets, asked : SUBSET Weak]
    /\ NoQuestion.asked = {}
BY RestrictType DEF NoQuestion

\* What a page shows or its panel asks about are warnings.
LEMMA ShownType == ASSUME SettingsTypeOK, NEW x \in Pages \cup Uploads PROVE Shown(x) \in SUBSET Weak
<1>1. CASE x \in Pages
  BY <1>1 DEF SettingsTypeOK, PageState, Shown
<1>2. CASE x \notin Pages
  <2>1. PageOf[x] \in Pages
    BY <1>2, SettingsAssumption
  <2> QED
    BY <1>2, <2>1 DEF SettingsTypeOK, Shown
<1> QED
  BY <1>1, <1>2

LEMMA WarningsType == \A c : Warnings(c) \in SUBSET Weak
BY DEF Warnings

\* The rows the backend goes by are rows.
LEMMA RowsAre == ASSUME SettingsTypeOK PROVE Rows \in RowsType
BY DEF SettingsTypeOK, Rows, RowsType

LEMMA TypeInit == SettingsInit => SettingsTypeOK
<1> SUFFICES ASSUME SettingsInit PROVE SettingsTypeOK
    OBVIOUS
<1>1. stored \in RowsType
  BY SettingsAssumption DEF SettingsInit, RowsType
<1>2. FreshPage(stored) \in PageState /\ FreshPage(stored).pending = 0
  BY <1>1, RestrictType, PageRecords DEF FreshPage, PageWith
<1>3. NoQuestion \in [values : ChangeSets, asked : SUBSET Weak]
  BY NoQuestionIs
<1>4. audit \in Seq(Entry) /\ Len(audit) = 0
  BY DEF SettingsInit
<1>5. page \in [Pages -> PageState] /\ \A p \in Pages : page[p].pending \in 0..Len(audit)
  BY <1>2, <1>4 DEF SettingsInit
<1>6. panel \in [Pages -> [values : ChangeSets, asked : SUBSET Weak]]
  BY <1>3 DEF SettingsInit
<1>7. req \in [Pages \cup Uploads -> RequestState]
  BY RequestRecords DEF SettingsInit
<1>8. copy = {} /\ reader = [r \in Readers |-> {}]
  BY DEF SettingsInit
<1>9. unasked = FALSE /\ typedOver = FALSE /\ staleFill = FALSE /\ edits = 0 /\ requests = 0 /\ lost = 0
  BY DEF SettingsInit
<1> QED
  BY <1>1, <1>4, <1>5, <1>6, <1>7, <1>8, <1>9 DEF SettingsTypeOK, RowsType, Entry

(* The type invariant in its parts. *)
CopyType == copy \subseteq RowsType /\ \A c, d \in copy : c = d
ReaderType == reader \in [Readers -> SUBSET RowsType] /\ \A r \in Readers : \A c, d \in reader[r] : c = d
PageType == page \in [Pages -> PageState] /\ \A p \in Pages : page[p].pending \in 0..Len(audit)
PanelType == panel \in [Pages -> [values : ChangeSets, asked : SUBSET Weak]]
ReqType == req \in [Pages \cup Uploads -> RequestState]
PastType ==
    /\ unasked \in BOOLEAN /\ typedOver \in BOOLEAN /\ staleFill \in BOOLEAN
    /\ edits \in Nat /\ requests \in Nat /\ lost \in Nat

LEMMA TypeParts ==
    /\ SettingsTypeOK <=>
          /\ stored \in RowsType /\ CopyType /\ ReaderType /\ audit \in Seq(Entry)
          /\ PageType /\ PanelType /\ ReqType /\ PastType
    /\ SettingsTypeOK' <=>
          /\ stored' \in RowsType /\ CopyType' /\ ReaderType' /\ audit' \in Seq(Entry)
          /\ PageType' /\ PanelType' /\ ReqType' /\ PastType'
BY DEF SettingsTypeOK, CopyType, ReaderType, PageType, PanelType, ReqType, PastType, RowsType, Entry

\* What is left alone keeps its type.
LEMMA Unchanged ==
    /\ UNCHANGED copy => (CopyType => CopyType')
    /\ UNCHANGED reader => (ReaderType => ReaderType')
    /\ UNCHANGED <<page, audit>> => (PageType => PageType')
    /\ UNCHANGED panel => (PanelType => PanelType')
    /\ UNCHANGED req => (ReqType => ReqType')
    /\ UNCHANGED <<unasked, typedOver, staleFill, edits, requests, lost>> => (PastType => PastType')
BY DEF CopyType, ReaderType, PageType, PanelType, ReqType, PastType

\* A request that is sent.
LEMMA SendType ==
    ASSUME SettingsTypeOK, NEW x \in Pages \cup Uploads, NEW kind \in Kinds, NEW c \in ChangeSets, NEW yes \in BOOLEAN,
           SendSettings(x, kind, c, yes)
    PROVE  SettingsTypeOK'
<1>1. Request("sent", kind, c, yes, Shown(x), NoChange, FALSE) \in RequestState
  BY RequestRecords, RestrictType, ShownType
<1>2. ReqType'
  BY <1>1, TypeParts DEF SendSettings, ReqType
<1>3. PastType'
  BY TypeParts DEF SendSettings, PastType
<1>4. UNCHANGED <<stored, copy, reader, audit, page, panel>>
  BY DEF SendSettings
<1> QED
  BY <1>2, <1>3, <1>4, TypeParts, Unchanged

\* What a page does.
LEMMA PageStepType ==
    ASSUME SettingsTypeOK, NEW p \in Pages, PageStep(p)
    PROVE  SettingsTypeOK'
<1>0. page[p] \in PageState /\ page[p].draft \in ChangeSets /\ page[p].shown \in RowsType /\ page[p].pending \in 0..Len(audit)
  BY TypeParts DEF PageType, PageState, RowsType
<1>1. CASE Save(p)
  BY <1>0, <1>1, SendType DEF Save, Kinds
<1>2. CASE Confirm(p)
  <2>1. CASE page[p].pending = 0
    BY <1>0, <1>2, <2>1, SendType DEF Confirm, Kinds
  <2>2. CASE page[p].pending # 0
    <3>1. audit \in Seq(Entry)
      BY TypeParts
    <3>2. page[p].pending \in DOMAIN audit
      BY <1>0, <2>2, <3>1
    <3>3. Reverted(page[p].pending) \in ChangeSets
      BY <3>2, RevertedType
    <3> QED
      BY <1>2, <2>2, <3>3, SendType DEF Confirm, Kinds
  <2> QED
    BY <2>1, <2>2
<1>3. CASE GoBack(p) \/ Discard(p)
  <2>1. \E g \in PageState : g.pending \in 0..Len(audit) /\ page' = [page EXCEPT ![p] = g]
    <3>1. CASE GoBack(p)
      <4> DEFINE g == PageWith(page[p].shown, page[p].draft, {}, 0)
      <4>0. audit \in Seq(Entry)
        BY TypeParts
      <4>a. {} \in SUBSET Weak /\ 0 \in Nat /\ 0 \in 0..Len(audit)
        BY <4>0
      <4>b. g \in PageState
        BY <1>0, <4>a, PageRecords
      <4>c. g.pending = 0
        BY DEF PageWith
      <4>1. g \in PageState /\ g.pending \in 0..Len(audit)
        BY <4>a, <4>b, <4>c
      <4>2. page' = [page EXCEPT ![p] = g]
        BY <3>1 DEF GoBack
      <4> QED
        BY <4>1, <4>2
    <3>2. CASE Discard(p)
      <4> DEFINE g == [page[p] EXCEPT !.draft = NoChange]
      <4>1. g \in PageState
        BY <1>0, PageRecords, RestrictType
      <4>2. g.pending = page[p].pending
        OBVIOUS
      <4>3. page' = [page EXCEPT ![p] = g]
        BY <3>2 DEF Discard
      <4> QED
        BY <1>0, <4>1, <4>2, <4>3
    <3> QED
      BY <1>3, <3>1, <3>2
  <2>2. UNCHANGED <<stored, copy, reader, audit, panel, req, unasked, typedOver, staleFill, edits, requests, lost>>
    BY <1>3 DEF GoBack, Discard
  <2>3. PageType'
    BY <2>1, <2>2, TypeParts DEF PageType
  <2> QED
    BY <2>2, <2>3, TypeParts, Unchanged
<1>4. ASSUME NEW k \in Keys, Reset(p, k) PROVE SettingsTypeOK'
  <2>1. [j \in {k} |-> 0] \in ChangeSets
    BY RestrictType, SettingsAssumption
  <2> QED
    BY <1>4, <2>1, SendType DEF Reset, Kinds
<1>5. ASSUME NEW k \in Keys, NEW v \in Values, Edit(p, k, v) PROVE SettingsTypeOK'
  <2> DEFINE g == [page[p] EXCEPT !.draft = Edited(p, k, v)]
  <2>1. g \in PageState
    BY <1>0, PageRecords, EditedType
  <2>2. g.pending = page[p].pending
    OBVIOUS
  <2>3. page' = [page EXCEPT ![p] = g]
    BY <1>5 DEF Edit
  <2> HIDE DEF g
  <2>4. UNCHANGED <<stored, copy, reader, audit, panel, req, unasked, staleFill, requests, lost>>
    BY <1>5 DEF Edit
  <2>5. PageType'
    BY <1>0, <2>1, <2>2, <2>3, <2>4, TypeParts DEF PageType
  <2>6. PastType'
    <3>1. typedOver' \in BOOLEAN /\ edits' = edits + 1
      BY <1>5 DEF Edit
    <3> QED
      BY <2>4, <3>1, TypeParts DEF PastType
  <2> QED
    BY <2>4, <2>5, <2>6, TypeParts, Unchanged
<1>6. ASSUME NEW i \in DOMAIN audit, Revert(p, i) PROVE SettingsTypeOK'
  BY <1>6, RevertedType, SendType DEF Revert, Kinds
<1>7. CASE CancelImport(p)
  <2>1. PanelType'
    BY <1>7, NoQuestionIs, TypeParts DEF CancelImport, PanelType
  <2>2. UNCHANGED <<stored, copy, reader, audit, page, req, unasked, typedOver, staleFill, edits, requests, lost>>
    BY <1>7 DEF CancelImport
  <2> QED
    BY <2>1, <2>2, TypeParts, Unchanged
<1> QED
  BY <1>1, <1>2, <1>3, <1>4, <1>5, <1>6, <1>7 DEF PageStep

\* What an import does.
LEMMA UploadStepType ==
    ASSUME SettingsTypeOK, NEW i \in Uploads, UploadStep(i)
    PROVE  SettingsTypeOK'
<1>0. panel[PageOf[i]].values \in ChangeSets
  BY TypeParts, SettingsAssumption DEF PanelType
<1>1. CASE ConfirmImport(i)
  BY <1>0, <1>1, SendType DEF ConfirmImport, Kinds
<1>2. ASSUME NEW c \in Imports, Import(i, c) PROVE SettingsTypeOK'
  BY <1>2, SendType, SettingsAssumption DEF Import, Kinds
<1> QED
  BY <1>1, <1>2 DEF UploadStep

-----------------------------------------------------------------------------
(* What a request under way and a page at rest rely on. *)

\* A request for an earlier value is for one that was recorded; what is compared
\* with covers what is asked for.
Recording(x) ==
    /\ req[x].pc # "none" /\ req[x].kind = "revert" => \E n \in DOMAIN audit : Reverted(n) = req[x].changes
    /\ req[x].pc \in {"commit", "drop"} => DOMAIN req[x].from = DOMAIN req[x].changes

\* Pages save, revert and reset, their panels import; a save is of the draft unless
\* something was typed over it, and no earlier value waits for an answer then.
Sending(x) ==
    req[x].pc # "none" =>
        /\ req[x].kind = "import" <=> x \in Uploads
        /\ req[x].kind = "save" => page[x].pending = 0 /\ (~typedOver => req[x].changes = page[x].draft)
        /\ req[x].kind = "reset" => \A k \in DOMAIN req[x].changes : req[x].changes[k] = 0

\* What goes on unasked needs no question, what was confirmed had its own.
Judging(x) ==
    /\ req[x].pc \in {"compare", "commit"} => ~MustAsk(req[x])
    /\ req[x].pc \in {"sent", "compare", "commit"} /\ req[x].confirmed /\ ~typedOver =>
          Warnings(req[x].changes) \subseteq req[x].read

\* A request nobody crossed was compared with the rows as they are.
Comparing(x) ==
    req[x].pc = "commit" /\ ~req[x].crossed /\ ~staleFill => req[x].from = Restrict(stored, DOMAIN req[x].changes)

ReqSound(x) == Recording(x) /\ Sending(x) /\ Judging(x) /\ Comparing(x)

\* An earlier value waits only with a question, and a question is about all that
\* its answer would send.
PageSound(p) ==
    /\ page[p].pending # 0 => page[p].asked # {}
    /\ page[p].asked # {} /\ page[p].pending = 0 /\ ~typedOver => Warnings(page[p].draft) \subseteq page[p].asked
    /\ page[p].asked # {} /\ page[p].pending # 0 => Warnings(Reverted(page[p].pending)) \subseteq page[p].asked

PanelSound(p) == panel[p].asked # {} => Warnings(panel[p].values) \subseteq panel[p].asked

SettingsIInv ==
    /\ SettingsTypeOK
    /\ \A x \in Pages \cup Uploads : ReqSound(x)
    /\ \A p \in Pages : PageSound(p) /\ PanelSound(p)
    /\ AskedBeforeStored /\ CopyIsFresh

\* What the backend does for a request.
LEMMA JudgeType == ASSUME SettingsTypeOK, NEW x \in Pages \cup Uploads, Recording(x), Judge(x) PROVE SettingsTypeOK'
<1>0. req[x] \in Sent /\ req[x].pc # "none" /\ req[x].changes \in ChangeSets
  BY RequestIs DEF Judge, Sent
<1>1. UNCHANGED <<stored, copy, reader, audit, unasked, typedOver, staleFill, edits, requests, lost>>
  BY DEF Judge
<1>2. ReqType'
  <2>1. [req[x] EXCEPT !.pc = "compare"] \in RequestState
    BY <1>0, RequestRecords
  <2>2. req' = [req EXCEPT ![x] = NoRequest] \/ req' = [req EXCEPT ![x] = [req[x] EXCEPT !.pc = "compare"]]
    BY DEF Judge
  <2>3. PICK r \in RequestState : req' = [req EXCEPT ![x] = r]
    BY <2>1, <2>2, RequestRecords
  <2> QED
    BY <2>3, TypeParts DEF ReqType
<1>3. PanelType'
  <2>1. [values |-> req[x].changes, asked |-> Warnings(req[x].changes)] \in [values : ChangeSets, asked : SUBSET Weak]
    BY <1>0, WarningsType
  <2>2. panel' = panel \/ panel' = [panel EXCEPT ![PageOf[x]] = [values |-> req[x].changes, asked |-> Warnings(req[x].changes)]]
    BY DEF Judge
  <2> QED
    BY <2>1, <2>2, TypeParts DEF PanelType
<1>4. PageType'
  <2>1. CASE page' = page
    BY <1>1, <2>1, TypeParts, Unchanged
  <2>2. CASE page' # page
    <3>1. x \in Pages /\ x \notin Uploads /\ MustAsk(req[x])
      BY <2>2 DEF Judge
    <3> DEFINE i == IF req[x].kind # "revert" THEN page[x].pending
                    ELSE CHOOSE n \in DOMAIN audit : Reverted(n) = req[x].changes
               g == PageWith(page[x].shown, page[x].draft, Warnings(req[x].changes), i)
    <3>2. page' = [page EXCEPT ![x] = g]
      BY <3>1 DEF Judge
    <3>3. page[x] \in PageState /\ page[x].pending \in 0..Len(audit) /\ audit \in Seq(Entry)
      BY <3>1, TypeParts DEF PageType
    <3>4. i \in 0..Len(audit) /\ i \in Nat
      <4>1. CASE req[x].kind # "revert"
        BY <3>3, <4>1
      <4>2. CASE req[x].kind = "revert"
        <5>1. \E n \in DOMAIN audit : Reverted(n) = req[x].changes
          BY <1>0, <4>2 DEF Recording
        <5>2. i \in DOMAIN audit
          BY <4>2, <5>1
        <5> QED
          BY <3>3, <5>2
      <4> QED
        BY <4>1, <4>2
    <3> HIDE DEF i
    <3>5. g \in PageState /\ g.pending = i
      BY <3>3, <3>4, WarningsType, PageRecords DEF PageState, PageWith, RowsType
    <3> HIDE DEF g
    <3> QED
      BY <1>1, <3>2, <3>4, <3>5, TypeParts DEF PageType
  <2> QED
    BY <2>1, <2>2
<1> QED
  BY <1>1, <1>2, <1>3, <1>4, TypeParts, Unchanged

LEMMA CompareType == ASSUME SettingsTypeOK, NEW x \in Pages \cup Uploads, Compare(x) PROVE SettingsTypeOK'
<1>0. req[x] \in Sent
  BY RequestIs DEF Compare
<1> DEFINE crossing == \E y \in DOMAIN req : req[y].pc = "drop"
           r == Request("commit", req[x].kind, req[x].changes, req[x].confirmed, req[x].read, Restrict(Rows, DOMAIN req[x].changes), crossing)
<1>1. crossing \in BOOLEAN /\ Rows \in RowsType
  BY RowsAre
<1> HIDE DEF crossing
<1>2. r \in RequestState
  BY <1>0, <1>1, RequestRecords, RestrictType DEF Sent
<1>3. ReqType'
  <2>1. req' = [req EXCEPT ![x] = r]
    BY DEF Compare, crossing
  <2> QED
    BY <1>2, <2>1, TypeParts DEF ReqType
<1>4. CopyType'
  BY <1>1 DEF Compare, CopyType
<1>5. UNCHANGED <<stored, reader, audit, page, panel, unasked, typedOver, staleFill, edits, requests, lost>>
  BY DEF Compare
<1> QED
  BY <1>3, <1>4, <1>5, TypeParts, Unchanged

LEMMA CommitType == ASSUME SettingsTypeOK, NEW x \in Pages \cup Uploads, Commit(x) PROVE SettingsTypeOK'
<1>0. req[x] \in Sent /\ req[x].changes \in ChangeSets
  BY RequestIs DEF Commit, Sent
<1>1. stored' \in RowsType
  <2>1. \A k \in Changed(req[x]) : req[x].changes[k] \in Values
    BY <1>0, ChangeSetsAre DEF Changed
  <2> QED
    BY <2>1, TypeParts DEF Commit, RowsType
<1>2. ReqType'
  <2>1. DOMAIN req = Pages \cup Uploads
    BY TypeParts DEF ReqType
  <2>2. ASSUME NEW y \in Pages \cup Uploads
        PROVE  req'[y] \in {[req[x] EXCEPT !.pc = "drop"], req[y]} \/ (req[y].pc = "commit" /\ req'[y] = [req[y] EXCEPT !.crossed = TRUE])
    BY <2>1 DEF Commit
  <2>3. ASSUME NEW y \in Pages \cup Uploads PROVE req'[y] \in RequestState
    <3>1. req[y] \in RequestState
      BY TypeParts DEF ReqType
    <3>2. req[y].pc = "commit" => [req[y] EXCEPT !.crossed = TRUE] \in RequestState
      BY RequestIs, RequestRecords
    <3>3. [req[x] EXCEPT !.pc = "drop"] \in RequestState
      BY <1>0, RequestRecords
    <3> QED
      BY <2>2, <3>1, <3>2, <3>3
  <2>4. req' = [y \in Pages \cup Uploads |-> req'[y]]
    BY <2>1 DEF Commit
  <2> QED
    BY <2>3, <2>4 DEF ReqType
<1>3. PastType'
  BY TypeParts DEF Commit, PastType
<1>4. UNCHANGED <<copy, reader, audit, page, panel>>
  BY DEF Commit
<1> QED
  BY <1>1, <1>2, <1>3, <1>4, TypeParts, Unchanged

\* An audit entry is added for each change, and none is taken away.
LEMMA DropRecords ==
    ASSUME SettingsTypeOK, NEW x \in Pages \cup Uploads, Recording(x), Drop(x)
    PROVE  /\ audit' \in Seq(Entry) /\ Len(audit') >= Len(audit)
           /\ \A n \in DOMAIN audit : n \in DOMAIN audit' /\ audit'[n] = audit[n]
<1>0. req[x] \in Sent /\ DOMAIN req[x].from = DOMAIN req[x].changes
      /\ req[x].from \in ChangeSets /\ req[x].changes \in ChangeSets
  BY RequestIs DEF Drop, Recording, Sent
<1> DEFINE C == Changed(req[x])
           S == {[key |-> k, from |-> req[x].from[k]] : k \in C}
           f == [k \in C |-> [key |-> k, from |-> req[x].from[k]]]
<1>1. C \subseteq Keys /\ \A k \in C : req[x].from[k] \in Values
  BY <1>0, ChangeSetsAre DEF Changed
<1>2. IsFiniteSet(C)
  BY <1>1, SettingsAssumption, FS_Subset
<1>3. S \subseteq Entry
  BY <1>1 DEF Entry
<1>4. IsFiniteSet(S)
  <2>1. f \in Surjection(C, S)
    BY DEF Surjection
  <2> QED
    BY <1>2, <2>1, FS_Surjection
<1>5. Recorded(req[x]) = SetToSeq(S)
  BY DEF Recorded
<1> HIDE DEF S
<1>6. SetToSeq(S) \in Seq(S)
  BY <1>4, SetToSeqType
<1>7. SetToSeq(S) \in Seq(Entry)
  BY <1>3, <1>6
<1>8. audit' = audit \o SetToSeq(S) /\ audit \in Seq(Entry)
  BY <1>5, TypeParts DEF Drop
<1> QED
  BY <1>7, <1>8

LEMMA DropType == ASSUME SettingsTypeOK, NEW x \in Pages \cup Uploads, Recording(x), Drop(x) PROVE SettingsTypeOK'
<1>1. audit \in Seq(Entry) /\ audit' \in Seq(Entry) /\ Len(audit') >= Len(audit)
  BY DropRecords, TypeParts
<1>2. [req[x] EXCEPT !.pc = "reply"] \in RequestState
  BY RequestIs, RequestRecords DEF Drop
<1>3. ReqType'
  BY <1>2, TypeParts DEF Drop, ReqType
<1>4. CopyType'
  BY DEF Drop, Dropped, CopyType
<1>5. UNCHANGED <<stored, reader, page, panel, unasked, typedOver, staleFill, edits, requests, lost>>
  BY DEF Drop
<1>6. PageType'
  BY <1>1, <1>5, TypeParts DEF PageType
<1> QED
  BY <1>1, <1>3, <1>4, <1>5, <1>6, TypeParts, Unchanged

LEMMA ReplyType == ASSUME SettingsTypeOK, NEW x \in Pages \cup Uploads, Reply(x) PROVE SettingsTypeOK'
<1>0. req[x] \in Sent /\ Rows \in RowsType /\ req[x].changes \in ChangeSets
  BY RequestIs, RowsAre DEF Reply, Sent
<1>1. ReqType'
  BY TypeParts, RequestRecords DEF Reply, ReqType
<1>2. CopyType'
  BY <1>0 DEF Reply, CopyType
<1>3. UNCHANGED <<stored, reader, audit, unasked, typedOver, staleFill, edits, requests, lost>>
  BY DEF Reply
<1>4. CASE x \in Uploads
  <2>2. PanelType'
    BY <1>4, NoQuestionIs, TypeParts DEF Reply, PanelType
  <2> DEFINE p == PageOf[x]
             g == [page[p] EXCEPT !.shown = Rows]
  <2>3. p \in Pages
    BY <1>4, SettingsAssumption
  <2>4. page[p] \in PageState /\ page[p].pending \in 0..Len(audit)
    BY <2>3, TypeParts DEF PageType
  <2>5. g \in PageState
    BY <1>0, <2>4, PageRecords
  <2>6. g.pending = page[p].pending
    OBVIOUS
  <2>7. page' = [page EXCEPT ![p] = g]
    BY <1>4 DEF Reply
  <2> HIDE DEF g
  <2>8. PageType'
    BY <1>3, <2>3, <2>4, <2>5, <2>6, <2>7, TypeParts DEF PageType
  <2> QED
    BY <1>1, <1>2, <1>3, <2>2, <2>8, TypeParts, Unchanged
<1>5. CASE x \notin Uploads
  <2> DEFINE asked == IF req[x].kind = "reset" THEN page[x].asked ELSE {}
             i == IF req[x].kind = "revert" THEN 0 ELSE page[x].pending
             g == PageWith(Rows, DraftAfter(x), asked, i)
  <2>1. page[x] \in PageState /\ page[x].pending \in 0..Len(audit) /\ audit \in Seq(Entry)
    BY <1>5, TypeParts DEF PageType
  <2>2. asked \in SUBSET Weak /\ i \in Nat /\ i \in 0..Len(audit) /\ page[x].draft \in ChangeSets
    BY <2>1 DEF PageState
  <2>3. DraftAfter(x) \in ChangeSets
    BY <1>0, <2>2, RestrictType DEF DraftAfter
  <2>4. page' = [page EXCEPT ![x] = g] /\ panel' = panel
    BY <1>5 DEF Reply
  <2> HIDE DEF asked, i
  <2>5. g \in PageState /\ g.pending = i
    BY <1>0, <2>2, <2>3, PageRecords DEF PageWith
  <2> HIDE DEF g
  <2>6. PageType'
    BY <1>3, <1>5, <2>2, <2>4, <2>5, TypeParts DEF PageType
  <2> QED
    BY <1>1, <1>2, <1>3, <2>4, <2>6, TypeParts, Unchanged
<1> QED
  BY <1>4, <1>5

\* Reads of the rows, the copy that ages, an answer that is lost.
LEMMA OtherType ==
    ASSUME SettingsTypeOK,
           \/ \E x \in Pages \cup Uploads : ReplyLost(x)
           \/ \E r \in Readers : BeginRead(r) \/ EndRead(r)
           \/ CopyAges
    PROVE  SettingsTypeOK'
<1>1. ASSUME NEW x \in Pages \cup Uploads, ReplyLost(x) PROVE SettingsTypeOK'
  <2>1. ReqType' /\ PastType'
    BY <1>1, TypeParts, RequestRecords DEF ReplyLost, ReqType, PastType
  <2>2. UNCHANGED <<stored, copy, reader, audit, page, panel>>
    BY <1>1 DEF ReplyLost
  <2> QED
    BY <2>1, <2>2, TypeParts, Unchanged
<1>2. ASSUME NEW r \in Readers, BeginRead(r) PROVE SettingsTypeOK'
  <2>1. ReaderType'
    BY <1>2, TypeParts DEF BeginRead, ReaderType
  <2>2. UNCHANGED <<stored, copy, audit, page, panel, req, unasked, typedOver, staleFill, edits, requests, lost>>
    BY <1>2 DEF BeginRead
  <2> QED
    BY <2>1, <2>2, TypeParts, Unchanged
<1>3. ASSUME NEW r \in Readers, EndRead(r) PROVE SettingsTypeOK'
  <2>1. ReaderType' /\ CopyType'
    BY <1>3, TypeParts DEF EndRead, ReaderType, CopyType
  <2>2. PastType'
    BY <1>3, TypeParts DEF EndRead, PastType
  <2>3. UNCHANGED <<stored, audit, page, panel, req>>
    BY <1>3 DEF EndRead
  <2> QED
    BY <2>1, <2>2, <2>3, TypeParts, Unchanged
<1>4. CASE CopyAges
  <2>1. CopyType'
    BY <1>4 DEF CopyAges, CopyType
  <2>2. UNCHANGED <<stored, reader, audit, page, panel, req, unasked, typedOver, staleFill, edits, requests, lost>>
    BY <1>4 DEF CopyAges
  <2> QED
    BY <2>1, <2>2, TypeParts, Unchanged
<1> QED
  BY <1>1, <1>2, <1>3, <1>4

-----------------------------------------------------------------------------
(* The inductive invariant. *)

LEMMA HoldsInit == SettingsInit => SettingsIInv
<1> SUFFICES ASSUME SettingsInit PROVE SettingsIInv
    OBVIOUS
<1>1. \A x \in Pages \cup Uploads : req[x].pc = "none"
  BY DEF SettingsInit, NoRequest
<1>2. \A x \in Pages \cup Uploads : ReqSound(x)
  BY <1>1 DEF ReqSound, Recording, Sending, Judging, Comparing
<1>3. \A p \in Pages : PageSound(p)
  BY DEF SettingsInit, FreshPage, PageWith, PageSound
<1>4. \A p \in Pages : PanelSound(p)
  BY NoQuestionIs DEF SettingsInit, PanelSound
<1>5. AskedBeforeStored /\ CopyIsFresh
  BY DEF SettingsInit, AskedBeforeStored, CopyIsFresh
<1> QED
  BY <1>2, <1>3, <1>4, <1>5, TypeInit DEF SettingsIInv

\* What is recorded stays recorded.
AuditGrows == \A n \in DOMAIN audit : n \in DOMAIN audit' /\ audit'[n] = audit[n]

LEMMA RevertedStays == ASSUME AuditGrows, NEW n \in DOMAIN audit PROVE Reverted(n)' = Reverted(n)
BY DEF AuditGrows, Reverted

\* A request goes on relying on what it relied on when another's step leaves it
\* alone, adds to the record, or types something over.
LEMMA ReqFrame ==
    ASSUME NEW x \in Pages \cup Uploads, ReqSound(x), AuditGrows, typedOver => typedOver', staleFill => staleFill',
           req'[x].pc = req[x].pc, req'[x].kind = req[x].kind, req'[x].changes = req[x].changes,
           req'[x].confirmed = req[x].confirmed, req'[x].read = req[x].read, req'[x].from = req[x].from,
           req'[x].pc = "commit" /\ ~req'[x].crossed => ~req[x].crossed /\ stored' = stored,
           x \in Pages => /\ page'[x].pending = page[x].pending
                          /\ page'[x].draft = page[x].draft \/ typedOver' \/ req[x].pc = "none",
           Pages \cap Uploads = {}
    PROVE  ReqSound(x)'
<1>1. Recording(x)'
  <2>1. req'[x].pc # "none" /\ req'[x].kind = "revert" => \E n \in DOMAIN audit' : Reverted(n)' = req'[x].changes
    <3> SUFFICES ASSUME req'[x].pc # "none", req'[x].kind = "revert" PROVE \E n \in DOMAIN audit' : Reverted(n)' = req'[x].changes
        OBVIOUS
    <3>1. PICK n \in DOMAIN audit : Reverted(n) = req[x].changes
      BY DEF ReqSound, Recording
    <3>2. n \in DOMAIN audit' /\ Reverted(n)' = Reverted(n)
      BY <3>1, RevertedStays DEF AuditGrows
    <3> QED
      BY <3>1, <3>2
  <2> QED
    BY <2>1 DEF ReqSound, Recording
<1>2. Sending(x)'
  BY DEF ReqSound, Sending
<1>3. Judging(x)'
  BY DEF ReqSound, Judging, MustAsk, Warnings
<1>4. Comparing(x)'
  BY DEF ReqSound, Comparing, Restrict
<1> QED
  BY <1>1, <1>2, <1>3, <1>4 DEF ReqSound

LEMMA PageFrame ==
    ASSUME SettingsTypeOK, NEW p \in Pages, PageSound(p), AuditGrows, typedOver => typedOver',
           page'[p].asked = page[p].asked, page'[p].pending = page[p].pending,
           page'[p].draft = page[p].draft \/ typedOver' \/ page[p].asked = {}
    PROVE  PageSound(p)'
<1>1. page[p].pending # 0 => page[p].pending \in DOMAIN audit
  <2>1. page[p].pending \in 0..Len(audit) /\ audit \in Seq(Entry)
    BY TypeParts DEF PageType
  <2> QED
    BY <2>1
<1>2. page[p].pending # 0 => Reverted(page[p].pending)' = Reverted(page[p].pending)
  BY <1>1 DEF Reverted, AuditGrows
<1>3. page'[p].asked # {} /\ page'[p].pending = 0 /\ ~typedOver' => Warnings(page'[p].draft) \subseteq page'[p].asked
  BY DEF PageSound
<1> QED
  BY <1>2, <1>3 DEF PageSound, Warnings

\* A question of a panel is left alone by everything but its own steps.
LEMMA PanelFrame ==
    ASSUME NEW p \in Pages, PanelSound(p), panel'[p] = panel[p]
    PROVE  PanelSound(p)'
BY DEF PanelSound

\* A request that goes out is for what its kind says, and what it confirms was
\* asked about.
LEMMA SendHolds ==
    ASSUME SettingsIInv, SettingsTypeOK', NEW x \in Pages \cup Uploads, NEW kind, NEW c, NEW yes, SendSettings(x, kind, c, yes),
           kind = "import" <=> x \in Uploads,
           kind = "revert" => \E n \in DOMAIN audit : Reverted(n) = c,
           kind = "save" => page[x].pending = 0 /\ c = page[x].draft,
           kind = "reset" => \A k \in DOMAIN c : c[k] = 0,
           yes /\ ~typedOver => Warnings(c) \subseteq Shown(x)
    PROVE  SettingsIInv'
<1>1. /\ req' = [req EXCEPT ![x] = Request("sent", kind, c, yes, Shown(x), NoChange, FALSE)]
      /\ UNCHANGED <<stored, copy, reader, audit, page, panel, unasked, typedOver, staleFill>>
      /\ req[x].pc = "none"
  BY DEF SendSettings, PageBusy
<1>2. req \in [Pages \cup Uploads -> RequestState]
  BY DEF SettingsIInv, SettingsTypeOK
<1>3. /\ req'[x].pc = "sent" /\ req'[x].kind = kind /\ req'[x].changes = c /\ req'[x].confirmed = yes
      /\ req'[x].read = Shown(x)
      /\ \A y \in Pages \cup Uploads : y # x => req'[y] = req[y]
  BY <1>1, <1>2 DEF Request
<1>4. ReqSound(x)'
  <2>1. Recording(x)'
    <3>1. audit' = audit /\ \A n : Reverted(n)' = Reverted(n)
      BY <1>1 DEF Reverted
    <3> QED
      BY <1>3, <3>1 DEF Recording
  <2>2. Sending(x)'
    BY <1>1, <1>3 DEF Sending
  <2>3. Judging(x)'
    BY <1>1, <1>3 DEF Judging, Warnings
  <2>4. Comparing(x)'
    BY <1>3 DEF Comparing
  <2> QED
    BY <2>1, <2>2, <2>3, <2>4 DEF ReqSound
<1>5. AuditGrows
  BY <1>1 DEF AuditGrows
<1>6. ASSUME NEW y \in Pages \cup Uploads, y # x PROVE ReqSound(y)'
  <2>1. ReqSound(y)
    BY DEF SettingsIInv
  <2> QED
    BY <1>1, <1>3, <1>5, <1>6, <2>1, ReqFrame, SettingsAssumption
<1>7. ASSUME NEW p \in Pages PROVE PageSound(p)'
  BY <1>1, <1>5, PageFrame DEF SettingsIInv
<1>8. ASSUME NEW p \in Pages PROVE PanelSound(p)'
  BY <1>1, PanelFrame DEF SettingsIInv
<1>9. CopyIsFresh'
  <2>1. DOMAIN req = Pages \cup Uploads /\ DOMAIN req' = Pages \cup Uploads
    BY <1>1, <1>2
  <2>2. \A y \in DOMAIN req : req[y].pc = "drop" => req'[y].pc = "drop"
    BY <1>1, <1>3, <2>1
  <2> QED
    BY <1>1, <2>1, <2>2 DEF SettingsIInv, CopyIsFresh
<1>10. AskedBeforeStored'
  BY <1>1 DEF SettingsIInv, AskedBeforeStored
<1> QED
  BY <1>4, <1>6, <1>7, <1>8, <1>9, <1>10 DEF SettingsIInv

\* A panel that is cancelled, whatever imports are under way.
LEMMA CancelHolds ==
    ASSUME SettingsIInv, SettingsTypeOK', NEW p \in Pages, CancelImport(p)
    PROVE  SettingsIInv'
<1>1. UNCHANGED <<stored, copy, audit, page, req, unasked, typedOver, staleFill>>
  BY DEF CancelImport
<1>2. AuditGrows
  BY <1>1 DEF AuditGrows
<1>3. ASSUME NEW x \in Pages \cup Uploads PROVE ReqSound(x)'
  <2>1. ReqSound(x)
    BY DEF SettingsIInv
  <2> QED
    BY <1>1, <1>2, <2>1, ReqFrame, SettingsAssumption
<1>4. ASSUME NEW q \in Pages PROVE PageSound(q)'
  BY <1>1, <1>2, PageFrame DEF SettingsIInv
<1>5. ASSUME NEW q \in Pages PROVE PanelSound(q)'
  <2>0. panel \in [Pages -> [values : ChangeSets, asked : SUBSET Weak]]
    BY TypeParts DEF SettingsIInv, PanelType
  <2>1. CASE q = p
    <3>1. panel'[q] = NoQuestion
      BY <2>0, <2>1 DEF CancelImport
    <3> QED
      BY <3>1, NoQuestionIs DEF PanelSound
  <2>2. CASE q # p
    <3>1. panel'[q] = panel[q]
      BY <2>0, <2>2 DEF CancelImport
    <3> QED
      BY <3>1, PanelFrame DEF SettingsIInv
  <2> QED
    BY <2>1, <2>2
<1>6. AskedBeforeStored' /\ CopyIsFresh'
  BY <1>1 DEF SettingsIInv, AskedBeforeStored, CopyIsFresh
<1> QED
  BY <1>3, <1>4, <1>5, <1>6 DEF SettingsIInv

\* What a page does.
LEMMA PageStepHolds ==
    ASSUME SettingsIInv, SettingsTypeOK', NEW p \in Pages, PageStep(p)
    PROVE  SettingsIInv'
<1>0. PageSound(p) /\ p \notin Uploads /\ page \in [Pages -> PageState] /\ page[p].pending \in 0..Len(audit)
      /\ audit \in Seq(Entry)
  BY SettingsAssumption, TypeParts DEF SettingsIInv, PageType
<1>1. CASE Save(p)
  <2>1. SendSettings(p, "save", page[p].draft, FALSE) /\ page[p].pending = 0
    BY <1>0, <1>1 DEF Save, PageSound
  <2> QED
    BY <1>0, <2>1, SendHolds
<1>2. CASE Confirm(p)
  <2>1. CASE page[p].pending = 0
    <3>1. SendSettings(p, "save", page[p].draft, TRUE) /\ (~typedOver => Warnings(page[p].draft) \subseteq Shown(p))
      BY <1>0, <1>2, <2>1 DEF Confirm, PageSound, Shown
    <3> QED
      BY <1>0, <2>1, <3>1, SendHolds
  <2>2. CASE page[p].pending # 0
    <3>1. SendSettings(p, "revert", Reverted(page[p].pending), TRUE)
          /\ Warnings(Reverted(page[p].pending)) \subseteq Shown(p)
      BY <1>0, <1>2, <2>2 DEF Confirm, PageSound, Shown
    <3>2. page[p].pending \in DOMAIN audit
      BY <1>0, <2>2
    <3> QED
      BY <1>0, <3>1, <3>2, SendHolds
  <2> QED
    BY <2>1, <2>2
<1>3. ASSUME NEW k \in Keys, Reset(p, k) PROVE SettingsIInv'
  <2> DEFINE c == [j \in {k} |-> 0]
  <2>1. Warnings(c) = {}
    BY SettingsAssumption DEF Warnings
  <2>2. SendSettings(p, "reset", c, TRUE)
    BY <1>3 DEF Reset
  <2>3. \A j \in DOMAIN c : c[j] = 0
    OBVIOUS
  <2> HIDE DEF c
  <2> QED
    BY <1>0, <2>1, <2>2, <2>3, SendHolds
<1>4. ASSUME NEW i \in DOMAIN audit, Revert(p, i) PROVE SettingsIInv'
  BY <1>0, <1>4, SendHolds DEF Revert
<1>5. ASSUME GoBack(p) \/ Discard(p) \/ \E k \in Keys, v \in Values : Edit(p, k, v)
      PROVE  SettingsIInv'
  <2>0. ASSUME NEW k \in Keys, NEW v \in Values, Edit(p, k, v)
        PROVE  /\ typedOver' = (typedOver \/ PageBusy(p) \/ page[p].asked # {})
               /\ page'[p].asked = page[p].asked /\ page'[p].pending = page[p].pending
               /\ \A q \in Pages : q # p => page'[q] = page[q]
    <3>1. page' = [page EXCEPT ![p].draft = Edited(p, k, v)]
      BY <2>0 DEF Edit
    <3>2. typedOver' = (typedOver \/ PageBusy(p) \/ page[p].asked # {})
      BY <2>0 DEF Edit
    <3> QED
      BY ONLY <1>0, <3>1, <3>2
  <2>1. UNCHANGED <<stored, copy, reader, audit, panel, req, unasked, staleFill>> /\ (typedOver => typedOver')
    <3>1. UNCHANGED <<stored, copy, reader, audit, panel, req, unasked, staleFill>>
      BY <1>5 DEF GoBack, Discard, Edit
    <3>2. (GoBack(p) \/ Discard(p)) => typedOver' = typedOver
      BY DEF GoBack, Discard
    <3>3. typedOver => typedOver'
      <4>1. ASSUME NEW k \in Keys, NEW v \in Values, Edit(p, k, v), typedOver PROVE typedOver'
        BY <2>0, <4>1
      <4> QED
        BY <1>5, <3>2, <4>1
    <3> QED
      BY <3>1, <3>3
  <2>2. \A q \in Pages : q # p => page'[q] = page[q]
    <3>1. (GoBack(p) \/ Discard(p)) => \A q \in Pages : q # p => page'[q] = page[q]
      BY <1>0 DEF GoBack, Discard
    <3> QED
      BY <1>5, <2>0, <3>1
  <2>3. AuditGrows
    BY <2>1 DEF AuditGrows
  <2>4. req[p].pc # "none" => page'[p].asked = page[p].asked /\ page'[p].pending = page[p].pending /\ typedOver'
    <3>1. (GoBack(p) \/ Discard(p)) => req[p].pc = "none"
      BY DEF GoBack, Discard, PageBusy
    <3> QED
      BY <1>5, <2>0, <3>1 DEF PageBusy
  <2>5. ASSUME NEW x \in Pages \cup Uploads PROVE ReqSound(x)'
    <3>1. ReqSound(x)
      BY DEF SettingsIInv
    <3>2. CASE x = p /\ req[p].pc = "none"
      BY <2>1, <3>2 DEF ReqSound, Recording, Sending, Judging, Comparing
    <3>3. CASE x # p \/ req[p].pc # "none"
      BY <2>1, <2>2, <2>3, <2>4, <3>1, <3>3, ReqFrame, SettingsAssumption
    <3> QED
      BY <3>2, <3>3
  <2>6. PageSound(p)'
    <3>1. CASE GoBack(p)
      <4>1. page'[p].asked = {} /\ page'[p].pending = 0
        BY <1>0, <3>1 DEF GoBack, PageWith
      <4> QED
        BY <4>1 DEF PageSound
    <3>2. CASE Discard(p) \/ \E k \in Keys, v \in Values : Edit(p, k, v)
      <4>1. /\ page'[p].asked = page[p].asked /\ page'[p].pending = page[p].pending
            /\ typedOver' \/ page[p].asked = {}
        <5>1. Discard(p) => page'[p].asked = page[p].asked /\ page'[p].pending = page[p].pending /\ page[p].asked = {}
          BY <1>0 DEF Discard
        <5> QED
          BY <2>0, <3>2, <5>1
      <4> QED
        BY <1>0, <2>1, <2>3, <4>1, PageFrame DEF SettingsIInv
    <3> QED
      BY <1>5, <3>1, <3>2
  <2>7. ASSUME NEW q \in Pages, q # p PROVE PageSound(q)'
    BY <2>1, <2>2, <2>3, <2>7, PageFrame DEF SettingsIInv
  <2>8. ASSUME NEW q \in Pages PROVE PanelSound(q)'
    BY <2>1, PanelFrame DEF SettingsIInv
  <2>9. AskedBeforeStored' /\ CopyIsFresh'
    BY <2>1 DEF SettingsIInv, AskedBeforeStored, CopyIsFresh
  <2> QED
    BY <2>5, <2>6, <2>7, <2>8, <2>9 DEF SettingsIInv
<1> QED
  BY <1>1, <1>2, <1>3, <1>4, <1>5, CancelHolds DEF PageStep

\* What an import does.
LEMMA UploadStepHolds ==
    ASSUME SettingsIInv, SettingsTypeOK', NEW i \in Uploads, UploadStep(i)
    PROVE  SettingsIInv'
<1>0. PanelSound(PageOf[i]) /\ i \notin Pages
  BY SettingsAssumption DEF SettingsIInv
<1>1. CASE ConfirmImport(i)
  <2>1. /\ SendSettings(i, "import", panel[PageOf[i]].values, TRUE)
        /\ Warnings(panel[PageOf[i]].values) \subseteq Shown(i)
    BY <1>0, <1>1 DEF ConfirmImport, PanelSound, Shown
  <2> QED
    BY <1>0, <2>1, SendHolds
<1>2. ASSUME NEW c \in Imports, Import(i, c) PROVE SettingsIInv'
  BY <1>0, <1>2, SendHolds DEF Import
<1> QED
  BY <1>1, <1>2 DEF UploadStep

\* The checks: what goes on needs no question, and a question is about what was
\* asked for.
LEMMA JudgeHolds ==
    ASSUME SettingsIInv, SettingsTypeOK', NEW x \in Pages \cup Uploads, Judge(x)
    PROVE  SettingsIInv'
<1>0. /\ ReqSound(x) /\ req[x].pc = "sent" /\ req \in [Pages \cup Uploads -> RequestState] /\ req[x] \in Sent
      /\ page \in [Pages -> PageState] /\ panel \in [Pages -> [values : ChangeSets, asked : SUBSET Weak]]
  <2>1. SettingsTypeOK /\ req[x].pc = "sent" /\ ReqSound(x)
    BY DEF Judge, SettingsIInv
  <2> QED
    BY <2>1, RequestIs, TypeParts DEF PageType, PanelType, ReqType
<1>1. UNCHANGED <<stored, copy, audit, unasked, typedOver, staleFill>>
  BY DEF Judge
<1>2. AuditGrows
  BY <1>1 DEF AuditGrows
<1>3. \A y \in Pages \cup Uploads : y # x => req'[y] = req[y]
  BY <1>0 DEF Judge
<1>4. /\ \A p \in Pages : p # x => page'[p] = page[p]
      /\ \A p \in Pages : x \notin Uploads \/ p # PageOf[x] => panel'[p] = panel[p]
  BY <1>0 DEF Judge
<1>5. ASSUME NEW y \in Pages \cup Uploads, y # x PROVE ReqSound(y)'
  <2>1. ReqSound(y)
    BY DEF SettingsIInv
  <2> QED
    BY <1>1, <1>2, <1>3, <1>4, <1>5, <2>1, ReqFrame, SettingsAssumption
<1>6. \A y \in Pages \cup Uploads : req[y].pc = "drop" => req'[y].pc = "drop"
  BY <1>0, <1>3
<1>7. AskedBeforeStored' /\ CopyIsFresh'
  <2>1. DOMAIN req = Pages \cup Uploads /\ DOMAIN req' = Pages \cup Uploads
    BY <1>0 DEF Judge
  <2> QED
    BY <1>1, <1>6, <2>1 DEF SettingsIInv, AskedBeforeStored, CopyIsFresh
<1>8. CASE ~MustAsk(req[x])
  <2>1. req' = [req EXCEPT ![x].pc = "compare"] /\ UNCHANGED <<page, panel>>
    BY <1>8 DEF Judge
  <2>2. /\ req'[x].pc = "compare" /\ req'[x].kind = req[x].kind /\ req'[x].changes = req[x].changes
        /\ req'[x].confirmed = req[x].confirmed /\ req'[x].read = req[x].read
    BY <1>0, <2>1 DEF Sent
  <2>3. ReqSound(x)'
    <3>1. \A n : Reverted(n)' = Reverted(n)
      BY <1>1 DEF Reverted
    <3>2. Recording(x)'
      BY <1>0, <1>1, <2>2, <3>1 DEF ReqSound, Recording
    <3>3. Sending(x)'
      BY <1>0, <1>1, <2>1, <2>2 DEF ReqSound, Sending
    <3>4. Judging(x)'
      BY <1>0, <1>1, <1>8, <2>1, <2>2 DEF ReqSound, Judging, MustAsk
    <3>5. Comparing(x)'
      BY <2>2 DEF Comparing
    <3> QED
      BY <3>2, <3>3, <3>4, <3>5 DEF ReqSound
  <2>4. ASSUME NEW p \in Pages PROVE PageSound(p)'
    BY <1>1, <1>2, <2>1, PageFrame DEF SettingsIInv
  <2>5. ASSUME NEW p \in Pages PROVE PanelSound(p)'
    BY <2>1, PanelFrame DEF SettingsIInv
  <2> QED
    BY <1>5, <1>7, <2>3, <2>4, <2>5 DEF SettingsIInv
<1>9. CASE MustAsk(req[x])
  <2>1. req' = [req EXCEPT ![x] = NoRequest]
    BY <1>9 DEF Judge
  <2>2. req'[x].pc = "none"
    BY <1>0, <2>1 DEF NoRequest
  <2>3. ReqSound(x)'
    BY <2>2 DEF ReqSound, Recording, Sending, Judging, Comparing
  <2>4. ASSUME NEW p \in Pages PROVE PanelSound(p)'
    <3>1. CASE x \notin Uploads \/ p # PageOf[x]
      BY <1>4, <3>1, PanelFrame DEF SettingsIInv
    <3>2. CASE x \in Uploads /\ p = PageOf[x]
      <4>1. panel' = [panel EXCEPT ![p] = [values |-> req[x].changes, asked |-> Warnings(req[x].changes)]]
        BY <1>9, <3>2 DEF Judge
      <4>2. panel'[p].values = req[x].changes /\ panel'[p].asked = Warnings(req[x].changes)
        BY <1>0, <4>1
      <4> QED
        BY <4>2 DEF PanelSound, Warnings
    <3> QED
      BY <3>1, <3>2
  <2>5. ASSUME NEW p \in Pages PROVE PageSound(p)'
    <3>1. CASE p # x
      BY <1>1, <1>2, <1>4, <3>1, PageFrame DEF SettingsIInv
    <3>2. CASE p = x
      <4> DEFINE n == IF req[x].kind # "revert" THEN page[x].pending
                      ELSE CHOOSE m \in DOMAIN audit : Reverted(m) = req[x].changes
      <4>1. x \notin Uploads
        BY <3>2, SettingsAssumption
      <4>2. page' = [page EXCEPT ![x] = PageWith(page[x].shown, page[x].draft, Warnings(req[x].changes), n)]
        BY <1>9, <4>1 DEF Judge
      <4>3. page'[p].draft = page[p].draft /\ page'[p].asked = Warnings(req[x].changes) /\ page'[p].pending = n
        BY <1>0, <3>2, <4>2 DEF PageWith
      <4>4. Warnings(req[x].changes) # {}
        BY <1>9 DEF MustAsk
      <4>5. CASE req[x].kind = "revert"
        <5>1. \E m \in DOMAIN audit : Reverted(m) = req[x].changes
          BY <1>0, <4>5 DEF ReqSound, Recording
        <5>2. n \in DOMAIN audit /\ Reverted(n) = req[x].changes
          BY <4>5, <5>1
        <5>3. n # 0
          <6>1. audit \in Seq(Entry)
            BY TypeParts DEF SettingsIInv
          <6> QED
            BY <5>2, <6>1
        <5>4. PICK m \in DOMAIN audit : m = n
          BY <5>2
        <5>5. Reverted(m)' = req[x].changes
          BY <1>1, <5>2, <5>4 DEF Reverted
        <5>6. page'[p].pending = m /\ m # 0
          BY <4>3, <5>3, <5>4
        <5>7. Reverted(page[p].pending)' = req[x].changes
          BY <5>5, <5>6 DEF Reverted
        <5> QED
          BY <4>3, <4>4, <5>6, <5>7 DEF PageSound
      <4>6. CASE req[x].kind = "save"
        <5>1. n = 0 /\ (~typedOver => Warnings(req[x].changes) = Warnings(page[p].draft))
          BY <1>0, <3>2, <4>6 DEF ReqSound, Sending
        <5> QED
          BY <1>1, <4>3, <4>4, <5>1 DEF PageSound
      <4>7. CASE req[x].kind = "reset"
        <5>1. Warnings(req[x].changes) = {}
          BY <1>0, <4>7, SettingsAssumption DEF ReqSound, Sending, Warnings
        <5> QED
          BY <4>4, <5>1
      <4> QED
        BY <1>0, <4>1, <4>5, <4>6, <4>7 DEF ReqSound, Sending, Sent, Kinds
    <3> QED
      BY <3>1, <3>2
  <2> QED
    BY <1>5, <1>7, <2>3, <2>4, <2>5 DEF SettingsIInv
<1> QED
  BY <1>8, <1>9

\* The present values are read through the copy, which is fresh unless a change
\* is on its way between the rows and the copy.
LEMMA CompareHolds ==
    ASSUME SettingsIInv, SettingsTypeOK', NEW x \in Pages \cup Uploads, Compare(x)
    PROVE  SettingsIInv'
<1>0. /\ ReqSound(x) /\ req[x].pc = "compare" /\ req \in [Pages \cup Uploads -> RequestState] /\ req[x] \in Sent
      /\ stored \in RowsType /\ DOMAIN req = Pages \cup Uploads /\ CopyType
  <2>1. SettingsTypeOK /\ req[x].pc = "compare" /\ ReqSound(x)
    BY DEF Compare, SettingsIInv
  <2> QED
    BY <2>1, RequestIs, TypeParts DEF ReqType
<1>1. UNCHANGED <<stored, audit, page, panel, unasked, typedOver, staleFill>> /\ copy' = {Rows}
  BY DEF Compare
<1> DEFINE crossing == \E y \in DOMAIN req : req[y].pc = "drop"
           r == Request("commit", req[x].kind, req[x].changes, req[x].confirmed, req[x].read, Restrict(Rows, DOMAIN req[x].changes), crossing)
<1>2. req' = [req EXCEPT ![x] = r]
  BY DEF Compare
<1> HIDE DEF crossing
<1>3. /\ req'[x].pc = "commit" /\ req'[x].kind = req[x].kind /\ req'[x].changes = req[x].changes
      /\ req'[x].confirmed = req[x].confirmed /\ req'[x].read = req[x].read
      /\ req'[x].from = Restrict(Rows, DOMAIN req[x].changes)
      /\ req'[x].crossed = crossing
      /\ \A y \in Pages \cup Uploads : y # x => req'[y] = req[y]
  BY <1>0, <1>2 DEF Request
<1>4. AuditGrows
  BY <1>1 DEF AuditGrows
<1>5. ~crossing /\ ~staleFill => Rows = stored
  BY <1>0 DEF SettingsIInv, CopyIsFresh, Rows, crossing
<1>6. ReqSound(x)'
  <2>1. \A n : Reverted(n)' = Reverted(n)
    BY <1>1 DEF Reverted
  <2>2. Recording(x)'
    BY <1>0, <1>1, <1>3, <2>1 DEF ReqSound, Recording, Restrict
  <2>3. Sending(x)'
    BY <1>0, <1>1, <1>3 DEF ReqSound, Sending
  <2>4. Judging(x)'
    BY <1>0, <1>1, <1>3 DEF ReqSound, Judging, MustAsk
  <2>5. Comparing(x)'
    BY <1>1, <1>3, <1>5 DEF Comparing
  <2> QED
    BY <2>2, <2>3, <2>4, <2>5 DEF ReqSound
<1>7. ASSUME NEW y \in Pages \cup Uploads, y # x PROVE ReqSound(y)'
  <2>1. ReqSound(y)
    BY DEF SettingsIInv
  <2> QED
    BY <1>1, <1>3, <1>4, <1>7, <2>1, ReqFrame, SettingsAssumption
<1>8. ASSUME NEW p \in Pages PROVE PageSound(p)'
  BY <1>1, <1>4, PageFrame DEF SettingsIInv
<1>9. ASSUME NEW p \in Pages PROVE PanelSound(p)'
  BY <1>1, PanelFrame DEF SettingsIInv
<1>10. AskedBeforeStored'
  BY <1>1 DEF SettingsIInv, AskedBeforeStored
<1>11. CopyIsFresh'
  <2>1. DOMAIN req' = Pages \cup Uploads
    BY <1>0, <1>2
  <2>2. \A y \in DOMAIN req : req[y].pc = "drop" => req'[y].pc = "drop"
    BY <1>0, <1>3
  <2>3. crossing => \E y \in DOMAIN req' : req'[y].pc = "drop"
    BY <1>0, <2>1, <2>2 DEF crossing
  <2> QED
    BY <1>1, <1>5, <2>3 DEF CopyIsFresh
<1> QED
  BY <1>6, <1>7, <1>8, <1>9, <1>10, <1>11 DEF SettingsIInv

\* The rows: every other comparison is crossed by a commit, and what is weak has
\* been asked about.
LEMMA CommitHolds ==
    ASSUME SettingsIInv, SettingsTypeOK', NEW x \in Pages \cup Uploads, Commit(x)
    PROVE  SettingsIInv'
<1>0. /\ ReqSound(x) /\ req[x].pc = "commit" /\ req \in [Pages \cup Uploads -> RequestState] /\ req[x] \in Sent
      /\ DOMAIN req = Pages \cup Uploads
  <2>1. SettingsTypeOK /\ req[x].pc = "commit" /\ ReqSound(x)
    BY DEF Commit, SettingsIInv
  <2> QED
    BY <2>1, RequestIs, TypeParts DEF ReqType
<1>1. UNCHANGED <<copy, audit, page, panel, typedOver, staleFill>>
  BY DEF Commit
<1>2. req' = [y \in Pages \cup Uploads |-> CASE y = x -> [req[x] EXCEPT !.pc = "drop"]
                                          [] req[y].pc = "commit" /\ y # x -> [req[y] EXCEPT !.crossed = TRUE]
                                          [] OTHER -> req[y]]
  BY <1>0 DEF Commit
<1>3. req'[x] = [req[x] EXCEPT !.pc = "drop"]
  BY <1>2
<1>4. /\ req'[x].pc = "drop" /\ req'[x].kind = req[x].kind /\ req'[x].changes = req[x].changes
      /\ req'[x].confirmed = req[x].confirmed /\ req'[x].from = req[x].from
  BY <1>0, <1>3 DEF Sent
<1>5. ASSUME NEW y \in Pages \cup Uploads, y # x
      PROVE  /\ req'[y].pc = req[y].pc /\ req'[y].kind = req[y].kind /\ req'[y].changes = req[y].changes
             /\ req'[y].confirmed = req[y].confirmed /\ req'[y].read = req[y].read
             /\ req'[y].from = req[y].from
             /\ req[y].pc = "commit" => req'[y].crossed
  <2>1. CASE req[y].pc = "commit"
    <3>1. req[y] \in Sent
      BY <2>1, RequestIs DEF SettingsIInv
    <3>2. req'[y] = [req[y] EXCEPT !.crossed = TRUE]
      BY <1>2, <1>5, <2>1
    <3> QED
      BY <2>1, <3>1, <3>2 DEF Sent
  <2>2. CASE req[y].pc # "commit"
    <3>1. req'[y] = req[y]
      BY <1>2, <1>5, <2>2
    <3> QED
      BY <2>2, <3>1
  <2> QED
    BY <2>1, <2>2
<1>6. AuditGrows
  BY <1>1 DEF AuditGrows
<1>7. ReqSound(x)'
  <2>1. \A n : Reverted(n)' = Reverted(n)
    BY <1>1 DEF Reverted
  <2>2. Recording(x)'
    BY <1>0, <1>1, <1>4, <2>1 DEF ReqSound, Recording
  <2>3. Sending(x)'
    BY <1>0, <1>1, <1>4 DEF ReqSound, Sending
  <2>4. Judging(x)' /\ Comparing(x)'
    BY <1>4 DEF Judging, Comparing
  <2> QED
    BY <2>2, <2>3, <2>4 DEF ReqSound
<1>8. ASSUME NEW y \in Pages \cup Uploads, y # x PROVE ReqSound(y)'
  <2>1. ReqSound(y)
    BY DEF SettingsIInv
  <2>2. ~(req'[y].pc = "commit" /\ ~req'[y].crossed)
    BY <1>5, <1>8
  <2> QED
    BY <1>1, <1>5, <1>6, <1>8, <2>1, <2>2, ReqFrame, SettingsAssumption
<1>9. ASSUME NEW p \in Pages PROVE PageSound(p)'
  BY <1>1, <1>6, PageFrame DEF SettingsIInv
<1>10. ASSUME NEW p \in Pages PROVE PanelSound(p)'
  BY <1>1, PanelFrame DEF SettingsIInv
<1>11. CopyIsFresh'
  <2>1. x \in DOMAIN req' /\ req'[x].pc = "drop"
    BY <1>2, <1>4
  <2> QED
    BY <2>1 DEF CopyIsFresh
<1>12. AskedBeforeStored'
  <2> DEFINE weak == {w \in Warnings(req[x].changes) : w[1] \in Changed(req[x])}
  <2>1. unasked' = (unasked \/ weak \ req[x].read # {})
    BY DEF Commit
  <2>2. ~typedOver => weak \ req[x].read = {}
    <3>1. CASE req[x].confirmed
      BY <1>0, <3>1 DEF ReqSound, Judging
    <3>2. CASE ~req[x].confirmed
      BY <1>0, <3>2 DEF ReqSound, Judging, MustAsk
    <3> QED
      BY <3>1, <3>2
  <2> HIDE DEF weak
  <2>3. ~typedOver => ~unasked'
    BY <2>1, <2>2 DEF SettingsIInv, AskedBeforeStored
  <2> QED
    BY <1>1, <2>3 DEF AskedBeforeStored
<1> QED
  BY <1>7, <1>8, <1>9, <1>10, <1>11, <1>12 DEF SettingsIInv

\* The copy is dropped, and the change recorded.
LEMMA DropHolds ==
    ASSUME SettingsIInv, SettingsTypeOK', NEW x \in Pages \cup Uploads, Drop(x)
    PROVE  SettingsIInv'
<1>0. /\ ReqSound(x) /\ req[x].pc = "drop" /\ req \in [Pages \cup Uploads -> RequestState] /\ req[x] \in Sent
  <2>1. SettingsTypeOK /\ req[x].pc = "drop" /\ ReqSound(x)
    BY DEF Drop, SettingsIInv
  <2> QED
    BY <2>1, RequestIs, TypeParts DEF ReqType
<1>1. UNCHANGED <<stored, page, panel, unasked, typedOver, staleFill>> /\ copy' = {}
  BY DEF Drop, Dropped
<1>2. AuditGrows
  BY <1>0, DropRecords DEF AuditGrows, SettingsIInv, ReqSound
<1>3. /\ req'[x].pc = "reply" /\ req'[x].kind = req[x].kind /\ req'[x].changes = req[x].changes
      /\ req'[x].confirmed = req[x].confirmed /\ req'[x].from = req[x].from /\ req'[x].crossed = req[x].crossed
      /\ \A y \in Pages \cup Uploads : y # x => req'[y] = req[y]
  BY <1>0 DEF Drop, Sent
<1>4. ReqSound(x)'
  <2>1. Recording(x)'
    <3>1. req[x].kind = "revert" => \E n \in DOMAIN audit' : Reverted(n)' = req[x].changes
      <4> SUFFICES ASSUME req[x].kind = "revert" PROVE \E n \in DOMAIN audit' : Reverted(n)' = req[x].changes
          OBVIOUS
      <4>1. PICK n \in DOMAIN audit : Reverted(n) = req[x].changes
        BY <1>0 DEF ReqSound, Recording
      <4>2. n \in DOMAIN audit' /\ Reverted(n)' = Reverted(n)
        BY <1>2, <4>1, RevertedStays DEF AuditGrows
      <4> QED
        BY <4>1, <4>2
    <3> QED
      BY <1>3, <3>1 DEF Recording
  <2>2. Sending(x)'
    BY <1>0, <1>1, <1>3 DEF ReqSound, Sending
  <2>3. Judging(x)' /\ Comparing(x)'
    BY <1>3 DEF Judging, Comparing
  <2> QED
    BY <2>1, <2>2, <2>3 DEF ReqSound
<1>5. ASSUME NEW y \in Pages \cup Uploads, y # x PROVE ReqSound(y)'
  <2>1. ReqSound(y)
    BY DEF SettingsIInv
  <2> QED
    BY <1>1, <1>2, <1>3, <1>5, <2>1, ReqFrame, SettingsAssumption
<1>6. ASSUME NEW p \in Pages PROVE PageSound(p)'
  BY <1>1, <1>2, PageFrame DEF SettingsIInv
<1>7. ASSUME NEW p \in Pages PROVE PanelSound(p)'
  BY <1>1, PanelFrame DEF SettingsIInv
<1>8. AskedBeforeStored' /\ CopyIsFresh'
  BY <1>1 DEF SettingsIInv, AskedBeforeStored, CopyIsFresh
<1> QED
  BY <1>4, <1>5, <1>6, <1>7, <1>8 DEF SettingsIInv

\* The answer: a question goes with the request it was about.
LEMMA ReplyHolds ==
    ASSUME SettingsIInv, SettingsTypeOK', NEW x \in Pages \cup Uploads, Reply(x)
    PROVE  SettingsIInv'
<1>0. /\ ReqSound(x) /\ req[x].pc = "reply" /\ req \in [Pages \cup Uploads -> RequestState] /\ req[x] \in Sent
      /\ page \in [Pages -> PageState] /\ panel \in [Pages -> [values : ChangeSets, asked : SUBSET Weak]]
      /\ CopyType
  <2>1. SettingsTypeOK /\ req[x].pc = "reply" /\ ReqSound(x)
    BY DEF Reply, SettingsIInv
  <2> QED
    BY <2>1, RequestIs, TypeParts DEF ReqType, PageType, PanelType
<1>1. UNCHANGED <<stored, audit, unasked, typedOver, staleFill>> /\ copy' = {Rows} /\ req' = [req EXCEPT ![x] = NoRequest]
  BY DEF Reply
<1>2. AuditGrows
  BY <1>1 DEF AuditGrows
<1>3. req'[x].pc = "none" /\ \A y \in Pages \cup Uploads : y # x => req'[y] = req[y]
  BY <1>0, <1>1 DEF NoRequest
<1>4. ReqSound(x)'
  BY <1>3 DEF ReqSound, Recording, Sending, Judging, Comparing
<1>5. /\ \A p \in Pages : p # x => /\ page'[p].asked = page[p].asked /\ page'[p].pending = page[p].pending
                                   /\ page'[p].draft = page[p].draft
      /\ \A p \in Pages : panel'[p] = panel[p] \/ panel'[p] = NoQuestion
  <2>1. CASE x \in Uploads
    <3>1. page' = [page EXCEPT ![PageOf[x]].shown = Rows]
      BY <2>1 DEF Reply
    <3>2. \A p \in Pages : /\ page'[p].asked = page[p].asked /\ page'[p].pending = page[p].pending
                           /\ page'[p].draft = page[p].draft
      BY <1>0, <3>1 DEF PageState
    <3>3. \A p \in Pages : panel'[p] = panel[p] \/ panel'[p] = NoQuestion
      BY <1>0, <2>1 DEF Reply
    <3> QED
      BY <3>2, <3>3
  <2>2. CASE x \notin Uploads
    BY <1>0, <2>2 DEF Reply
  <2> QED
    BY <2>1, <2>2
<1>6. ASSUME NEW y \in Pages \cup Uploads, y # x PROVE ReqSound(y)'
  <2>1. ReqSound(y)
    BY DEF SettingsIInv
  <2> QED
    BY <1>1, <1>2, <1>3, <1>5, <1>6, <2>1, ReqFrame, SettingsAssumption
<1>7. ASSUME NEW p \in Pages PROVE PageSound(p)'
  <2>1. CASE p # x
    BY <1>1, <1>2, <1>5, <2>1, PageFrame DEF SettingsIInv
  <2>2. CASE p = x
    <3>1. x \notin Uploads
      BY <2>2, SettingsAssumption
    <3>2. page' = [page EXCEPT ![x] =
                    PageWith(Rows, DraftAfter(x), IF req[x].kind = "reset" THEN page[x].asked ELSE {},
                             IF req[x].kind = "revert" THEN 0 ELSE page[x].pending)]
      BY <3>1 DEF Reply
    <3>3. /\ page'[x].draft = DraftAfter(x)
          /\ page'[x].asked = (IF req[x].kind = "reset" THEN page[x].asked ELSE {})
          /\ page'[x].pending = (IF req[x].kind = "revert" THEN 0 ELSE page[x].pending)
      BY <1>0, <2>2, <3>2 DEF PageWith
    <3>4. CASE req[x].kind = "reset"
      <4>1. Warnings(DraftAfter(x)) \subseteq Warnings(page[x].draft)
        BY <3>4 DEF DraftAfter, Warnings, Restrict
      <4>2. PageSound(x)
        BY <2>2 DEF SettingsIInv
      <4>3. page[x].pending # 0 => Reverted(page[x].pending)' = Reverted(page[x].pending)
        BY <1>1, <3>3, <3>4 DEF Reverted
      <4> QED
        BY <1>1, <2>2, <3>3, <3>4, <4>1, <4>2, <4>3 DEF PageSound
    <3>5. CASE req[x].kind = "revert"
      BY <2>2, <3>3, <3>5 DEF PageSound
    <3>6. CASE req[x].kind = "save"
      BY <1>0, <2>2, <3>3, <3>6 DEF PageSound, ReqSound, Sending
    <3> QED
      BY <1>0, <3>1, <3>4, <3>5, <3>6 DEF ReqSound, Sending, Sent, Kinds
  <2> QED
    BY <2>1, <2>2
<1>8. ASSUME NEW p \in Pages PROVE PanelSound(p)'
  <2>1. CASE panel'[p] = panel[p]
    BY <2>1, PanelFrame DEF SettingsIInv
  <2>2. CASE panel'[p] = NoQuestion
    BY <2>2, NoQuestionIs DEF PanelSound
  <2> QED
    BY <1>5, <2>1, <2>2
<1>9. AskedBeforeStored'
  BY <1>1 DEF SettingsIInv, AskedBeforeStored
<1>10. CopyIsFresh'
  <2>1. DOMAIN req = Pages \cup Uploads /\ DOMAIN req' = Pages \cup Uploads
    BY <1>0, <1>1
  <2>2. \A y \in DOMAIN req : req[y].pc = "drop" => req'[y].pc = "drop"
    BY <1>0, <1>3, <2>1
  <2>3. ~staleFill => Rows = stored \/ \E y \in DOMAIN req : req[y].pc = "drop"
    BY <1>0 DEF SettingsIInv, CopyIsFresh, Rows
  <2> QED
    BY <1>1, <2>1, <2>2, <2>3 DEF CopyIsFresh
<1> QED
  BY <1>4, <1>6, <1>7, <1>8, <1>9, <1>10 DEF SettingsIInv

\* An answer that is lost, reads of the rows, and the copy that ages.
LEMMA OtherHolds ==
    ASSUME SettingsIInv, SettingsTypeOK',
           \/ \E x \in Pages \cup Uploads : ReplyLost(x)
           \/ \E r \in Readers : BeginRead(r) \/ EndRead(r)
           \/ CopyAges
    PROVE  SettingsIInv'
<1>1. UNCHANGED <<stored, audit, page, panel, unasked, typedOver>> /\ (staleFill => staleFill')
  <2>1. UNCHANGED <<stored, audit, page, panel, unasked, typedOver>>
    BY DEF ReplyLost, BeginRead, EndRead, CopyAges
  <2>2. ASSUME staleFill PROVE staleFill'
    <3>1. ASSUME NEW r \in Readers, EndRead(r) PROVE staleFill'
      BY <2>2, <3>1 DEF EndRead
    <3>2. ASSUME NEW r \in Readers, BeginRead(r) PROVE staleFill'
      BY <2>2, <3>2 DEF BeginRead
    <3>3. ASSUME NEW x \in Pages \cup Uploads, ReplyLost(x) PROVE staleFill'
      BY <2>2, <3>3 DEF ReplyLost
    <3>4. CASE CopyAges
      BY <2>2, <3>4 DEF CopyAges
    <3> QED
      BY <3>1, <3>2, <3>3, <3>4
  <2> QED
    BY <2>1, <2>2
<1>2. AuditGrows
  BY <1>1 DEF AuditGrows
<1>3. req \in [Pages \cup Uploads -> RequestState]
  BY TypeParts DEF SettingsIInv, ReqType
<1>4. ASSUME NEW y \in Pages \cup Uploads PROVE ReqSound(y)' /\ (req[y].pc = "drop" => req'[y].pc = "drop")
  <2>1. ReqSound(y)
    BY DEF SettingsIInv
  <2>2. CASE req'[y] = req[y]
    BY <1>1, <1>2, <2>1, <2>2, ReqFrame, SettingsAssumption
  <2>3. CASE req'[y] # req[y]
    <3>1. PICK x \in Pages \cup Uploads : ReplyLost(x)
      BY <2>3 DEF BeginRead, EndRead, CopyAges
    <3>2. y = x /\ req'[y].pc = "none" /\ req[y].pc = "reply"
      BY <1>3, <2>3, <3>1 DEF ReplyLost, NoRequest
    <3> QED
      BY <3>2 DEF ReqSound, Recording, Sending, Judging, Comparing
  <2> QED
    BY <2>2, <2>3
<1>5. ASSUME NEW p \in Pages PROVE PageSound(p)'
  BY <1>1, <1>2, PageFrame DEF SettingsIInv
<1>6. ASSUME NEW p \in Pages PROVE PanelSound(p)'
  BY <1>1, PanelFrame DEF SettingsIInv
<1>7. AskedBeforeStored'
  BY <1>1 DEF SettingsIInv, AskedBeforeStored
<1>8. CopyIsFresh'
  <2>1. DOMAIN req = Pages \cup Uploads /\ DOMAIN req' = Pages \cup Uploads
    BY TypeParts DEF SettingsIInv, ReqType
  <2>2. CASE copy' \subseteq copy
    BY <1>1, <1>4, <2>1, <2>2 DEF SettingsIInv, CopyIsFresh
  <2>3. CASE ~(copy' \subseteq copy)
    <3>1. PICK r \in Readers : EndRead(r)
      BY <2>3 DEF ReplyLost, BeginRead, CopyAges
    <3>2. copy' = reader[r] /\ (~staleFill' => stored \in reader[r])
      BY <3>1 DEF EndRead
    <3>3. \A c, d \in reader[r] : c = d
      BY TypeParts DEF SettingsIInv, ReaderType
    <3> QED
      BY <1>1, <3>2, <3>3 DEF CopyIsFresh
  <2> QED
    BY <2>2, <2>3
<1> QED
  BY <1>4, <1>5, <1>6, <1>7, <1>8 DEF SettingsIInv

LEMMA TypeStep == SettingsIInv /\ [SettingsNext]_settingsVars => SettingsTypeOK'
<1> SUFFICES ASSUME SettingsIInv, [SettingsNext]_settingsVars PROVE SettingsTypeOK'
    OBVIOUS
<1>0. SettingsTypeOK /\ \A x \in Pages \cup Uploads : Recording(x)
  BY DEF SettingsIInv, ReqSound
<1>1. ASSUME NEW p \in Pages, PageStep(p) PROVE SettingsTypeOK'
  BY <1>0, <1>1, PageStepType
<1>2. ASSUME NEW i \in Uploads, UploadStep(i) PROVE SettingsTypeOK'
  BY <1>0, <1>2, UploadStepType
<1>3. ASSUME NEW x \in Pages \cup Uploads, BackendStep(x) PROVE SettingsTypeOK'
  BY <1>0, <1>3, JudgeType, CompareType, CommitType, DropType, ReplyType DEF BackendStep
<1>4. CASE UNCHANGED settingsVars
  BY <1>0, <1>4 DEF settingsVars, SettingsTypeOK
<1> QED
  BY <1>0, <1>1, <1>2, <1>3, <1>4, OtherType DEF SettingsNext

LEMMA InvStep == SettingsIInv /\ [SettingsNext]_settingsVars => SettingsIInv'
<1> SUFFICES ASSUME SettingsIInv, [SettingsNext]_settingsVars PROVE SettingsIInv'
    OBVIOUS
<1>0. SettingsTypeOK'
  BY TypeStep
<1>1. ASSUME NEW p \in Pages, PageStep(p) PROVE SettingsIInv'
  BY <1>0, <1>1, PageStepHolds
<1>2. ASSUME NEW i \in Uploads, UploadStep(i) PROVE SettingsIInv'
  BY <1>0, <1>2, UploadStepHolds
<1>3. ASSUME NEW x \in Pages \cup Uploads, BackendStep(x) PROVE SettingsIInv'
  BY <1>0, <1>3, JudgeHolds, CompareHolds, CommitHolds, DropHolds, ReplyHolds DEF BackendStep
<1>4. CASE UNCHANGED settingsVars
  <2>1. UNCHANGED <<stored, copy, audit, page, panel, req, unasked, typedOver, staleFill>>
    BY <1>4 DEF settingsVars
  <2>2. AuditGrows
    BY <2>1 DEF AuditGrows
  <2>3. \A x \in Pages \cup Uploads : ReqSound(x)'
    BY <2>1, <2>2, ReqFrame, SettingsAssumption DEF SettingsIInv
  <2>4. (\A p \in Pages : PageSound(p)') /\ \A p \in Pages : PanelSound(p)'
    BY <2>1, <2>2, PageFrame, PanelFrame DEF SettingsIInv
  <2>5. AskedBeforeStored' /\ CopyIsFresh'
    BY <2>1 DEF SettingsIInv, AskedBeforeStored, CopyIsFresh
  <2> QED
    BY <1>0, <2>3, <2>4, <2>5 DEF SettingsIInv
<1> QED
  BY <1>0, <1>1, <1>2, <1>3, <1>4, OtherHolds DEF SettingsNext

\* The types are kept: a draft, a question and a record are of keys and values,
\* and what waits to be reverted was recorded.
THEOREM TypeCorrect == SettingsSpec => []SettingsTypeOK
<1>1. SettingsIInv => SettingsTypeOK
  BY DEF SettingsIInv
<1> QED
  BY HoldsInit, InvStep, <1>1, PTL DEF SettingsSpec

\* A weakening value is stored only after its own question was shown, through
\* saves, reverts and imports; and the copy the backend goes by is that of the
\* rows, but for the time a change is on its way and for a late read.
THEOREM SettingsSound == SettingsSpec => []SettingsHold
<1>1. SettingsIInv => SettingsHold
  BY DEF SettingsIInv, SettingsHold
<1> QED
  BY HoldsInit, InvStep, <1>1, PTL DEF SettingsSpec

\* Only a commit takes a request to the copy, and only an answer ends it there.
LEMMA ReqMoves ==
    ASSUME SettingsTypeOK, SettingsNext, NEW x \in Pages \cup Uploads
    PROVE  /\ req[x].pc = "commit" /\ req'[x].pc = "drop" => Commit(x)
           /\ req[x].pc = "reply" /\ req'[x].pc = "none" => Reply(x) \/ ReplyLost(x)
<1>0. req \in [Pages \cup Uploads -> RequestState] /\ req[x] \in {NoRequest} \cup Sent /\ NoRequest.pc = "none"
      /\ DOMAIN req = Pages \cup Uploads
  BY TypeParts, RequestIs DEF ReqType, NoRequest
<1>1. ASSUME NEW y \in Pages \cup Uploads, NEW kind, NEW c, NEW yes, SendSettings(y, kind, c, yes)
      PROVE  req'[x] = req[x] \/ req[x].pc = "none"
  BY <1>0, <1>1 DEF SendSettings, PageBusy
<1>2. ASSUME NEW p \in Pages, PageStep(p) PROVE req'[x] = req[x] \/ req[x].pc = "none"
  <2>1. req' = req \/ \E kind, c, yes : SendSettings(p, kind, c, yes)
    BY <1>2 DEF PageStep, Save, Confirm, GoBack, Discard, CancelImport, Reset, Edit, Revert
  <2> QED
    BY <1>1, <2>1
<1>3. ASSUME NEW i \in Uploads, UploadStep(i) PROVE req'[x] = req[x] \/ req[x].pc = "none"
  <2>1. req' = req \/ \E kind, c, yes : SendSettings(i, kind, c, yes)
    BY <1>3 DEF UploadStep, ConfirmImport, Import
  <2> QED
    BY <1>1, <2>1
<1>4. ASSUME NEW y \in Pages \cup Uploads, y # x, BackendStep(y) \/ ReplyLost(y) PROVE req'[x].pc = req[x].pc
  <2>1. CASE Commit(y)
    <3>1. CASE req[x].pc = "commit"
      <4>1. req'[x] = [req[x] EXCEPT !.crossed = TRUE] /\ req[x] \in Sent
        BY <1>0, <1>4, <2>1, <3>1 DEF Commit
      <4> QED
        BY <4>1 DEF Sent
    <3>2. CASE req[x].pc # "commit"
      BY <1>0, <1>4, <2>1, <3>2 DEF Commit
    <3> QED
      BY <3>1, <3>2
  <2>2. CASE ~Commit(y)
    BY <1>0, <1>4, <2>2 DEF BackendStep, Judge, Compare, Drop, Reply, ReplyLost
  <2> QED
    BY <2>1, <2>2
<1>5. ASSUME \E r \in Readers : BeginRead(r) \/ EndRead(r) PROVE req' = req
  BY <1>5 DEF BeginRead, EndRead
<1>6. CopyAges => req' = req
  BY DEF CopyAges
<1>7. ASSUME BackendStep(x) \/ ReplyLost(x)
      PROVE  /\ req[x].pc = "commit" => Commit(x)
             /\ req[x].pc = "reply" => Reply(x) \/ ReplyLost(x)
  BY <1>7 DEF BackendStep, Judge, Compare, Commit, Drop, Reply, ReplyLost
<1> QED
  BY <1>2, <1>3, <1>4, <1>5, <1>6, <1>7 DEF SettingsNext

\* What was typed arrives in the rows or stays in the form: a request alone on
\* its way leaves what it asked for, and its answer takes from the draft what it
\* sent.
THEOREM EditsKept == SettingsSpec => EditsHold
<1>1. ASSUME SettingsIInv, [SettingsNext]_settingsVars, NEW x \in DOMAIN req, req[x].pc = "commit", req'[x].pc = "drop",
             ~staleFill, ~req[x].crossed, NEW k \in DOMAIN req[x].changes
      PROVE  stored'[k] = req[x].changes[k]
  <2>1. SettingsTypeOK /\ DOMAIN req = Pages \cup Uploads
    <3>1. SettingsTypeOK
      BY <1>1 DEF SettingsIInv
    <3> QED
      BY ONLY <3>1, TypeParts DEF ReqType
  <2>2. SettingsNext
    BY <1>1 DEF settingsVars
  <2>3. req[x] \in Sent /\ ReqSound(x) /\ Commit(x)
    BY <1>1, <2>1, <2>2, RequestIs, ReqMoves DEF SettingsIInv
  <2>4. k \in Keys
    BY <2>3, ChangeSetsAre DEF Sent
  <2>5. stored'[k] = IF k \in Changed(req[x]) THEN req[x].changes[k] ELSE stored[k]
    BY <2>3, <2>4 DEF Commit
  <2>6. req[x].from[k] = stored[k]
    BY <1>1, <2>3 DEF ReqSound, Comparing, Restrict
  <2> QED
    BY <2>5, <2>6 DEF Changed
<1>2. ASSUME SettingsIInv, [SettingsNext]_settingsVars, NEW p \in Pages, req[p].pc = "reply", req'[p].pc = "none", ~typedOver,
             NEW k \in DOMAIN page[p].draft \ DOMAIN page'[p].draft
      PROVE  k \in DOMAIN req[p].changes /\ req[p].changes[k] \in {0, page[p].draft[k]}
  <2>1. SettingsTypeOK /\ page \in [Pages -> PageState] /\ p \notin Uploads
    <3>1. SettingsTypeOK
      BY <1>2 DEF SettingsIInv
    <3>2. p \in Pages /\ p \notin Uploads
      BY SettingsAssumption
    <3> QED
      BY ONLY <3>1, <3>2, TypeParts DEF PageType
  <2>2. SettingsNext
    BY <1>2 DEF settingsVars
  <2>3. req[p] \in Sent /\ ReqSound(p)
    BY <1>2, <2>1, RequestIs DEF SettingsIInv
  <2>4. Reply(p)
    <3>1. ReplyLost(p) => page' = page
      BY DEF ReplyLost
    <3> QED
      BY <1>2, <2>1, <2>2, <3>1, ReqMoves
  <2>5. page'[p].draft = DraftAfter(p)
    BY <2>1, <2>4 DEF Reply, PageWith
  <2>6. CASE req[p].kind = "save"
    BY <1>2, <2>3, <2>6 DEF ReqSound, Sending
  <2>7. CASE req[p].kind = "reset"
    <3>1. DOMAIN page'[p].draft = DOMAIN page[p].draft \ DOMAIN req[p].changes
      BY <2>5, <2>7 DEF DraftAfter, Restrict
    <3> QED
      BY <1>2, <2>3, <2>7, <3>1 DEF ReqSound, Sending
  <2>8. CASE req[p].kind \notin {"save", "reset"}
    BY <2>5, <2>8 DEF DraftAfter
  <2> QED
    BY <2>6, <2>7, <2>8
<1>3. SettingsIInv /\ [SettingsNext]_settingsVars =>
        /\ [\A x \in DOMAIN req :
              req[x].pc = "commit" /\ req'[x].pc = "drop" /\ ~staleFill /\ ~req[x].crossed =>
                  \A k \in DOMAIN req[x].changes : stored'[k] = req[x].changes[k]]_settingsVars
        /\ [\A p \in Pages : req[p].pc = "reply" /\ req'[p].pc = "none" /\ ~typedOver =>
              \A k \in DOMAIN page[p].draft \ DOMAIN page'[p].draft :
                  k \in DOMAIN req[p].changes /\ req[p].changes[k] \in {0, page[p].draft[k]}]_settingsVars
  BY <1>1, <1>2
<1> QED
  BY HoldsInit, InvStep, <1>3, PTL DEF SettingsSpec, EditsHold, RequestTakesHold, EditsSurvive
=============================================================================
