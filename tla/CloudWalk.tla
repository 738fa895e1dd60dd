------------------------------ MODULE CloudWalk ------------------------------
(***************************************************************************)
(* A walk of a cloud drive, Google Drive (by id, where two items of one    *)
(* folder may have one name) or Microsoft 365 (by path, where they may     *)
(* not): page by page and folder by folder, while people move, rename,     *)
(* delete and add items; then samples of what was listed.                  *)
(*                                                                         *)
(* An item is a number; a page lists a folder's items in their order.  An  *)
(* item that is nowhere has been deleted or is yet to be added.  Native    *)
(* documents, which are left out of the listing, and sizes are not         *)
(* modelled.  Time passes in steps of a minute.                            *)
(***************************************************************************)
EXTENDS Integers, FiniteSets, Sequences, SequencesExt

CONSTANTS
    DriveKinds,   \* subset of {"gdrive", "m365"}
    DriveFiles, DriveFolders, TopFolder, Nowhere, \* TopFolder: folderId, or subPath
    ItemNames,
    FirstTrees,   \* [items -> [in, name]]
    PageSize,
    TokenLife, Margin, \* of an access token; Margin is its last minute
    MaxMoves, MaxWalks, MaxPageFaults \* bounds of a behaviour

VARIABLES
    kind,
    place,        \* where each item is
    queue,        \* folders the walk has still to read: [dir, rel]
    page,         \* the folder being read: [dir, rel, after, dirs, asked]
    listed,       \* the listing so far: [path, id]
    complete,     \* listTree has returned it
    tokenLeft,    \* minutes the access token is still good for
    slow,         \* minutes the request has taken
    sampled,      \* what readSample gave last: [path, id]
    movedItems,   \* history: items whose place changed since the walk began
    been,         \* history: where each file has been since
    moves, walks, pageFaults

walkState == <<queue, page, listed, complete>>
cloudVars == <<kind, place, walkState, tokenLeft, slow, sampled, movedItems, been, moves, walks, pageFaults>>

Items == DriveFiles \cup DriveFolders
NoPage == [asked |-> FALSE, dir |-> Nowhere]
NoSample == [path |-> <<>>, id |-> Nowhere]

RECURSIVE Above(_, _), PathOf(_, _), Resolve(_, _, _)

\* A folder and those it is in.
Above(P, d) == IF d \in {TopFolder, Nowhere} THEN {d} ELSE {d} \cup Above(P, P[d].in)

InTree(P, x) == TopFolder \in Above(P, x)

PathOf(P, x) == IF x = TopFolder THEN <<>> ELSE Append(PathOf(P, P[x].in), P[x].name)

\* The item at a path below a folder.
Resolve(P, d, path) ==
    IF path = <<>> THEN d
    ELSE LET there == {x \in Items : P[x].in = d /\ P[x].name = Head(path)}
         IN  IF there = {} THEN Nowhere ELSE Resolve(P, CHOOSE x \in there : TRUE, Tail(path))

Places(P) == {<<PathOf(P, f), f>> : f \in {g \in DriveFiles : InTree(P, g)}}

CloudInit ==
    /\ kind \in DriveKinds
    /\ place \in FirstTrees
    /\ queue = <<>> /\ page = NoPage /\ listed = <<>> /\ complete = FALSE
    /\ tokenLeft = 0 /\ slow = 0
    /\ sampled = NoSample
    /\ movedItems = {} /\ been = {}
    /\ moves = 0 /\ walks = 0 /\ pageFaults = 0

Walking == page # NoPage

----------------------------------------------------------------------------
(* People. *)

\* An item is added, moved, renamed or deleted, with all that is in it.
MoveItem(x, to) ==
    /\ moves < MaxMoves /\ moves' = moves + 1
    /\ place[x] # to /\ (place[x].in = Nowhere => to.in # Nowhere)
    /\ to.in = Nowhere \/ InTree(place, to.in)
    /\ x \in DriveFolders => x \notin Above(place, to.in)
    /\ kind = "m365" => \A y \in Items \ {x} : to.in # Nowhere => place[y] # to
    /\ place' = [place EXCEPT ![x] = to]
    /\ movedItems' = movedItems \cup {x}
    /\ been' = been \cup Places(place')
    /\ UNCHANGED <<kind, walkState, tokenLeft, slow, sampled, walks, pageFaults>>

MinutePasses ==
    /\ tokenLeft > 0 /\ tokenLeft' = tokenLeft - 1
    /\ page.asked => slow < Margin
    /\ slow' = IF page.asked THEN slow + 1 ELSE slow
    /\ UNCHANGED <<kind, place, walkState, sampled, movedItems, been, moves, walks, pageFaults>>

----------------------------------------------------------------------------
(* The walk. *)

Folder(d, rel) == [dir |-> d, rel |-> rel, after |-> 0, dirs |-> <<>>, asked |-> FALSE]

ListTree ==
    /\ ~Walking /\ walks < MaxWalks /\ walks' = walks + 1
    /\ page' = Folder(TopFolder, <<>>) /\ queue' = <<>>
    /\ listed' = <<>> /\ complete' = FALSE /\ sampled' = NoSample
    /\ movedItems' = {} /\ been' = Places(place)
    /\ UNCHANGED <<kind, place, tokenLeft, slow, moves, pageFaults>>

StillGood == tokenLeft > Margin

Fresh == TokenLife

AskPage ==
    /\ Walking /\ ~page.asked
    /\ page' = [page EXCEPT !.asked = TRUE]
    /\ tokenLeft' = IF StillGood THEN tokenLeft ELSE Fresh
    /\ slow' = 0
    /\ UNCHANGED <<kind, place, queue, listed, complete, sampled, movedItems, been, moves, walks, pageFaults>>

\* On with the next folder, or done.
GoOn(todo) ==
    IF todo = <<>> THEN page' = NoPage /\ queue' = <<>> /\ complete' = TRUE
    ELSE page' = Folder(Head(todo).dir, Head(todo).rel) /\ queue' = Tail(todo) /\ UNCHANGED complete

\* Microsoft 365 finds the folder by its path, then follows links of its own.
FolderRead == IF kind = "m365" /\ page.after = 0 THEN Resolve(place, TopFolder, page.rel) ELSE page.dir

FolderThere == FolderRead \in DriveFolders \cup {TopFolder} /\ InTree(place, FolderRead)

\* A folder that has gone is an error in Microsoft 365 only; a drive may fail
\* without a reason.
DriveFault ==
    \/ kind = "m365" /\ ~FolderThere /\ UNCHANGED pageFaults
    \/ pageFaults < MaxPageFaults /\ pageFaults' = pageFaults + 1

\* Mutant of PageFails: the walk goes on without the rest of the folder.
SkipsRest ==
    /\ page.asked /\ DriveFault
    /\ GoOn(queue)
    /\ UNCHANGED <<listed, kind, place, tokenLeft, slow, sampled, movedItems, been, moves, walks>>

\* What fails ends the walk without a listing.
PageFails ==
    /\ page.asked /\ DriveFault
    /\ page' = NoPage /\ queue' = <<>>
    /\ UNCHANGED <<listed, complete, kind, place, tokenLeft, slow, sampled, movedItems, been, moves, walks>>

Rest(d) == {x \in Items : place[x].in = d /\ x > page.after}

FirstOf(S) == {x \in S : Cardinality({y \in S : y < x}) < PageSize}

InOrder(S) == SetToSortSeq(S, <)

Child(rel, x) == [dir |-> x, rel |-> Append(rel, place[x].name)]

Entry(rel, f) == [path |-> Append(rel, place[f].name), id |-> f]

\* A folder that has gone lists nothing in Google Drive.
PageArrives ==
    LET rest == IF FolderThere THEN Rest(FolderRead) ELSE {}
        got  == FirstOf(rest)
        dirs == page.dirs \o [i \in 1..Cardinality(got \cap DriveFolders) |->
                                 Child(page.rel, InOrder(got \cap DriveFolders)[i])]
    IN  /\ page.asked
        /\ kind = "m365" => FolderThere
        /\ listed' = listed \o [i \in 1..Cardinality(got \cap DriveFiles) |->
                                   Entry(page.rel, InOrder(got \cap DriveFiles)[i])]
        /\ \/ /\ rest # got
              /\ page' = [page EXCEPT !.dir = FolderRead, !.asked = FALSE, !.dirs = dirs,
                                      !.after = CHOOSE x \in got : \A y \in got : y <= x]
              /\ UNCHANGED <<queue, complete>>
           \/ rest = got /\ GoOn(dirs \o queue)
        /\ UNCHANGED <<kind, place, tokenLeft, slow, sampled, movedItems, been, moves, walks, pageFaults>>

----------------------------------------------------------------------------
(* Samples, once there is a listing. *)

ListedPaths == {e.path : e \in ToSet(listed)}

\* The map from paths to ids keeps the last of one path.
IdAt(p) == listed[CHOOSE i \in DOMAIN listed : listed[i].path = p /\ \A j \in DOMAIN listed : listed[j].path = p => j <= i].id

\* By its id, or whatever is at the path by now.
ReadSample(p) ==
    /\ complete /\ ~Walking /\ p \in ListedPaths
    /\ LET found == IF kind = "gdrive" THEN IdAt(p) ELSE Resolve(place, TopFolder, p)
       IN  /\ found \in DriveFiles /\ InTree(place, found)
           /\ sampled' = [path |-> p, id |-> found]
    /\ UNCHANGED <<kind, place, walkState, tokenLeft, slow, movedItems, been, moves, walks, pageFaults>>

CloudNext ==
    \/ \E x \in Items, d \in DriveFolders \cup {TopFolder, Nowhere}, n \in ItemNames :
          /\ d = Nowhere => n = place[x].name
          /\ MoveItem(x, [in |-> d, name |-> n])
    \/ MinutePasses \/ ListTree \/ AskPage \/ PageFails \/ PageArrives
    \/ \E p \in ListedPaths : ReadSample(p)

CloudSpec == CloudInit /\ [][CloudNext]_cloudVars

----------------------------------------------------------------------------
(* Properties. *)

CloudTypeOK ==
    /\ kind \in DriveKinds
    /\ \A x \in Items : place[x].in \in DriveFolders \cup {TopFolder, Nowhere} /\ place[x].name \in ItemNames
    /\ \A i \in DOMAIN listed : listed[i].id \in DriveFiles /\ Len(listed[i].path) <= Cardinality(DriveFolders) + 1
    /\ complete => ~Walking /\ queue = <<>>
    /\ tokenLeft \in 0..TokenLife /\ slow \in 0..Margin
    /\ sampled.id \in DriveFiles \cup {Nowhere}

\* A file that stays where it is, and whose folders do, is unmoved.
Unmoved(f) ==
    /\ InTree(place, f) /\ f \notin movedItems
    /\ movedItems \cap Above(place, place[f].in) = {}

\* Whatever people do elsewhere in the drive, a listing has every file that
\* stayed where it was, once, and under its path: the comparison with the listing
\* before takes a missing one for a deletion.
StayersListed ==
    complete => \A f \in DriveFiles : Unmoved(f) =>
        Len(SelectSeq(listed, LAMBDA e : e.id = f)) = 1 /\ [path |-> PathOf(place, f), id |-> f] \in ToSet(listed)

FoldersStayed == movedItems \cap DriveFolders = {}

\* Where no folder moves during a walk, what is listed has been there.
NothingInvented == FoldersStayed => \A i \in DOMAIN listed : <<listed[i].path, listed[i].id>> \in been

\* What is read for a path is of a file that has been at it since the walk began:
\* the findings are recorded under that path.
SampleWasThere == FoldersStayed /\ sampled # NoSample => <<sampled.path, sampled.id>> \in been

\* The token a request was sent with is good until its answer is there, when that
\* takes no longer than a minute.
TokenOutlivesRequest == page.asked => tokenLeft > 0

\* A listing is what the drive had: complete for what stayed in place, and
\* neither it nor a sample taken from it names a file that was not there.
ListingIsTrue == StayersListed /\ NothingInvented /\ SampleWasThere /\ TokenOutlivesRequest
=============================================================================
