---------------------------- MODULE SnapshotDiff ----------------------------
(***************************************************************************)
(* The comparison of two listings of a share (agent diff.ts).  A listing   *)
(* is a function from the paths it holds to their stamps, a stamp the size *)
(* and the time of the last write.  A Map of the code also has an order,   *)
(* the order of the walk; the one place where it matters, the pairing of   *)
(* renames, takes it as an argument.                                       *)
(***************************************************************************)
EXTENDS Naturals, Sequences, SequencesExt

CONSTANTS
    Paths,      \* paths of files
    Folders,    \* folders of the share
    FolderOf,   \* [Paths -> Folders], the folder a path lies in
    BaseOf,     \* [Paths -> names], the last segment of a path
    Inside      \* the pairs <<d, e>> of folders with d = e or d beneath e

Empty == <<>>
Only(listing, S) == [p \in DOMAIN listing \cap S |-> listing[p]]

\* A listing, and the paths it does not hold as `other` has them.
FilledUp(listing, other) ==
    [p \in DOMAIN listing \cup DOMAIN other |-> IF p \in DOMAIN listing THEN listing[p] ELSE other[p]]

Beneath(folder, folders) == \E e \in folders : <<folder, e>> \in Inside
Under(p, folders) == Beneath(FolderOf[p], folders)

\* The candidate, as a set of at most one, that `to` came from.
ChooseSource(candidates, to) ==
    LET sameName == {c \in candidates : BaseOf[c] = BaseOf[to]}
    IN  IF Cardinality(candidates) = 1 THEN candidates
        ELSE IF Cardinality(sameName) = 1 THEN sameName ELSE {}

Appeared(previous, current) == DOMAIN current \ DOMAIN previous
Vanished(previous, current) == DOMAIN previous \ DOMAIN current
Modified(previous, current) ==
    {p \in DOMAIN previous \cap DOMAIN current : previous[p] # current[p]}

\* A new path is paired with a vanished file of the same stamp that no earlier one
\* was paired with.
PairOne(previous, current, pairs, to) ==
    LET available == {f \in Vanished(previous, current) :
                          /\ previous[f] = current[to]
                          /\ \A r \in pairs : r.from # f}
    IN  pairs \cup {[from |-> f, to |-> to] : f \in ChooseSource(available, to)}

\* The new paths in the order of the walk.
Pairing(previous, current, order) ==
    LET done[n \in 0..Len(order)] == IF n = 0 THEN {}
                                     ELSE PairOne(previous, current, done[n - 1], order[n])
    IN  done

PairRenames(previous, current, order) == Pairing(previous, current, order)[Len(order)]

\* Identical files that were there before and are still there.
Survivors(previous, current, to) ==
    {p \in DOMAIN previous \cap DOMAIN current :
        current[to].size > 0 /\ current[p] = current[to]}

\* Of the new paths in `created`, the copies, with their source if it is known.
PairCopies(created, previous, current, since) ==
    LET Source(p) == ChooseSource(Survivors(previous, current, p), p)
    IN  {[from |-> Source(p), to |-> p] :
            p \in {c \in created : Source(c) # {} \/ current[c].mtime < since}}

CarryForwardUnreadable(previous, current, unreadable) ==
    FilledUp(current, Only(previous, {p \in Paths : Under(p, unreadable)}))

AbsorbNewlyReadable(previous, current, before, now) ==
    LET opened == {d \in before : ~Beneath(d, now)}
    IN  FilledUp(previous, Only(current, {p \in Paths : Under(p, opened)}))
=============================================================================
