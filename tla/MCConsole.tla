------------------------------ MODULE MCConsole ------------------------------
(***************************************************************************)
(* Instances of what the console administers and lists: settings, accounts,*)
(* the long lists and the directory.  They share no variable, so each is   *)
(* explored while the others rest; part says what happens:                 *)
(*   settings   two pages of the settings and an import panel;             *)
(*   guess      wrong passwords while the limit of failures is changed;    *)
(*   users      two administrators change accounts, theirs too;            *)
(*   directory  one person has a local account, the directory is on;       *)
(*   list, select   Alerts, read to its end and resolved from;             *)
(*   merge      File Events, which lists changes and reads;                *)
(*   lookup     Active Directory is asked about one person.                *)
(***************************************************************************)
EXTENDS Settings, Accounts, PagedFeed, DirectoryLookup, TLC

CONSTANTS p1, p2, i1, i2, r1, kw, kn, ann, bob, q1, q2, ev, rd, al, g1, g2, lk, cd1, Parts

VARIABLE part

MCPageOf  == [i \in Uploads |-> p1]
MCWeak    == {<<kw, 1>>}
MCImports == {[k \in {kw} |-> 1]}
Row(d, t, p, c, ks) == [feed |-> d, time |-> t, path |-> p, from |-> c, keys |-> ks]
MCRowOf ==
    <<Row(ev, 2, "x", "none", {"changes"}), Row(ev, 3, "y", "a", {"changes", "some"}),
      Row(ev, 4, "z", "none", {"changes", "some"}),
      Row(rd, 1, "a", "none", {"reads"}), Row(rd, 1, "b", "none", {"reads"}), Row(rd, 3, "b", "none", {"reads"}),
      Row(al, 1, "m", "none", {"open", "all"}), Row(al, 2, "m", "none", {"open", "all"}),
      Row(al, 2, "m", "none", {"open", "all"}), Row(al, 3, "m", "none", {"open", "all"})>>
EventRows == 1..6
AlertRows == 7..10

KeyFor(d, f) == CASE d = ev /\ f \in {"both", "changes"} -> "changes"
                [] d = ev /\ f = "some"  -> "some"
                [] d = rd /\ f = "both"  -> "reads"
                [] d = al /\ f \in {"open", "all"} -> f
                [] OTHER -> NoKey
MCKeyOf == [d \in Feeds |-> [f \in FilterSets |-> KeyFor(d, f)]]

MCControllers == <<"dc1", "dc2">>
ADSays(there, enabled, pw, groups, lookup) ==
    [there |-> there, enabled |-> enabled, pw |-> pw, groups |-> groups, lookup |-> lookup]
MCStandings ==
    {ADSays(TRUE, TRUE, 1, {g1}, 1), ADSays(TRUE, TRUE, 2, {g1}, 1), ADSays(TRUE, TRUE, 1, {g2}, 1),
     ADSays(TRUE, FALSE, 1, {g1}, 1), ADSays(FALSE, FALSE, 1, {}, 1), ADSays(TRUE, TRUE, 1, {}, 2)}

AllVars == <<part, settingsVars, accountVars, feedVars, adVars>>

Of == [settings |-> "settings", guess |-> "accounts", users |-> "accounts", directory |-> "accounts",
       list |-> "feeds", select |-> "feeds", merge |-> "feeds", lookup |-> "lookup"]

Init ==
    /\ part \in Parts
    /\ SettingsInit /\ AccountsInit
    /\ role = [u \in People |-> IF part = "directory" THEN "ADMIN" ELSE "none"]
    /\ directoryOn = (part = "directory")
    /\ lockAfter > 1 => part = "guess"
    /\ filters = IF part = "merge" THEN "both" ELSE "open"
    /\ rows \in CASE part = "merge" -> {EventRows \ R : R \in {{}} \cup {{r} : r \in EventRows}}
                  [] part = "list"  -> {AlertRows, AlertRows \ {10}}
                  [] OTHER          -> {AlertRows \ {10}}
    /\ FeedInit
    /\ settings \in [on : {TRUE}, admin : {g1}, viewer : IF part = "lookup" THEN {g2, NoGroup} ELSE {g2}, lookup : {1}]
    /\ adCopy \in [Indices -> IF part = "lookup" THEN MCStandings ELSE {ADSays(TRUE, TRUE, 1, {g1}, 1)}]
    /\ LookupInit

\* An answer is lost in place of a second edit.
SettingsPart ==
    /\ Of[part] = "settings" /\ SettingsNext
    /\ edits' + lost' <= 2
    /\ UNCHANGED <<part, accountVars, feedVars, adVars>>

AccountsPart ==
    /\ Of[part] = "accounts" /\ AccountsNext
    /\ part # "directory" => role' = role /\ directoryOn' = directoryOn
    /\ part # "guess" => guesses' = guesses /\ lockAfter' = lockAfter
    /\ part # "users" => writes' <= 1
    /\ part = "guess" => \A q \in Requests : request'[q].pc # "idle" => request'[q].u = ann /\ request'[q].pc # "patch"
    /\ UNCHANGED <<part, settingsVars, feedVars, adVars>>

\* Nothing is ticked where rows come and go, but what the selection resolves.
FeedPart ==
    /\ Of[part] = "feeds" /\ FeedNext
    /\ rows' \subseteq IF part = "merge" THEN EventRows ELSE AlertRows
    /\ part # "select" => selected' = selected /\ arrivals' + changesMade' <= 2
    /\ part = "select" => arrivals' = arrivals /\ changesMade' <= 1 /\ Cardinality(selected') <= 2
    /\ UNCHANGED <<part, settingsVars, accountVars, adVars>>

\* A copy changes or the settings are saved, and no more than two of these and outages.
LookupPart ==
    /\ part = "lookup" /\ LookupNext
    /\ adChanges' + saves' <= 1 /\ adChanges' + saves' + outages' <= 2
    /\ UNCHANGED <<part, settingsVars, accountVars, feedVars>>

Next == SettingsPart \/ AccountsPart \/ FeedPart \/ LookupPart
Spec == Init /\ [][Next]_AllVars

\* The two requests to the accounts' pages are interchangeable.
Symmetry == Permutations({q1, q2})

\* The type invariant of each component, where that one moves.
ConsoleTypesOK ==
    /\ Of[part] = "settings" => SettingsTypeOK
    /\ Of[part] = "accounts" => AccountsTypeOK
    /\ Of[part] = "feeds" => FeedTypeOK
    /\ Of[part] = "lookup" => LookupTypeOK
=============================================================================
