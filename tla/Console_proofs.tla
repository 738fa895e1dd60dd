--------------------------- MODULE Console_proofs ---------------------------
(***************************************************************************)
(* Proofs about what the console asks and lists: a sign-in by the          *)
(* directory, for every number of controllers, every content of their      *)
(* copies and every set of attempts; and the long lists, for every number  *)
(* of feeds and rows, every size of a page and every set of filters.       *)
(***************************************************************************)
EXTENDS DirectoryLookup, PagedFeed, FiniteSetTheorems, WellFoundedInduction, TLAPS
-----------------------------------------------------------------------------
(***************************************************************************)
(* DirectoryLookup.                                                        *)
(***************************************************************************)

Questions == {"account", "password", "admins", "viewers"}
UnderWay == [pc : {"bind", "find", "password", "admins", "viewers"}, op : {"login", "recheck"}, pw : Passwords,
             cfg : SettingsRow, i : Indices, admin : BOOLEAN]
Over == [pc : {"done"}, op : {"login", "recheck"}, pw : Passwords, cfg : SettingsRow,
         says : {"ok", "no_group", "disabled", "gone", "not_found", "bad_password", "unavailable"},
         role : {"ADMIN", "VIEWER", "none"}]
Fact == [dc : Indices, what : Questions, of : Standings]

\* The controllers are numbered from one on.
LEMMA Numbers == /\ 1 \in Indices /\ Indices \subseteq Nat
                 /\ \A i \in Indices : i # Len(Controllers) => i + 1 \in Indices
<1>1. Len(Controllers) \in Nat \ {0} /\ Indices = 1..Len(Controllers)
  BY LookupAssumption DEF Indices
<1> QED
  BY <1>1

\* An attempt that asks something or is over is one of its two kinds of record.
LEMMA Kinds ==
    ASSUME LookupTypeOK, NEW a \in Attempts
    PROVE  /\ attempt[a] \in {Idle} \cup UnderWay \cup Over
           /\ attempt[a].pc \in {"bind", "find", "password", "admins", "viewers"} => attempt[a] \in UnderWay
           /\ attempt[a].pc = "done" => attempt[a] \in Over
           /\ attempt[a].pc = "idle" => attempt[a] = Idle
<1>1. attempt[a] \in AttemptState
  BY DEF LookupTypeOK
<1>2. attempt[a] \in {Idle} \cup UnderWay \cup Over
  BY <1>1 DEF AttemptState, UnderWay, Over
<1>3. Idle.pc = "idle"
  BY DEF Idle
<1>4. \A x \in UnderWay : x.pc \in {"bind", "find", "password", "admins", "viewers"}
  BY DEF UnderWay
<1>5. \A x \in Over : x.pc = "done"
  BY DEF Over
<1> QED
  BY <1>2, <1>3, <1>4, <1>5

\* What is written of an attempt is of its type.
LEMMA AsksType ==
    ASSUME LookupTypeOK, NEW a \in Attempts, attempt[a] \in UnderWay, NEW pc \in {"bind", "find", "password", "admins", "viewers"},
           NEW i \in Indices, NEW admin \in BOOLEAN, NowAsks(a, pc, i, admin)
    PROVE  attempt' \in [Attempts -> AttemptState]
<1> DEFINE r == [pc |-> pc, op |-> attempt[a].op, pw |-> attempt[a].pw, cfg |-> attempt[a].cfg, i |-> i, admin |-> admin]
<1>1. r \in UnderWay
  BY DEF UnderWay
<1>2. r \in AttemptState
  BY <1>1 DEF AttemptState, UnderWay
<1>3. attempt' = [attempt EXCEPT ![a] = r]
  BY DEF NowAsks, Goes
<1> HIDE DEF r
<1> QED
  BY <1>2, <1>3 DEF LookupTypeOK

LEMMA OutcomeType ==
    ASSUME LookupTypeOK, NEW a \in Attempts, attempt[a] \in UnderWay,
           NEW says \in {"ok", "no_group", "disabled", "gone", "not_found", "bad_password", "unavailable"},
           NEW role \in {"ADMIN", "VIEWER", "none"}, Outcome(a, says, role)
    PROVE  attempt' \in [Attempts -> AttemptState]
<1> DEFINE r == [pc |-> "done", op |-> attempt[a].op, pw |-> attempt[a].pw, cfg |-> attempt[a].cfg, says |-> says, role |-> role]
<1>1. r \in Over
  BY DEF UnderWay, Over
<1>2. r \in AttemptState
  BY <1>1 DEF AttemptState, Over
<1>3. attempt' = [attempt EXCEPT ![a] = r]
  BY DEF Outcome, Goes
<1> HIDE DEF r
<1> QED
  BY <1>2, <1>3 DEF LookupTypeOK

LEMMA ToldType ==
    ASSUME LookupTypeOK, NEW a \in Attempts, NEW i \in Indices, NEW what \in Questions, Told(a, i, what)
    PROVE  facts' \in [Attempts -> SUBSET Fact]
<1> DEFINE f == [dc |-> i, what |-> what, of |-> adCopy[i]]
<1>1. f \in Fact
  BY DEF Fact, LookupTypeOK
<1>2. facts \in [Attempts -> SUBSET Fact]
  BY DEF LookupTypeOK, Fact, Questions
<1>3. facts' = [facts EXCEPT ![a] = @ \cup {f}]
  BY DEF Told
<1> HIDE DEF f
<1> QED
  BY <1>1, <1>2, <1>3

LEMMA NextType ==
    ASSUME LookupTypeOK, NEW a \in Attempts, attempt[a] \in UnderWay, NextController(a)
    PROVE  attempt' \in [Attempts -> AttemptState] /\ facts' \in [Attempts -> SUBSET Fact]
<1>0. facts \in [Attempts -> SUBSET Fact]
  BY DEF LookupTypeOK, Fact, Questions
<1>1. CASE attempt[a].i = Len(Controllers)
  <2>1. Outcome(a, "unavailable", "none") /\ facts' = facts
    BY <1>1 DEF NextController
  <2> QED
    BY <1>0, <2>1, OutcomeType
<1>2. CASE attempt[a].i # Len(Controllers)
  <2>1. NowAsks(a, "bind", attempt[a].i + 1, FALSE) /\ facts' = [facts EXCEPT ![a] = {}]
    BY <1>2 DEF NextController
  <2>2. attempt[a].i \in Indices
    BY DEF UnderWay
  <2>3. attempt[a].i + 1 \in Indices
    BY <1>2, <2>2, Numbers
  <2> QED
    BY <1>0, <2>1, <2>3, AsksType
<1> QED
  BY <1>1, <1>2

LEMMA TypeInit == LookupInit => LookupTypeOK
<1> SUFFICES ASSUME LookupInit PROVE LookupTypeOK
    OBVIOUS
<1>1. attempt \in [Attempts -> AttemptState]
  BY DEF LookupInit, AttemptState
<1>2. settings \in SettingsRow /\ settings.lookup \in Lookups /\ settings.admin \in Groups
  BY DEF LookupInit, SettingsRow
<1>3. card \in [Cards -> SettingsRow]
  BY DEF LookupInit, NoCard, SettingsRow
<1> QED
  BY <1>1, <1>2, <1>3, LookupAssumption DEF LookupInit, LookupTypeOK

\* A step that is none of an attempt's leaves the attempts and what they were told.
LEMMA SettingsType ==
    ASSUME LookupTypeOK, NEW c \in Cards, NEW on \in BOOLEAN, NEW g \in Groups \cup {NoGroup},
           NEW h \in Groups \cup {NoGroup}, NEW typed \in Lookups \cup {Blank},
           SaveCard(c, [on |-> on, admin |-> g, viewer |-> h, lookup |-> card[c].lookup], typed)
    PROVE  LookupTypeOK'
<1> DEFINE form == [on |-> on, admin |-> g, viewer |-> h, lookup |-> card[c].lookup]
           kept == IF typed = Blank THEN settings.lookup ELSE typed
<1>1. card[c] \in SettingsRow
  BY DEF LookupTypeOK
<1>2. form \in SettingsRow
  BY <1>1 DEF SettingsRow
<1>3. kept \in Lookups \cup {Blank} /\ kept \in Lookups
  BY DEF LookupTypeOK
<1>4. saves' \in 0..MaxSaves
  BY LookupAssumption DEF SaveCard, LookupTypeOK
<1>5. UNCHANGED <<adCopy, up, attempt, refusals, facts, hidden, adChanges, outages>>
  BY DEF SaveCard
<1>6. CASE ~FilledIn(form)
  BY <1>4, <1>5, <1>6 DEF SaveCard, LookupTypeOK
<1>7. CASE FilledIn(form)
  <2>1. settings' = [form EXCEPT !.lookup = kept] /\ card' = [card EXCEPT ![c] = settings']
    BY <1>7 DEF SaveCard
  <2>2. settings' = [on |-> on, admin |-> g, viewer |-> h, lookup |-> kept]
    BY <2>1
  <2>3. settings' \in SettingsRow /\ settings'.lookup \in Lookups
    BY <1>3, <2>2 DEF SettingsRow
  <2>4. settings'.on => settings'.admin \in Groups
    BY <1>7, <2>2 DEF FilledIn
  <2>5. card' \in [Cards -> SettingsRow]
    BY <2>1, <2>3 DEF LookupTypeOK
  <2> QED
    BY <1>4, <1>5, <2>3, <2>4, <2>5 DEF LookupTypeOK
<1> QED
  BY <1>6, <1>7

\* What an attempt's step leaves alone keeps its type.
LEMMA RestType ==
    ASSUME LookupTypeOK, UNCHANGED <<adCopy, up, settings, card, adChanges, outages, saves>>,
           attempt' \in [Attempts -> AttemptState], facts' \in [Attempts -> SUBSET Fact],
           refusals' \in [Attempts -> Nat], hidden' \in [Attempts -> BOOLEAN]
    PROVE  LookupTypeOK'
BY DEF LookupTypeOK, Fact, Questions

\* Every step keeps every variable in its type.
LEMMA TypeStep == LookupTypeOK /\ [LookupNext]_adVars => LookupTypeOK'
<1> SUFFICES ASSUME LookupTypeOK, [LookupNext]_adVars PROVE LookupTypeOK'
    OBVIOUS
<1>0. /\ attempt \in [Attempts -> AttemptState] /\ facts \in [Attempts -> SUBSET Fact]
      /\ refusals \in [Attempts -> Nat] /\ hidden \in [Attempts -> BOOLEAN]
      /\ adCopy \in [Indices -> Standings] /\ up \in [Indices -> BOOLEAN]
  BY DEF LookupTypeOK, Fact, Questions
<1>1. ASSUME NEW i \in Indices, NEW s \in Standings, CopyChanges(i, s) PROVE LookupTypeOK'
  BY <1>1, LookupAssumption DEF CopyChanges, LookupTypeOK
<1>2. ASSUME NEW i \in Indices, GoesDown(i) PROVE LookupTypeOK'
  BY <1>2, LookupAssumption DEF GoesDown, LookupTypeOK
<1>3. ASSUME NEW i \in Indices, ComesBack(i) PROVE LookupTypeOK'
  BY <1>3 DEF ComesBack, LookupTypeOK
<1>4. ASSUME NEW c \in Cards, OpenCard(c) PROVE LookupTypeOK'
  BY <1>4 DEF OpenCard, LookupTypeOK
<1>5. ASSUME NEW a \in Attempts, NEW pw \in Passwords, NEW op \in {"login", "recheck"}, BeginLookup(a, op, pw)
      PROVE  LookupTypeOK'
  <2> DEFINE done == [pc |-> "done", op |-> op, pw |-> pw, cfg |-> settings, says |-> "bad_password", role |-> "none"]
             asks == [pc |-> "bind", op |-> op, pw |-> pw, cfg |-> settings, i |-> 1, admin |-> FALSE]
  <2>1. settings \in SettingsRow
    BY DEF LookupTypeOK
  <2>2. done \in Over /\ asks \in UnderWay
    BY <2>1, Numbers DEF Over, UnderWay
  <2>3. done \in AttemptState /\ asks \in AttemptState
    BY <2>2 DEF AttemptState, Over, UnderWay
  <2>4. attempt' = [attempt EXCEPT ![a] = IF op = "login" /\ ~Usable(pw) THEN done ELSE asks]
    BY <1>5 DEF BeginLookup, Goes
  <2> HIDE DEF done, asks
  <2>5. attempt' \in [Attempts -> AttemptState]
    BY <1>0, <2>3, <2>4
  <2>6. facts' = facts /\ refusals' = refusals /\ hidden' = hidden
        /\ UNCHANGED <<adCopy, up, settings, card, adChanges, outages, saves>>
    BY <1>5 DEF BeginLookup, UNCHANGED_AD
  <2> QED
    BY <1>0, <2>5, <2>6, RestType
<1>6. ASSUME NEW a \in Attempts, LookupStep(a) PROVE LookupTypeOK'
  <2> DEFINE i == attempt[a].i
  <2>1. UNCHANGED <<adCopy, up, settings, card, adChanges, outages, saves>>
    BY <1>6 DEF LookupStep, Bind, Find, CheckPassword, AskAdmins, AskViewers, UNCHANGED_AD
  <2>2. attempt[a] \in UnderWay
    BY <1>6, Kinds DEF LookupStep, Bind, Find, CheckPassword, AskAdmins, AskViewers, Asking
  <2>3. i \in Indices /\ attempt[a].admin \in BOOLEAN
    BY <2>2 DEF UnderWay
  <2>4. CASE Bind(a)
    <3>1. refusals' = refusals /\ hidden' = hidden
      BY <2>4 DEF Bind
    <3>2. CASE ~up[i]
      <4>1. NextController(a)
        BY <2>4, <3>2 DEF Bind, Here
      <4> QED
        BY <1>0, <2>1, <2>2, <3>1, <4>1, NextType, RestType
    <3>3. CASE up[i]
      <4>1. facts' = facts /\ (Outcome(a, "unavailable", "none") \/ NowAsks(a, "find", i, attempt[a].admin))
        BY <2>4, <3>3 DEF Bind, Here
      <4>2. attempt' \in [Attempts -> AttemptState]
        BY <2>2, <2>3, <4>1, OutcomeType, AsksType
      <4> QED
        BY <1>0, <2>1, <3>1, <4>1, <4>2, RestType
    <3> QED
      BY <3>2, <3>3
  <2>5. CASE Find(a)
    <3>1. refusals' = refusals /\ hidden' \in [Attempts -> BOOLEAN]
      <4>1. refusals' = refusals /\ hidden' = [hidden EXCEPT ![a] = @ \/ (~up[i] /\ attempt[a].op = "recheck")]
        BY <2>5 DEF Find, Here
      <4> QED
        BY <1>0, <4>1
    <3>2. CASE ~up[i] /\ attempt[a].op = "login"
      <4>1. NextController(a)
        BY <2>5, <3>2 DEF Find, Here
      <4> QED
        BY <1>0, <2>1, <2>2, <3>1, <4>1, NextType, RestType
    <3>3. CASE ~(~up[i] /\ attempt[a].op = "login")
      <4>1. facts' = facts \/ Told(a, i, "account")
        BY <2>5, <3>3 DEF Find, Here
      <4>2. \/ \E says \in {"not_found", "gone", "disabled"} : Outcome(a, says, "none")
            \/ \E pc \in {"password", "admins"} : NowAsks(a, pc, i, attempt[a].admin)
        BY <2>5, <3>3 DEF Find, Here
      <4>3. attempt' \in [Attempts -> AttemptState]
        BY <2>2, <2>3, <4>2, OutcomeType, AsksType
      <4>4. facts' \in [Attempts -> SUBSET Fact]
        BY <1>0, <2>3, <4>1, ToldType DEF Questions
      <4> QED
        BY <1>0, <2>1, <3>1, <4>3, <4>4, RestType
    <3> QED
      BY <3>2, <3>3
  <2>6. CASE CheckPassword(a)
    <3>1. hidden' = hidden /\ refusals' \in [Attempts -> Nat]
      BY <1>0, <2>6 DEF CheckPassword
    <3>2. CASE ~up[i]
      <4>1. NextController(a)
        BY <2>6, <3>2 DEF CheckPassword, Here
      <4> QED
        BY <1>0, <2>1, <2>2, <3>1, <4>1, NextType, RestType
    <3>3. CASE up[i]
      <4>1. \/ Told(a, i, "password") /\ NowAsks(a, "admins", i, attempt[a].admin)
            \/ Outcome(a, "bad_password", "none") /\ facts' = facts
        BY <2>6, <3>3 DEF CheckPassword, Here, Refused
      <4>2. attempt' \in [Attempts -> AttemptState]
        BY <2>2, <2>3, <4>1, OutcomeType, AsksType
      <4>3. facts' \in [Attempts -> SUBSET Fact]
        BY <1>0, <2>3, <4>1, ToldType DEF Questions
      <4> QED
        BY <1>0, <2>1, <3>1, <4>2, <4>3, RestType
    <3> QED
      BY <3>2, <3>3
  <2>7. CASE AskAdmins(a)
    <3>1. refusals' = refusals /\ hidden' = hidden
      BY <2>7 DEF AskAdmins
    <3>2. CASE ~up[i]
      <4>1. NextController(a)
        BY <2>7, <3>2 DEF AskAdmins, Here
      <4> QED
        BY <1>0, <2>1, <2>2, <3>1, <4>1, NextType, RestType
    <3>3. CASE up[i]
      <4>1. Told(a, i, "admins") /\ NowAsks(a, "viewers", i, GroupsOf(a).admin \in adCopy[i].groups)
        BY <2>7, <3>3 DEF AskAdmins, Here
      <4>2. attempt' \in [Attempts -> AttemptState]
        <5>1. (GroupsOf(a).admin \in adCopy[i].groups) \in BOOLEAN
          OBVIOUS
        <5> QED
          BY ONLY LookupTypeOK, <2>2, <2>3, <4>1, <5>1, AsksType
      <4>3. facts' \in [Attempts -> SUBSET Fact]
        BY <2>3, <4>1, ToldType DEF Questions
      <4> QED
        BY <1>0, <2>1, <3>1, <4>2, <4>3, RestType
    <3> QED
      BY <3>2, <3>3
  <2>8. CASE AskViewers(a)
    <3>1. refusals' = refusals /\ hidden' = hidden
      BY <2>8 DEF AskViewers
    <3>2. NextController(a) \/ (Told(a, i, "viewers") /\ \E says \in {"ok", "no_group"}, role \in {"ADMIN", "VIEWER", "none"} :
                                   Outcome(a, says, role))
      BY <2>8 DEF AskViewers, Here
    <3>3. attempt' \in [Attempts -> AttemptState] /\ facts' \in [Attempts -> SUBSET Fact]
      BY <2>2, <2>3, <3>2, NextType, ToldType, OutcomeType DEF Questions
    <3> QED
      BY <1>0, <2>1, <3>1, <3>3, RestType
  <2> QED
    BY <1>6, <2>4, <2>5, <2>6, <2>7, <2>8 DEF LookupStep
<1>7. ASSUME UNCHANGED adVars PROVE LookupTypeOK'
  BY <1>7 DEF adVars, LookupTypeOK
<1> QED
  BY <1>1, <1>2, <1>3, <1>4, <1>5, <1>6, <1>7, SettingsType DEF LookupNext

\* The types are kept: a controller is only ever asked by its number, and what
\* is on has a group of administrators.
THEOREM TypeCorrect == LookupSpec => []LookupTypeOK
<1>1. LookupTypeOK /\ [LookupNext]_adVars => LookupTypeOK'
  BY TypeStep
<1> QED
  BY TypeInit, <1>1, PTL DEF LookupSpec

-----------------------------------------------------------------------------
(* What one attempt relies on while it asks: whatever it has got past with *)
(* the controller it is at, that controller has said.                      *)

Steps == {"bind", "find", "password", "admins", "viewers"}

\* A sign-in that asks anything has a password to offer.
HasPassword(a) == attempt[a].pc \in Steps /\ attempt[a].op = "login" => attempt[a].pw # Blank

FoundHere(a) ==
    attempt[a].pc \in {"password", "admins", "viewers"} =>
        \E s \in Said(a, attempt[a].i, "account") : s.there /\ s.enabled

TookPassword(a) ==
    attempt[a].pc \in {"admins", "viewers"} /\ attempt[a].op = "login" =>
        \E s \in Said(a, attempt[a].i, "password") : s.pw = attempt[a].pw

AdminsSaid(a) ==
    attempt[a].pc = "viewers" =>
        \E s \in Said(a, attempt[a].i, "admins") : attempt[a].admin = (attempt[a].cfg.admin \in s.groups)

\* A refusal ends the attempt.
NotRefusedYet(a) == (attempt[a].pc # "done" => refusals[a] = 0) /\ refusals[a] <= 1

Vouched(a) ==
    Answer(a, "ok") =>
        \E i \in Indices :
            /\ \E s \in Said(a, i, "account") : s.there /\ s.enabled
            /\ attempt[a].op = "login" => \E s \in Said(a, i, "password") : s.pw = attempt[a].pw
            /\ attempt[a].role = "ADMIN" => \E s \in Said(a, i, "admins") : attempt[a].cfg.admin \in s.groups
            /\ attempt[a].role = "VIEWER" => \E s \in Said(a, i, "viewers") : attempt[a].cfg.viewer \in s.groups

ForCause(a) ==
    attempt[a].pc = "done" /\ attempt[a].op = "recheck" /\ ~hidden[a] =>
        /\ attempt[a].says = "gone" => \E f \in facts[a] : ~f.of.there
        /\ attempt[a].says = "disabled" => \E f \in facts[a] : f.of.there /\ ~f.of.enabled
        /\ attempt[a].says = "no_group" => \E f \in facts[a] : attempt[a].cfg.admin \notin f.of.groups

AttemptHolds(a) ==
    HasPassword(a) /\ FoundHere(a) /\ TookPassword(a) /\ AdminsSaid(a) /\ NotRefusedYet(a) /\ Vouched(a) /\ ForCause(a)

LookupIInv == LookupTypeOK /\ \A a \in Attempts : AttemptHolds(a)

\* The inductive invariant says what the property says.
LEMMA HoldsImplies == LookupIInv => SignInHolds
<1> SUFFICES ASSUME LookupIInv PROVE SignInHolds
    OBVIOUS
<1>1. \A a \in Attempts : Vouched(a) /\ ForCause(a) /\ refusals[a] <= 1
  BY DEF LookupIInv, AttemptHolds, NotRefusedYet
<1>2. OneControllerVouches
  BY <1>1 DEF OneControllerVouches, Vouched
<1>3. RefusedOnce
  BY <1>1 DEF RefusedOnce
<1>4. SignedOutForCause
  BY <1>1 DEF SignedOutForCause, ForCause
<1> QED
  BY <1>2, <1>3, <1>4 DEF SignInHolds

LEMMA HoldsInit == LookupInit => LookupIInv
<1> SUFFICES ASSUME LookupInit PROVE LookupIInv
    OBVIOUS
<1>1. \A a \in Attempts : attempt[a] = Idle /\ refusals[a] = 0
  BY DEF LookupInit
<1>2. Idle.pc = "idle"
  BY DEF Idle
<1>3. ASSUME NEW a \in Attempts PROVE AttemptHolds(a)
  BY <1>1, <1>2 DEF AttemptHolds, HasPassword, FoundHere, TookPassword, AdminsSaid, NotRefusedYet, Vouched, ForCause, Answer, Steps
<1> QED
  BY <1>3, TypeInit DEF LookupIInv

\* An attempt that a step leaves as it was keeps what it relies on.
LEMMA Untouched ==
    ASSUME NEW b \in Attempts, AttemptHolds(b), attempt'[b] = attempt[b], facts'[b] = facts[b],
           refusals'[b] = refusals[b], hidden'[b] = hidden[b]
    PROVE  AttemptHolds(b)'
<1>1. \A i, w : Said(b, i, w)' = Said(b, i, w)
  BY DEF Said
<1> QED
  BY <1>1 DEF AttemptHolds, HasPassword, FoundHere, TookPassword, AdminsSaid, NotRefusedYet, Vouched, ForCause, Answer

\* What a controller tells is added to what was told, and is the copy as it is.
LEMMA ToldAdds ==
    ASSUME LookupTypeOK, NEW a \in Attempts, NEW i \in Indices, NEW what \in Questions, Told(a, i, what)
    PROVE  /\ adCopy[i] \in Said(a, i, what)'
           /\ \A j, w : Said(a, j, w) \subseteq Said(a, j, w)'
           /\ \E f \in facts'[a] : f.of = adCopy[i]
           /\ facts[a] \subseteq facts'[a]
           /\ \A b \in Attempts : b # a => facts'[b] = facts[b]
<1> DEFINE f == [dc |-> i, what |-> what, of |-> adCopy[i]]
<1>1. facts' = [facts EXCEPT ![a] = @ \cup {f}]
  BY DEF Told
<1>2. f.dc = i /\ f.what = what /\ f.of = adCopy[i]
  OBVIOUS
<1> HIDE DEF f
<1>3. facts'[a] = facts[a] \cup {f} /\ \A b \in Attempts : b # a => facts'[b] = facts[b]
  BY <1>1 DEF LookupTypeOK
<1>4. adCopy[i] \in Said(a, i, what)'
  BY <1>2, <1>3 DEF Said
<1>5. \A j, w : Said(a, j, w) \subseteq Said(a, j, w)'
  BY <1>3 DEF Said
<1> QED
  BY <1>2, <1>3, <1>4, <1>5

\* What is written of an attempt is found there, and only there.
LEMMA AsksReads ==
    ASSUME LookupTypeOK, NEW a \in Attempts, NEW pc, NEW i, NEW admin, NowAsks(a, pc, i, admin)
    PROVE  /\ attempt'[a].pc = pc /\ attempt'[a].i = i /\ attempt'[a].admin = admin
           /\ attempt'[a].op = attempt[a].op /\ attempt'[a].pw = attempt[a].pw /\ attempt'[a].cfg = attempt[a].cfg
           /\ \A b \in Attempts : b # a => attempt'[b] = attempt[b]
BY DEF NowAsks, Goes, LookupTypeOK

LEMMA OutcomeReads ==
    ASSUME LookupTypeOK, NEW a \in Attempts, NEW says, NEW role, Outcome(a, says, role)
    PROVE  /\ attempt'[a].pc = "done" /\ attempt'[a].says = says /\ attempt'[a].role = role
           /\ attempt'[a].op = attempt[a].op /\ attempt'[a].pw = attempt[a].pw /\ attempt'[a].cfg = attempt[a].cfg
           /\ \A b \in Attempts : b # a => attempt'[b] = attempt[b]
BY DEF Outcome, Goes, LookupTypeOK

\* An attempt that goes on to the next controller begins there from nothing, and
\* where there is none it is over without an answer.
LEMMA NextHolds ==
    ASSUME LookupTypeOK, NEW a \in Attempts, attempt[a].pc \in Steps, AttemptHolds(a), NextController(a),
           refusals'[a] = refusals[a]
    PROVE  AttemptHolds(a)' /\ \A b \in Attempts : b # a => attempt'[b] = attempt[b] /\ facts'[b] = facts[b]
<1>1. CASE attempt[a].i = Len(Controllers)
  <2>1. Outcome(a, "unavailable", "none") /\ facts' = facts
    BY <1>1 DEF NextController
  <2>2. attempt'[a].pc = "done" /\ attempt'[a].says = "unavailable"
        /\ \A b \in Attempts : b # a => attempt'[b] = attempt[b]
    BY <2>1, OutcomeReads
  <2> QED
    BY <2>1, <2>2 DEF AttemptHolds, HasPassword, FoundHere, TookPassword, AdminsSaid, NotRefusedYet, Vouched, ForCause,
       Answer, Steps
<1>2. CASE attempt[a].i # Len(Controllers)
  <2>1. NowAsks(a, "bind", attempt[a].i + 1, FALSE) /\ facts' = [facts EXCEPT ![a] = {}]
    BY <1>2 DEF NextController
  <2>2. attempt'[a].pc = "bind" /\ attempt'[a].op = attempt[a].op /\ attempt'[a].pw = attempt[a].pw
        /\ \A b \in Attempts : b # a => attempt'[b] = attempt[b]
    BY <2>1, AsksReads
  <2>3. \A b \in Attempts : b # a => facts'[b] = facts[b]
    BY <2>1 DEF LookupTypeOK
  <2>4. AttemptHolds(a)'
    BY <2>2 DEF AttemptHolds, HasPassword, FoundHere, TookPassword, AdminsSaid, NotRefusedYet, Vouched, ForCause,
       Answer, Steps
  <2> QED
    BY <2>2, <2>3, <2>4
<1> QED
  BY <1>1, <1>2

\* Every step of an attempt keeps what the attempt relies on.
LEMMA StepHolds ==
    ASSUME LookupTypeOK, NEW a \in Attempts, AttemptHolds(a), LookupStep(a)
    PROVE  AttemptHolds(a)' /\ \A b \in Attempts : b # a => attempt'[b] = attempt[b] /\ facts'[b] = facts[b]
                                                          /\ refusals'[b] = refusals[b] /\ hidden'[b] = hidden[b]
<1>0. attempt[a] \in UnderWay /\ attempt[a].pc \in Steps
  BY Kinds DEF LookupStep, Bind, Find, CheckPassword, AskAdmins, AskViewers, Asking, Steps
<1>a. PICK i \in Indices : attempt[a].i = i
  BY <1>0 DEF UnderWay
<1>1. i \in Indices /\ attempt[a].i = i /\ attempt[a].admin \in BOOLEAN /\ refusals[a] = 0 /\ attempt[a].op \in {"login", "recheck"}
  BY <1>0, <1>a DEF UnderWay, AttemptHolds, NotRefusedYet, Steps
<1>2. CASE Bind(a)
  <2>1. refusals' = refusals /\ hidden' = hidden
    BY <1>2 DEF Bind
  <2>2. CASE ~up[i]
    <3>1. NextController(a)
      BY <1>a, <1>2, <2>2 DEF Bind, Here
    <3> QED
      BY <1>0, <2>1, <3>1, NextHolds
  <2>3. CASE up[i]
    <3>1. facts' = facts /\ (Outcome(a, "unavailable", "none") \/ NowAsks(a, "find", i, attempt[a].admin))
      BY <1>a, <1>2, <2>3 DEF Bind, Here
    <3>2. CASE Outcome(a, "unavailable", "none")
      <4>1. attempt'[a].pc = "done" /\ attempt'[a].says = "unavailable" /\ \A b \in Attempts : b # a => attempt'[b] = attempt[b]
        BY <3>2, OutcomeReads
      <4> QED
        BY <2>1, <3>1, <4>1 DEF AttemptHolds, HasPassword, FoundHere, TookPassword, AdminsSaid, NotRefusedYet, Vouched,
           ForCause, Answer, Steps
    <3>3. CASE NowAsks(a, "find", i, attempt[a].admin)
      <4>1. attempt'[a].pc = "find" /\ attempt'[a].op = attempt[a].op /\ attempt'[a].pw = attempt[a].pw
            /\ \A b \in Attempts : b # a => attempt'[b] = attempt[b]
        BY <3>3, AsksReads
      <4> QED
        BY <1>0, <2>1, <3>1, <4>1 DEF AttemptHolds, HasPassword, FoundHere, TookPassword, AdminsSaid, NotRefusedYet, Vouched,
           ForCause, Answer, Steps
    <3> QED
      BY <3>1, <3>2, <3>3
  <2> QED
    BY <2>2, <2>3
<1>3. CASE Find(a)
  <2>1. refusals' = refusals /\ hidden' = [hidden EXCEPT ![a] = @ \/ (~up[i] /\ attempt[a].op = "recheck")]
    BY <1>a, <1>3 DEF Find, Here
  <2>2. /\ \A b \in Attempts : b # a => hidden'[b] = hidden[b]
        /\ (~hidden'[a] /\ attempt[a].op = "recheck") => up[i]
    BY <2>1 DEF LookupTypeOK
  <2>3. CASE ~up[i] /\ attempt[a].op = "login"
    <3>1. NextController(a)
      BY <1>a, <1>3, <2>3 DEF Find, Here
    <3> QED
      BY <1>0, <2>1, <2>2, <3>1, NextHolds
  <2>4. CASE ~up[i] /\ attempt[a].op # "login"
    <3>1. facts' = facts /\ Outcome(a, "gone", "none")
      BY <1>a, <1>3, <2>4 DEF Find, Here
    <3>2. attempt'[a].pc = "done" /\ attempt'[a].says = "gone" /\ attempt'[a].op = attempt[a].op
          /\ \A b \in Attempts : b # a => attempt'[b] = attempt[b]
      BY <3>1, OutcomeReads
    <3> QED
      BY <1>1, <2>1, <2>2, <2>4, <3>1, <3>2 DEF AttemptHolds, HasPassword, FoundHere, TookPassword, AdminsSaid,
         NotRefusedYet, Vouched, ForCause, Answer, Steps
  <2>5. CASE up[i]
    <3>1. Told(a, i, "account")
      BY <1>a, <1>3, <2>5 DEF Find, Here
    <3>2. /\ adCopy[i] \in Said(a, i, "account")'
          /\ \E f \in facts'[a] : f.of = adCopy[i]
          /\ \A b \in Attempts : b # a => facts'[b] = facts[b]
      BY <1>1, <3>1, ToldAdds DEF Questions
    <3>3. CASE ~adCopy[i].there
      <4>1. \E says \in {"not_found", "gone"} : Outcome(a, says, "none")
        BY <1>a, <1>3, <2>5, <3>3 DEF Find, Here
      <4>2. attempt'[a].pc = "done" /\ attempt'[a].says \in {"not_found", "gone"}
            /\ \A b \in Attempts : b # a => attempt'[b] = attempt[b]
        BY <4>1, OutcomeReads
      <4>3. \E f \in facts'[a] : ~f.of.there
        BY <3>2, <3>3
      <4> QED
        BY <2>1, <2>2, <3>2, <4>2, <4>3 DEF AttemptHolds, HasPassword, FoundHere, TookPassword, AdminsSaid,
           NotRefusedYet, Vouched, ForCause, Answer, Steps
    <3>4. CASE adCopy[i].there /\ ~adCopy[i].enabled
      <4>1. Outcome(a, "disabled", "none")
        BY <1>a, <1>3, <2>5, <3>4 DEF Find, Here
      <4>2. attempt'[a].pc = "done" /\ attempt'[a].says = "disabled"
            /\ \A b \in Attempts : b # a => attempt'[b] = attempt[b]
        BY <4>1, OutcomeReads
      <4>3. \E f \in facts'[a] : f.of.there /\ ~f.of.enabled
        BY <3>2, <3>4
      <4> QED
        BY <2>1, <2>2, <3>2, <4>2, <4>3 DEF AttemptHolds, HasPassword, FoundHere, TookPassword, AdminsSaid,
           NotRefusedYet, Vouched, ForCause, Answer, Steps
    <3>5. CASE adCopy[i].there /\ adCopy[i].enabled
      <4>1. NowAsks(a, IF attempt[a].op = "login" THEN "password" ELSE "admins", i, attempt[a].admin)
        BY <1>a, <1>3, <2>5, <3>5 DEF Find, Here
      <4>2. attempt'[a].pc = (IF attempt[a].op = "login" THEN "password" ELSE "admins") /\ attempt'[a].i = i
            /\ attempt'[a].op = attempt[a].op /\ attempt'[a].pw = attempt[a].pw
            /\ \A b \in Attempts : b # a => attempt'[b] = attempt[b]
        BY <4>1, AsksReads
      <4>3. \E s \in Said(a, i, "account")' : s.there /\ s.enabled
        BY <3>2, <3>5
      <4>4. FoundHere(a)'
        BY <4>2, <4>3 DEF FoundHere
      <4> QED
        BY <1>0, <1>1, <2>1, <2>2, <3>2, <4>2, <4>4 DEF AttemptHolds, HasPassword, TookPassword, AdminsSaid,
           NotRefusedYet, Vouched, ForCause, Answer, Steps
    <3> QED
      BY <3>3, <3>4, <3>5
  <2> QED
    BY <2>3, <2>4, <2>5
<1>4. CASE CheckPassword(a)
  <2>1. hidden' = hidden /\ attempt[a].pc = "password"
    BY <1>4 DEF CheckPassword, Asking
  <2>2. CASE ~up[i]
    <3>1. NextController(a) /\ refusals' = refusals
      BY <1>a, <1>4, <2>2 DEF CheckPassword, Here
    <3> QED
      BY <1>0, <2>1, <3>1, NextHolds
  <2>3. CASE up[i] /\ Accepts(i, attempt[a].pw)
    <3>1. Told(a, i, "password") /\ refusals' = refusals /\ NowAsks(a, "admins", i, attempt[a].admin)
      BY <1>a, <1>4, <2>3 DEF CheckPassword, Here
    <3>2. /\ adCopy[i] \in Said(a, i, "password")'
          /\ Said(a, i, "account") \subseteq Said(a, i, "account")'
          /\ \A b \in Attempts : b # a => facts'[b] = facts[b]
      BY <1>1, <3>1, ToldAdds DEF Questions
    <3>3. attempt'[a].pc = "admins" /\ attempt'[a].i = i /\ attempt'[a].op = attempt[a].op /\ attempt'[a].pw = attempt[a].pw
          /\ \A b \in Attempts : b # a => attempt'[b] = attempt[b]
      BY <3>1, AsksReads
    <3>4. FoundHere(a)'
      <4>1. \E s \in Said(a, i, "account") : s.there /\ s.enabled
        BY <1>a, <2>1 DEF AttemptHolds, FoundHere
      <4> QED
        BY <3>2, <3>3, <4>1 DEF FoundHere
    <3>5. TookPassword(a)'
      <4>1. attempt[a].op = "login" => adCopy[i].pw = attempt[a].pw
        BY <1>0, <2>3 DEF Accepts, AttemptHolds, HasPassword
      <4> QED
        BY <3>2, <3>3, <4>1 DEF TookPassword
    <3> QED
      BY <1>0, <1>1, <2>1, <3>1, <3>2, <3>3, <3>4, <3>5 DEF AttemptHolds, HasPassword, AdminsSaid,
         NotRefusedYet, Vouched, ForCause, Answer, Steps
  <2>4. CASE up[i] /\ ~Accepts(i, attempt[a].pw)
    <3>1. Outcome(a, "bad_password", "none") /\ facts' = facts /\ refusals' = [refusals EXCEPT ![a] = @ + 1]
      BY <1>a, <1>4, <2>4 DEF CheckPassword, Here, Refused
    <3>2. attempt'[a].pc = "done" /\ attempt'[a].says = "bad_password" /\ \A b \in Attempts : b # a => attempt'[b] = attempt[b]
      BY <3>1, OutcomeReads
    <3>3. refusals'[a] = 1 /\ \A b \in Attempts : b # a => refusals'[b] = refusals[b]
      BY <1>1, <3>1 DEF LookupTypeOK
    <3> QED
      BY <2>1, <3>1, <3>2, <3>3 DEF AttemptHolds, HasPassword, FoundHere, TookPassword, AdminsSaid, NotRefusedYet, Vouched,
         ForCause, Answer, Steps
  <2> QED
    BY <2>2, <2>3, <2>4
<1>5. CASE AskAdmins(a)
  <2>1. refusals' = refusals /\ hidden' = hidden /\ attempt[a].pc = "admins"
    BY <1>5 DEF AskAdmins, Asking
  <2>2. CASE ~up[i]
    <3>1. NextController(a)
      BY <1>a, <1>5, <2>2 DEF AskAdmins, Here
    <3> QED
      BY <1>0, <2>1, <3>1, NextHolds
  <2>3. CASE up[i]
    <3>1. Told(a, i, "admins") /\ NowAsks(a, "viewers", i, attempt[a].cfg.admin \in adCopy[i].groups)
      BY <1>a, <1>5, <2>3 DEF AskAdmins, Here, GroupsOf
    <3>2. /\ adCopy[i] \in Said(a, i, "admins")'
          /\ \A w : Said(a, i, w) \subseteq Said(a, i, w)'
          /\ \A b \in Attempts : b # a => facts'[b] = facts[b]
      BY <1>1, <3>1, ToldAdds DEF Questions
    <3>3. /\ attempt'[a].pc = "viewers" /\ attempt'[a].i = i
          /\ attempt'[a].admin = (attempt[a].cfg.admin \in adCopy[i].groups)
          /\ attempt'[a].op = attempt[a].op /\ attempt'[a].pw = attempt[a].pw /\ attempt'[a].cfg = attempt[a].cfg
          /\ \A b \in Attempts : b # a => attempt'[b] = attempt[b]
      BY <3>1, AsksReads
    <3>4. FoundHere(a)'
      <4>1. \E s \in Said(a, i, "account") : s.there /\ s.enabled
        BY <1>a, <2>1 DEF AttemptHolds, FoundHere
      <4> QED
        BY <3>2, <3>3, <4>1 DEF FoundHere
    <3>5. TookPassword(a)'
      <4>1. attempt[a].op = "login" => \E s \in Said(a, i, "password") : s.pw = attempt[a].pw
        BY <1>a, <2>1 DEF AttemptHolds, TookPassword
      <4> QED
        BY <3>2, <3>3, <4>1 DEF TookPassword
    <3>6. AdminsSaid(a)'
      BY <3>2, <3>3 DEF AdminsSaid
    <3> QED
      BY <1>0, <1>1, <2>1, <3>2, <3>3, <3>4, <3>5, <3>6 DEF AttemptHolds, HasPassword,
         NotRefusedYet, Vouched, ForCause, Answer, Steps
  <2> QED
    BY <2>2, <2>3
<1>6. CASE AskViewers(a)
  <2>1. refusals' = refusals /\ hidden' = hidden /\ attempt[a].pc = "viewers"
    BY <1>6 DEF AskViewers, Asking
  <2>2. CASE NextController(a)
    BY <1>0, <2>1, <2>2, NextHolds
  <2>3. CASE ~NextController(a)
    <3>1. /\ Told(a, i, "viewers")
          /\ attempt[a].admin => Outcome(a, "ok", "ADMIN")
          /\ ~attempt[a].admin /\ attempt[a].cfg.viewer \in adCopy[i].groups => Outcome(a, "ok", "VIEWER")
          /\ ~attempt[a].admin /\ attempt[a].cfg.viewer \notin adCopy[i].groups => Outcome(a, "no_group", "none")
      BY <1>a, <1>6, <2>3 DEF AskViewers, Here, GroupsOf
    <3>2. /\ adCopy[i] \in Said(a, i, "viewers")'
          /\ \A w : Said(a, i, w) \subseteq Said(a, i, w)'
          /\ \A b \in Attempts : b # a => facts'[b] = facts[b]
      BY <1>1, <3>1, ToldAdds DEF Questions
    <3>3. \E s \in Said(a, i, "account")' : s.there /\ s.enabled
      BY <1>a, <2>1, <3>2 DEF AttemptHolds, FoundHere
    <3>4. attempt[a].op = "login" => \E s \in Said(a, i, "password")' : s.pw = attempt[a].pw
      BY <1>a, <2>1, <3>2 DEF AttemptHolds, TookPassword
    <3>5. PICK s \in Said(a, i, "admins")' : attempt[a].admin = (attempt[a].cfg.admin \in s.groups)
      BY <1>a, <2>1, <3>2 DEF AttemptHolds, AdminsSaid
    <3>6. CASE attempt[a].admin
      <4>1. /\ attempt'[a].pc = "done" /\ attempt'[a].says = "ok" /\ attempt'[a].role = "ADMIN"
            /\ attempt'[a].op = attempt[a].op /\ attempt'[a].pw = attempt[a].pw /\ attempt'[a].cfg = attempt[a].cfg
            /\ \A b \in Attempts : b # a => attempt'[b] = attempt[b]
        BY <3>1, <3>6, OutcomeReads
      <4>2. Vouched(a)'
        BY <1>1, <3>3, <3>4, <3>5, <3>6, <4>1 DEF Vouched
      <4> QED
        BY <2>1, <3>2, <4>1, <4>2 DEF AttemptHolds, HasPassword, FoundHere, TookPassword, AdminsSaid, NotRefusedYet,
           ForCause, Answer, Steps
    <3>7. CASE ~attempt[a].admin /\ attempt[a].cfg.viewer \in adCopy[i].groups
      <4>1. /\ attempt'[a].pc = "done" /\ attempt'[a].says = "ok" /\ attempt'[a].role = "VIEWER"
            /\ attempt'[a].op = attempt[a].op /\ attempt'[a].pw = attempt[a].pw /\ attempt'[a].cfg = attempt[a].cfg
            /\ \A b \in Attempts : b # a => attempt'[b] = attempt[b]
        BY <3>1, <3>7, OutcomeReads
      <4>2. Vouched(a)'
        BY <1>1, <3>2, <3>3, <3>4, <3>7, <4>1 DEF Vouched
      <4> QED
        BY <2>1, <3>2, <4>1, <4>2 DEF AttemptHolds, HasPassword, FoundHere, TookPassword, AdminsSaid, NotRefusedYet,
           ForCause, Answer, Steps
    <3>8. CASE ~attempt[a].admin /\ attempt[a].cfg.viewer \notin adCopy[i].groups
      <4>1. /\ attempt'[a].pc = "done" /\ attempt'[a].says = "no_group"
            /\ attempt'[a].op = attempt[a].op /\ attempt'[a].cfg = attempt[a].cfg
            /\ \A b \in Attempts : b # a => attempt'[b] = attempt[b]
        BY <3>1, <3>8, OutcomeReads
      <4>2. \E f \in facts'[a] : attempt[a].cfg.admin \notin f.of.groups
        BY <3>5, <3>8 DEF Said
      <4> QED
        BY <2>1, <3>2, <4>1, <4>2 DEF AttemptHolds, HasPassword, FoundHere, TookPassword, AdminsSaid, NotRefusedYet, Vouched,
           ForCause, Answer, Steps
    <3> QED
      BY <3>6, <3>7, <3>8
  <2> QED
    BY <2>2, <2>3
<1> QED
  BY <1>2, <1>3, <1>4, <1>5, <1>6 DEF LookupStep

\* A sign-in or a re-check that begins relies on nothing yet.
LEMMA BeginHolds ==
    ASSUME LookupTypeOK, NEW a \in Attempts, NEW pw, NEW op, BeginLookup(a, op, pw), AttemptHolds(a)
    PROVE  AttemptHolds(a)' /\ \A b \in Attempts : b # a => attempt'[b] = attempt[b]
<1>1. attempt[a].pc = "idle" /\ refusals' = refusals /\ facts' = facts /\ hidden' = hidden
  BY DEF BeginLookup
<1>2. refusals[a] = 0
  BY <1>1 DEF AttemptHolds, NotRefusedYet
<1>3. /\ op = "login" /\ ~Usable(pw) => attempt'[a].pc = "done" /\ attempt'[a].says = "bad_password" /\ attempt'[a].op = op
      /\ ~(op = "login" /\ ~Usable(pw)) => attempt'[a].pc = "bind" /\ attempt'[a].op = op /\ attempt'[a].pw = pw
      /\ \A b \in Attempts : b # a => attempt'[b] = attempt[b]
  BY DEF BeginLookup, Goes, LookupTypeOK
<1> QED
  BY <1>1, <1>2, <1>3 DEF AttemptHolds, HasPassword, FoundHere, TookPassword, AdminsSaid, NotRefusedYet, Vouched, ForCause,
     Answer, Steps, Usable

\* The invariant is kept by every step.
LEMMA InvStep == LookupIInv /\ [LookupNext]_adVars => LookupIInv'
<1> SUFFICES ASSUME LookupIInv, [LookupNext]_adVars PROVE LookupIInv'
    OBVIOUS
<1>1. LookupTypeOK /\ LookupTypeOK' /\ \A b \in Attempts : AttemptHolds(b)
  BY TypeStep DEF LookupIInv
<1>2. CASE UNCHANGED <<attempt, facts, refusals, hidden>>
  BY <1>1, <1>2, Untouched DEF LookupIInv
<1>3. ASSUME NEW a \in Attempts, NEW pw \in Passwords, NEW op \in {"login", "recheck"}, BeginLookup(a, op, pw)
      PROVE  LookupIInv'
  <2>1. refusals' = refusals /\ facts' = facts /\ hidden' = hidden
    BY <1>3 DEF BeginLookup
  <2>2. AttemptHolds(a)' /\ \A b \in Attempts : b # a => attempt'[b] = attempt[b]
    BY <1>1, <1>3, BeginHolds
  <2>3. \A b \in Attempts : b # a => AttemptHolds(b)'
    BY <1>1, <2>1, <2>2, Untouched
  <2> QED
    BY <1>1, <2>2, <2>3 DEF LookupIInv
<1>4. ASSUME NEW a \in Attempts, LookupStep(a) PROVE LookupIInv'
  <2>1. AttemptHolds(a)' /\ \A b \in Attempts : b # a => attempt'[b] = attempt[b] /\ facts'[b] = facts[b]
                                                        /\ refusals'[b] = refusals[b] /\ hidden'[b] = hidden[b]
    BY <1>1, <1>4, StepHolds
  <2>2. \A b \in Attempts : b # a => AttemptHolds(b)'
    BY <1>1, <2>1, Untouched
  <2> QED
    BY <1>1, <2>1, <2>2 DEF LookupIInv
<1>5. ASSUME NEW i \in Indices, GoesDown(i) \/ ComesBack(i) \/ (\E s \in Standings : CopyChanges(i, s))
      PROVE  UNCHANGED <<attempt, facts, refusals, hidden>>
  BY ONLY <1>5 DEF CopyChanges, GoesDown, ComesBack
<1>6. ASSUME NEW c \in Cards, OpenCard(c) \/ (\E new, typed : SaveCard(c, new, typed))
      PROVE  UNCHANGED <<attempt, facts, refusals, hidden>>
  BY ONLY <1>6 DEF OpenCard, SaveCard
<1>7. UNCHANGED adVars => UNCHANGED <<attempt, facts, refusals, hidden>>
  BY ONLY DEF adVars
<1> QED
  BY ONLY [LookupNext]_adVars, <1>2, <1>3, <1>4, <1>5, <1>6, <1>7 DEF LookupNext

\* The directory is asked soundly however its controllers fail and however its
\* settings are saved meanwhile: one controller vouches in full for a sign-in, a
\* wrong password is offered to Active Directory once, and a session is ended
\* only for what a controller said or for a search that failed.
THEOREM SignInSound == LookupSpec => []SignInHolds
<1>1. LookupIInv /\ [LookupNext]_adVars => LookupIInv'
  BY InvStep
<1> QED
  BY HoldsInit, <1>1, HoldsImplies, PTL DEF LookupSpec

-----------------------------------------------------------------------------
(***************************************************************************)
(* PagedFeed.                                                              *)
(***************************************************************************)
(* The order of the lists: rows by time, and by id among those of one time. *)

LEMMA AfterIsOrder ==
    /\ \A r \in RowIds : ~After(r, r)
    /\ \A r, s, t \in RowIds : After(r, s) /\ After(s, t) => After(r, t)
    /\ \A r, s \in RowIds : r = s \/ After(r, s) \/ After(s, r)
    /\ \A r, s \in RowIds : After(r, s) => Time(r) >= Time(s)
    /\ \A r \in RowIds : Time(r) \in Nat
<1>1. \A r \in RowIds : Time(r) \in Nat /\ r \in Nat
  BY FeedAssumption DEF Time
<1>2. \A r, s \in RowIds : After(r, s) <=> Time(r) > Time(s) \/ (Time(r) = Time(s) /\ r > s)
  BY DEF After
<1> QED
  BY <1>1, <1>2

LEMMA LessWellFounded == IsWellFoundedOn({p \in Nat \X Nat : p[1] < p[2]}, Nat)
BY NatLessThanWellFounded DEF OpToRel

\* Of things with a number, one has the least.
LEMMA LeastOne ==
    ASSUME NEW S, S # {}, NEW f, \A x \in S : f[x] \in Nat
    PROVE  \E x \in S : \A y \in S : f[x] <= f[y]
<1> DEFINE Less == {p \in Nat \X Nat : p[1] < p[2]}
<1> DEFINE T == {f[x] : x \in S}
<1>1. T \subseteq Nat /\ T # {}
  OBVIOUS
<1>2. \E t \in T : \A u \in T : ~(<<u, t>> \in Less)
  <2>1. IsWellFoundedOn(Less, Nat)
    BY LessWellFounded
  <2> HIDE DEF Less, T
  <2> QED
    BY <1>1, <2>1, WFMin, Zenon
<1>3. \A t, u \in Nat : ~(<<u, t>> \in Less) => t <= u
  OBVIOUS
<1> HIDE DEF Less
<1>4. PICK t \in T : \A u \in T : t <= u
  <2> HIDE DEF T
  <2> QED
    BY <1>1, <1>2, <1>3
<1>5. PICK x \in S : f[x] = t
  BY <1>4
<1>6. \A y \in S : f[x] <= f[y]
  BY <1>4, <1>5
<1> QED
  BY <1>6

\* Of finitely many things with a number, one has the greatest.
LEMMA GreatestOne ==
    ASSUME NEW S, IsFiniteSet(S), S # {}, NEW f, \A x \in S : f[x] \in Nat
    PROVE  \E x \in S : \A y \in S : f[y] <= f[x]
<1>1. PICK above : above = [x \in S |-> {y \in S : f[y] > f[x]}]
  OBVIOUS
<1>2. \A x \in S : above[x] \in SUBSET S /\ IsFiniteSet(above[x]) /\ Cardinality(above[x]) \in Nat
  BY <1>1, FS_Subset, FS_CardinalityType
<1>3. PICK size : size = [x \in S |-> Cardinality(above[x])]
  OBVIOUS
<1>4. \A x \in S : size[x] \in Nat
  BY <1>2, <1>3
<1>5. PICK x \in S : \A y \in S : size[x] <= size[y]
  BY <1>4, LeastOne
<1>6. ASSUME NEW y \in S, f[y] > f[x] PROVE FALSE
  <2>1. above[y] \in SUBSET above[x]
    BY <1>1, <1>6
  <2>2. y \in above[x] /\ y \notin above[y]
    BY <1>1, <1>6
  <2>3. Cardinality(above[y]) <= Cardinality(above[x]) /\ Cardinality(above[y]) # Cardinality(above[x])
    BY <1>2, <2>1, <2>2, FS_Subset
  <2>4. size[y] < size[x]
    BY <1>2, <1>3, <2>3
  <2> QED
    BY <1>4, <1>5, <2>4
<1> QED
  BY <1>5, <1>6

-----------------------------------------------------------------------------
(* The last of some rows, and the newest of them. *)

LastOf(R) == CHOOSE r \in R : \A s \in R : r = s \/ After(s, r)

LEMMA LastIs ==
    ASSUME NEW R \in SUBSET RowIds, R # {}
    PROVE  LastOf(R) \in R /\ \A s \in R : LastOf(R) = s \/ After(s, LastOf(R))
<1>1. PICK f : f = [r \in RowIds |-> Time(r)]
  OBVIOUS
<1>2. \A r \in R : f[r] \in Nat /\ f[r] = Time(r) /\ r \in RowIds
  BY <1>1, AfterIsOrder
<1>3. PICK q \in R : \A s \in R : f[q] <= f[s]
  BY <1>2, LeastOne
<1>4. PICK S : S = {s \in R : f[s] = f[q]}
  OBVIOUS
<1>5. PICK g : g = [r \in RowIds |-> r]
  OBVIOUS
<1>6. S # {} /\ \A s \in S : s \in R /\ f[s] = f[q] /\ g[s] \in Nat /\ g[s] = s
  BY <1>2, <1>3, <1>4, <1>5, FeedAssumption
<1>7. PICK r \in S : \A s \in S : g[r] <= g[s]
  BY <1>6, LeastOne
<1>8. ASSUME NEW s \in R PROVE r = s \/ After(s, r)
  <2>1. Time(r) \in Nat /\ Time(s) \in Nat /\ r \in Nat /\ s \in Nat /\ Time(r) <= Time(s)
    BY <1>2, <1>3, <1>6, FeedAssumption
  <2>2. Time(s) = Time(r) => r <= s
    BY <1>2, <1>4, <1>6, <1>7, <1>8
  <2> QED
    BY <2>1, <2>2 DEF After
<1>9. \E x \in R : \A s \in R : x = s \/ After(s, x)
  BY <1>6, <1>8
<1> QED
  BY <1>9 DEF LastOf

RowsBefore(R, r) == {s \in R : After(s, r)}

LEMMA RowsBeforeFinite ==
    ASSUME NEW R \in SUBSET RowIds
    PROVE  IsFiniteSet(R) /\ Cardinality(R) \in Nat
           /\ \A r : /\ RowsBefore(R, r) \in SUBSET R /\ IsFiniteSet(RowsBefore(R, r))
                     /\ Cardinality(RowsBefore(R, r)) \in Nat
<1>1. IsFiniteSet(R) /\ Cardinality(R) \in Nat
  BY FeedAssumption, FS_Subset, FS_CardinalityType
<1>2. ASSUME NEW r PROVE RowsBefore(R, r) \in SUBSET R
  BY DEF RowsBefore
<1> QED
  BY <1>1, <1>2, FS_Subset, FS_CardinalityType

\* The newest of some rows are those before which there are few: with one of
\* them all that come before it, all there are where they are fewer than a page,
\* and never more than a page.
LEMMA NewestIs ==
    ASSUME NEW R \in SUBSET RowIds
    PROVE  /\ Newest(R) \in SUBSET R
           /\ \A r \in Newest(R), s \in R : After(s, r) => s \in Newest(R)
           /\ Cardinality(Newest(R)) < FeedPage => Newest(R) = R
           /\ Cardinality(Newest(R)) \in Nat /\ Cardinality(Newest(R)) <= FeedPage
<1>1. \A r \in R : r \in Newest(R) <=> Cardinality(RowsBefore(R, r)) < FeedPage
  BY DEF Newest, RowsBefore
<1>2. Newest(R) \in SUBSET R
  BY DEF Newest
<1>n. FeedPage \in Nat \ {0}
  BY FeedAssumption
<1>3. ASSUME NEW r \in R, NEW s \in R, After(s, r)
      PROVE  /\ RowsBefore(R, s) \in SUBSET RowsBefore(R, r) /\ s \in RowsBefore(R, r) /\ s \notin RowsBefore(R, s)
             /\ Cardinality(RowsBefore(R, s)) < Cardinality(RowsBefore(R, r))
  <2>1. RowsBefore(R, s) \in SUBSET RowsBefore(R, r) /\ s \in RowsBefore(R, r) /\ s \notin RowsBefore(R, s)
    BY <1>3, AfterIsOrder DEF RowsBefore
  <2>2. Cardinality(RowsBefore(R, s)) <= Cardinality(RowsBefore(R, r))
        /\ Cardinality(RowsBefore(R, s)) # Cardinality(RowsBefore(R, r))
    BY <2>1, RowsBeforeFinite, FS_Subset
  <2> QED
    BY <2>1, <2>2, RowsBeforeFinite
<1>4. \A r \in Newest(R), s \in R : After(s, r) => s \in Newest(R)
  <2> SUFFICES ASSUME NEW r \in Newest(R), NEW s \in R, After(s, r) PROVE s \in Newest(R)
    OBVIOUS
  <2>1. Cardinality(RowsBefore(R, s)) < Cardinality(RowsBefore(R, r)) /\ Cardinality(RowsBefore(R, r)) < FeedPage
    BY <1>1, <1>2, <1>3
  <2> QED
    BY <1>1, <1>n, <2>1, RowsBeforeFinite
<1>5. /\ Newest(R) \in SUBSET RowIds /\ IsFiniteSet(Newest(R)) /\ Cardinality(Newest(R)) \in Nat
  BY <1>2, RowsBeforeFinite
<1>6. ASSUME Newest(R) # R PROVE ~(Cardinality(Newest(R)) < FeedPage)
  <2>1. PICK size : size = [r \in R |-> Cardinality(RowsBefore(R, r))]
    OBVIOUS
  <2>2. PICK S : S = R \ Newest(R)
    OBVIOUS
  <2>3. S # {} /\ \A r \in S : size[r] \in Nat
    BY <1>2, <1>6, <2>1, <2>2, RowsBeforeFinite
  <2>4. PICK r \in S : \A s \in S : size[r] <= size[s]
    BY <2>3, LeastOne
  <2>5. r \in R /\ ~(Cardinality(RowsBefore(R, r)) < FeedPage)
    BY <1>1, <2>2
  <2>6. RowsBefore(R, r) \in SUBSET Newest(R)
    <3> SUFFICES ASSUME NEW s \in R, After(s, r), s \notin Newest(R) PROVE FALSE
      BY DEF RowsBefore
    <3>1. s \in S /\ size[s] < size[r]
      BY <1>3, <2>1, <2>2, <2>5
    <3> QED
      BY <2>3, <2>4, <3>1
  <2>7. Cardinality(RowsBefore(R, r)) <= Cardinality(Newest(R))
    BY <1>5, <2>6, FS_Subset
  <2>8. Cardinality(RowsBefore(R, r)) \in Nat
    BY RowsBeforeFinite
  <2> QED
    BY <1>5, <1>n, <2>5, <2>7, <2>8
<1>7. Cardinality(Newest(R)) <= FeedPage
  <2>1. CASE Newest(R) = {}
    BY <1>n, <2>1, FS_EmptySet
  <2>2. CASE Newest(R) # {}
    <3>1. PICK r \in Newest(R) : \A s \in Newest(R) : r = s \/ After(s, r)
      BY <1>5, <2>2, LastIs
    <3>2. Newest(R) \ {r} \in SUBSET RowsBefore(R, r)
      BY <1>2, <3>1 DEF RowsBefore
    <3>3. Cardinality(Newest(R) \ {r}) = Cardinality(Newest(R)) - 1
      BY <1>5, <3>1, FS_RemoveElement
    <3>4. Cardinality(Newest(R) \ {r}) <= Cardinality(RowsBefore(R, r))
      BY <3>2, RowsBeforeFinite, FS_Subset
    <3>5. Cardinality(RowsBefore(R, r)) < FeedPage /\ Cardinality(RowsBefore(R, r)) \in Nat
      BY <1>1, <1>2, <3>1, RowsBeforeFinite
    <3> QED
      BY <1>5, <1>n, <3>3, <3>4, <3>5
  <2> QED
    BY <2>1, <2>2
<1> QED
  BY <1>2, <1>4, <1>5, <1>6, <1>7

-----------------------------------------------------------------------------
(***************************************************************************)
(* What is known of one feed.  Everything it has and awaits is of the      *)
(* question it asks now, but for a page that is left over.  While no row   *)
(* came or went since older pages are in use, the head, the polls under    *)
(* way and the older pages are of the same rows, the page asked for starts *)
(* where the list ends, and every row the head was read among is shown or  *)
(* comes after the last that is.                                           *)
(***************************************************************************)
PollRec == [page : SUBSET RowIds, all : SUBSET RowIds]
AskedPage == [pc : {"asked"}, key : FeedKeys, cursor : RowIds, fresh : BOOLEAN]
AnsweredPage == [pc : {"answered"}, key : FeedKeys, fresh : BOOLEAN, page : SUBSET RowIds]
FeedRec == [head : (SUBSET RowIds) \cup {Unread}, older : SUBSET RowIds, full : {"none", "full", "short"},
            polls : SUBSET PollRec, more : {NoMore} \cup AskedPage \cup AnsweredPage,
            asOf : SUBSET RowIds, moved : BOOLEAN, strayed : BOOLEAN]

AsksFor(d, k) == {r \in RowIds : RowOf[r].feed = d /\ k \in RowOf[r].keys}
Shown(F) == IF F.head = Unread THEN {} ELSE F.head \cup F.older
Ends(F) == /\ F.head # Unread
           /\ IF F.full = "none" THEN Cardinality(F.head) < FeedPage ELSE F.full = "short"
InUse(F) == F.more.pc # "idle" /\ F.more.fresh
Reaches(F) == \A r \in F.asOf : \/ r \in Shown(F)
                                \/ ~Ends(F) /\ Shown(F) # {} /\ After(LastOf(Shown(F)), r)

Owns(d, k, R, F) ==
    /\ F.asOf \subseteq R \cap AsksFor(d, k) /\ F.older \subseteq R \cap AsksFor(d, k)
    /\ \A p \in F.polls : p.all \subseteq R \cap AsksFor(d, k) /\ p.page = Newest(p.all)
    /\ F.head # Unread => F.head = Newest(F.asOf)
    /\ F.older # {} => F.full # "none"
    /\ F.full # "none" /\ ~F.strayed => F.head # Unread
    /\ k = NoKey => F.head = Unread /\ F.older = {} /\ F.polls = {}
    /\ F.more.pc = "answered" => F.more.page \subseteq R \cap AsksFor(d, F.more.key)
    /\ InUse(F) => F.more.key = k /\ F.head # Unread
SameRows(M, F) ==
    /\ ~F.moved => \A p \in F.polls : p.all = M
    /\ ~F.moved /\ ~F.strayed /\ (F.full # "none" \/ InUse(F)) => F.asOf = M
Continues(F) ==
    ~F.moved /\ ~F.strayed /\ InUse(F) =>
        /\ Shown(F) # {}
        /\ F.more.pc = "asked" => F.more.cursor = LastOf(Shown(F))
        /\ F.more.pc = "answered" => F.more.page = Newest(BeforeCursor(F.asOf, LastOf(Shown(F))))
HasNoGap(F) == ~F.moved /\ ~F.strayed /\ F.head # Unread => Reaches(F)

FeedSound(d, k, R, M, F) == F \in FeedRec /\ Owns(d, k, R, F) /\ SameRows(M, F) /\ Continues(F) /\ HasNoGap(F)

LEMMA FeedRecIs ==
    ASSUME NEW F \in FeedRec
    PROVE  /\ F.head = Unread \/ F.head \in SUBSET RowIds
           /\ F.older \in SUBSET RowIds /\ F.full \in {"none", "full", "short"}
           /\ F.polls \in SUBSET PollRec /\ F.more \in {NoMore} \cup AskedPage \cup AnsweredPage
           /\ F.asOf \in SUBSET RowIds /\ F.moved \in BOOLEAN /\ F.strayed \in BOOLEAN
           /\ Shown(F) \in SUBSET RowIds
<1>1. /\ F.head \in (SUBSET RowIds) \cup {Unread}
      /\ F.older \in SUBSET RowIds /\ F.full \in {"none", "full", "short"}
      /\ F.polls \in SUBSET PollRec /\ F.more \in {NoMore} \cup AskedPage \cup AnsweredPage
      /\ F.asOf \in SUBSET RowIds /\ F.moved \in BOOLEAN /\ F.strayed \in BOOLEAN
  BY DEF FeedRec
<1> QED
  BY <1>1 DEF Shown

LEMMA UnreadIsNoHead == \A R \in SUBSET RowIds : R # Unread
BY FeedAssumption DEF Unread

LEMMA FullPageIsNotEmpty == \A R : ~(Cardinality(R) < FeedPage) => R # {}
<1>1. Cardinality({}) = 0 /\ 0 < FeedPage
  BY FS_EmptySet, FeedAssumption
<1> QED
  BY <1>1

LEMMA MoreIs ==
    ASSUME NEW m \in {NoMore} \cup AskedPage \cup AnsweredPage
    PROVE  /\ m.pc \in {"idle", "asked", "answered"}
           /\ m.pc = "asked" => m \in AskedPage /\ m.key \in FeedKeys /\ m.cursor \in RowIds /\ m.fresh \in BOOLEAN
           /\ m.pc = "answered" => m \in AnsweredPage /\ m.key \in FeedKeys /\ m.page \in SUBSET RowIds /\ m.fresh \in BOOLEAN
           /\ m.pc = "idle" => m = NoMore
BY DEF NoMore, AskedPage, AnsweredPage

-----------------------------------------------------------------------------
(* The head alone reaches as far as it goes; an older page goes on there.  *)

LEMMA HeadReaches ==
    ASSUME NEW F \in FeedRec, F.head # Unread, F.head = Newest(F.asOf), F.full = "none", F.older = {}
    PROVE  Reaches(F)
<1>1. F.asOf \in SUBSET RowIds /\ Shown(F) = F.head /\ (Ends(F) <=> Cardinality(F.head) < FeedPage)
  BY FeedRecIs DEF Shown, Ends
<1>2. CASE Cardinality(F.head) < FeedPage
  BY <1>1, <1>2, NewestIs DEF Reaches
<1>3. CASE ~(Cardinality(F.head) < FeedPage)
  <2>1. F.head # {}
    BY <1>3, FullPageIsNotEmpty
  <2>2. F.head \in SUBSET F.asOf /\ \A r \in F.head, s \in F.asOf : After(s, r) => s \in F.head
    BY <1>1, NewestIs
  <2>3. LastOf(F.head) \in F.head
    BY <1>1, <2>1, <2>2, LastIs
  <2>4. ASSUME NEW r \in F.asOf, r \notin F.head PROVE After(LastOf(F.head), r)
    BY <1>1, <2>2, <2>3, <2>4, AfterIsOrder
  <2> QED
    BY <1>1, <1>3, <2>1, <2>4 DEF Reaches
<1> QED
  BY <1>2, <1>3

LEMMA PageReaches ==
    ASSUME NEW F \in FeedRec, F.head # Unread, Reaches(F), Shown(F) # {},
           NEW page, page = Newest(BeforeCursor(F.asOf, LastOf(Shown(F)))),
           NEW G \in FeedRec, G.head = F.head, G.asOf = F.asOf, G.older = F.older \cup page,
           G.full = IF Cardinality(page) >= FeedPage THEN "full" ELSE "short"
    PROVE  Reaches(G)
<1>1. PICK last \in RowIds : last = LastOf(Shown(F)) /\ last \in Shown(F)
  BY FeedRecIs, LastIs
<1>2. PICK beyond \in SUBSET RowIds : beyond = BeforeCursor(F.asOf, last) /\ \A r \in F.asOf : r \in beyond <=> After(last, r)
  <2>1. F.asOf \in SUBSET RowIds
    BY FeedRecIs
  <2>2. BeforeCursor(F.asOf, last) \in SUBSET RowIds
    BY <2>1 DEF BeforeCursor
  <2>3. \A r \in F.asOf : r \in BeforeCursor(F.asOf, last) <=> After(last, r)
    BY DEF BeforeCursor
  <2> QED
    BY <2>2, <2>3
<1>3. /\ page \in SUBSET beyond /\ \A r \in page, s \in beyond : After(s, r) => s \in page
      /\ Cardinality(page) < FeedPage => page = beyond
      /\ Cardinality(page) \in Nat
  BY <1>1, <1>2, NewestIs
<1>4. Shown(G) = Shown(F) \cup page /\ Shown(G) \in SUBSET RowIds /\ Shown(G) # {}
  BY FeedRecIs DEF Shown
<1>5. Ends(G) <=> Cardinality(page) < FeedPage
  <2>1. Cardinality(page) >= FeedPage <=> ~(Cardinality(page) < FeedPage)
    BY <1>3, FeedAssumption
  <2> QED
    BY <2>1 DEF Ends
<1>6. \A r \in F.asOf : r \in Shown(F) \/ r \in beyond
  BY <1>1, <1>2 DEF Reaches
<1>7. CASE Cardinality(page) < FeedPage
  BY <1>3, <1>4, <1>6, <1>7 DEF Reaches
<1>8. CASE ~(Cardinality(page) < FeedPage)
  <2>1. PICK s \in page : TRUE
    BY <1>8, FullPageIsNotEmpty
  <2>2. PICK l \in RowIds : l = LastOf(Shown(G)) /\ l \in Shown(G) /\ \A x \in Shown(G) : l = x \/ After(x, l)
    BY <1>4, LastIs
  <2>3. s \in RowIds /\ After(last, s) /\ (l = s \/ After(s, l)) /\ \A x \in Shown(F) : last = x \/ After(x, last)
    <3>1. \A x \in Shown(F) : last = x \/ After(x, last)
      BY <1>1, FeedRecIs, LastIs
    <3>2. s \in beyond /\ s \in F.asOf
      BY <1>2, <1>3 DEF BeforeCursor
    <3> QED
      BY <1>2, <1>4, <2>1, <2>2, <3>1, <3>2
  <2>4. l \notin Shown(F)
    <3>1. ASSUME last = l \/ After(l, last) PROVE FALSE
      BY <2>3, <3>1, AfterIsOrder
    <3> QED
      BY <2>3, <3>1
  <2>5. l \in page
    BY <1>4, <2>2, <2>4
  <2>6. ASSUME NEW r \in F.asOf, r \notin Shown(G) PROVE After(l, r)
    <3>1. r \in beyond /\ r \notin page /\ l \in beyond /\ r # l
      BY <1>3, <1>4, <1>6, <2>5, <2>6
    <3> QED
      BY <1>3, <2>5, <3>1, AfterIsOrder
  <2> QED
    BY <1>4, <1>5, <1>8, <2>2, <2>6 DEF Reaches
<1> QED
  BY <1>7, <1>8

-----------------------------------------------------------------------------
(* What each step does to one feed keeps what is known of it. *)

LEMMA PollSent ==
    ASSUME NEW d, NEW k, NEW R, NEW M \in SUBSET RowIds, NEW F, FeedSound(d, k, R, M, F), k # NoKey, M \subseteq R \cap AsksFor(d, k),
           NEW p \in PollRec, p.page = Newest(M), p.all = M,
           NEW G \in FeedRec, G.polls = F.polls \cup {p}, G.head = F.head, G.older = F.older, G.full = F.full,
           G.more = F.more, G.asOf = F.asOf, G.moved = F.moved, G.strayed = F.strayed
    PROVE  FeedSound(d, k, R, M, G)
<1> USE DEF FeedSound
<1>1. Shown(G) = Shown(F) /\ (Ends(G) <=> Ends(F)) /\ (InUse(G) <=> InUse(F))
  BY DEF Shown, Ends, InUse
<1>2. Owns(d, k, R, G)
  BY <1>1 DEF Owns
<1>3. SameRows(M, G)
  BY <1>1 DEF SameRows
<1>4. Continues(G)
  BY <1>1 DEF Continues
<1>5. HasNoGap(G)
  BY <1>1 DEF HasNoGap, Reaches
<1> QED
  BY <1>2, <1>3, <1>4, <1>5

LEMMA PollDropped ==
    ASSUME NEW d, NEW k, NEW R, NEW M, NEW F, FeedSound(d, k, R, M, F),
           NEW G \in FeedRec, G.polls \subseteq F.polls, G.head = F.head, G.older = F.older, G.full = F.full,
           G.more = F.more, G.asOf = F.asOf, G.moved = F.moved, G.strayed = F.strayed
    PROVE  FeedSound(d, k, R, M, G)
<1> USE DEF FeedSound
<1>1. Shown(G) = Shown(F) /\ (Ends(G) <=> Ends(F)) /\ (InUse(G) <=> InUse(F))
  BY DEF Shown, Ends, InUse
<1>2. Owns(d, k, R, G)
  BY <1>1 DEF Owns
<1>3. SameRows(M, G)
  BY <1>1 DEF SameRows
<1>4. Continues(G)
  BY <1>1 DEF Continues
<1>5. HasNoGap(G)
  BY <1>1 DEF HasNoGap, Reaches
<1> QED
  BY <1>2, <1>3, <1>4, <1>5

LEMMA PollLanded ==
    ASSUME NEW d, NEW k, NEW R, NEW M, NEW F, FeedSound(d, k, R, M, F), NEW p \in F.polls,
           NEW G \in FeedRec, G.polls = F.polls \ {p}, G.head = p.page, G.asOf = p.all,
           G.older = F.older, G.full = F.full, G.more = F.more, G.moved = F.moved, G.strayed = F.strayed
    PROVE  FeedSound(d, k, R, M, G)
<1> USE DEF FeedSound
<1>1. p.page = Newest(p.all) /\ p.page \in SUBSET RowIds /\ p.page # Unread /\ p.all \subseteq R \cap AsksFor(d, k)
  <2>1. p \in PollRec
    BY FeedRecIs
  <2> QED
    BY <2>1, UnreadIsNoHead DEF PollRec, Owns
<1>2. InUse(G) <=> InUse(F)
  BY DEF InUse
<1>3. Owns(d, k, R, G)
  BY <1>1, <1>2 DEF Owns
<1>4. SameRows(M, G)
  BY <1>2 DEF SameRows
\* With older pages in use the head is read among the same rows again.
<1>5. ASSUME ~F.moved, ~F.strayed, F.full # "none" \/ InUse(F), F.head # Unread
      PROVE  G.head = F.head /\ G.asOf = F.asOf /\ Shown(G) = Shown(F) /\ (Ends(G) <=> Ends(F))
  <2>1. p.all = M /\ F.asOf = M
    BY <1>5 DEF SameRows
  <2>2. G.head = F.head
    BY <1>1, <1>5, <2>1 DEF Owns
  <2> QED
    BY <2>1, <2>2 DEF Shown, Ends
<1>6. Continues(G)
  <2>1. InUse(F) => F.head # Unread
    BY DEF Owns
  <2> QED
    BY <1>2, <1>5, <2>1 DEF Continues
<1>7. HasNoGap(G)
  <2> SUFFICES ASSUME ~G.moved, ~G.strayed PROVE Reaches(G)
    BY DEF HasNoGap
  <2>1. CASE F.full = "none"
    <3>1. F.older = {}
      BY <2>1 DEF Owns
    <3> QED
      BY <1>1, <2>1, <3>1, HeadReaches
  <2>2. CASE F.full # "none" /\ F.head # Unread
    <3>1. Reaches(F)
      BY <2>2 DEF HasNoGap
    <3> QED
      BY <1>5, <2>2, <3>1 DEF Reaches
  <2>3. CASE F.full # "none" /\ F.head = Unread
    BY <2>3 DEF Owns
  <2> QED
    BY <2>1, <2>2, <2>3
<1> QED
  BY <1>3, <1>4, <1>6, <1>7

LEMMA PageAsked ==
    ASSUME NEW d, NEW k \in FeedKeys, NEW R, NEW M, NEW F, FeedSound(d, k, R, M, F), Shown(F) # {},
           NEW m \in AskedPage, m.key = k, m.cursor = LastOf(Shown(F)),
           NEW G \in FeedRec, G.more = m, G.moved <=> F.moved \/ F.asOf # M,
           G.polls = F.polls, G.head = F.head, G.older = F.older, G.full = F.full, G.asOf = F.asOf, G.strayed = F.strayed
    PROVE  FeedSound(d, k, R, M, G)
<1> USE DEF FeedSound
<1>1. Shown(G) = Shown(F) /\ (Ends(G) <=> Ends(F)) /\ F.head # Unread
  BY DEF Shown, Ends
<1>2. G.more.pc = "asked"
  BY DEF AskedPage
<1>3. Owns(d, k, R, G)
  BY <1>1, <1>2 DEF Owns
<1>4. SameRows(M, G)
  BY <1>1 DEF SameRows
<1>5. Continues(G)
  BY <1>1, <1>2 DEF Continues
<1>6. HasNoGap(G)
  BY <1>1 DEF HasNoGap, Reaches
<1> QED
  BY <1>3, <1>4, <1>5, <1>6

LEMMA PageAnswered ==
    ASSUME NEW d, NEW k, NEW R, NEW M, NEW F, FeedSound(d, k, R, M, F), F.more.pc = "asked",
           NEW N \in SUBSET RowIds, N \subseteq R \cap AsksFor(d, F.more.key), F.more.key = k => N = M,
           NEW m \in AnsweredPage, m.key = F.more.key, m.fresh = F.more.fresh, m.page = Newest(BeforeCursor(N, F.more.cursor)),
           NEW G \in FeedRec, G.more = m, G.moved = F.moved,
           G.polls = F.polls, G.head = F.head, G.older = F.older, G.full = F.full, G.asOf = F.asOf, G.strayed = F.strayed
    PROVE  FeedSound(d, k, R, M, G)
<1> USE DEF FeedSound
<1>2. G.more.pc = "answered"
  BY DEF AnsweredPage
<1>1. Shown(G) = Shown(F) /\ (Ends(G) <=> Ends(F)) /\ (InUse(G) <=> InUse(F))
  BY <1>2 DEF Shown, Ends, InUse
<1>3. Owns(d, k, R, G)
  <2>1. BeforeCursor(N, F.more.cursor) \in SUBSET N
    BY DEF BeforeCursor
  <2>2. m.page \subseteq N
    BY <2>1, NewestIs
  <2> QED
    BY <1>1, <1>2, <2>2 DEF Owns
<1>4. SameRows(M, G)
  BY <1>1 DEF SameRows
<1>5. Continues(G)
  <2> SUFFICES ASSUME ~F.moved, ~F.strayed, InUse(F)
               PROVE  Shown(F) # {} /\ m.page = Newest(BeforeCursor(F.asOf, LastOf(Shown(F))))
    BY <1>1, <1>2 DEF Continues
  <2>1. N = M /\ F.asOf = M
    BY DEF Owns, SameRows
  <2> QED
    BY <2>1 DEF Continues
<1>6. HasNoGap(G)
  BY <1>1 DEF HasNoGap, Reaches
<1> QED
  BY <1>3, <1>4, <1>5, <1>6

LEMMA PageDropped ==
    ASSUME NEW d, NEW k, NEW R, NEW M, NEW F, FeedSound(d, k, R, M, F),
           NEW G \in FeedRec, G.more = NoMore, G.moved = F.moved,
           G.polls = F.polls, G.head = F.head, G.older = F.older, G.full = F.full, G.asOf = F.asOf, G.strayed = F.strayed
    PROVE  FeedSound(d, k, R, M, G)
<1> USE DEF FeedSound
<1>1. Shown(G) = Shown(F) /\ (Ends(G) <=> Ends(F)) /\ ~InUse(G) /\ G.more.pc = "idle"
  BY DEF Shown, Ends, InUse, NoMore
<1>3. Owns(d, k, R, G)
  BY <1>1 DEF Owns
<1>4. SameRows(M, G)
  BY <1>1 DEF SameRows
<1>5. Continues(G)
  BY <1>1 DEF Continues
<1>6. HasNoGap(G)
  BY <1>1 DEF HasNoGap, Reaches
<1> QED
  BY <1>3, <1>4, <1>5, <1>6

LEMMA PageLanded ==
    ASSUME NEW d, NEW k, NEW R, NEW M, NEW F, FeedSound(d, k, R, M, F), F.more.pc = "answered", F.more.key = k,
           NEW G \in FeedRec, G.more = NoMore, G.moved = F.moved, G.older = F.older \cup F.more.page,
           G.full = IF Cardinality(F.more.page) >= FeedPage THEN "full" ELSE "short",
           G.strayed <=> F.strayed \/ ~F.more.fresh,
           G.polls = F.polls, G.head = F.head, G.asOf = F.asOf
    PROVE  FeedSound(d, k, R, M, G)
<1> USE DEF FeedSound
<1>1. ~InUse(G) /\ G.more.pc = "idle" /\ G.full # "none"
  BY DEF InUse, NoMore
<1>2. F.more.key \in FeedKeys /\ k # NoKey
  BY FeedRecIs, MoreIs, FeedAssumption
<1>u. F.more.fresh => InUse(F)
  BY DEF InUse
<1>3. Owns(d, k, R, G)
  BY <1>1, <1>2, <1>u DEF Owns
<1>4. SameRows(M, G)
  BY <1>1, <1>u DEF SameRows
<1>5. Continues(G)
  BY <1>1 DEF Continues
<1>6. HasNoGap(G)
  <2> SUFFICES ASSUME ~G.moved, ~G.strayed, G.head # Unread PROVE Reaches(G)
    BY DEF HasNoGap
  <2>1. ~F.moved /\ ~F.strayed /\ F.head # Unread /\ InUse(F)
    BY <1>u
  <2>2. Reaches(F) /\ Shown(F) # {} /\ F.more.page = Newest(BeforeCursor(F.asOf, LastOf(Shown(F))))
    BY <2>1 DEF HasNoGap, Continues
  <2> QED
    BY <2>1, <2>2, PageReaches
<1> QED
  BY <1>3, <1>4, <1>5, <1>6

LEMMA RowsChanged ==
    ASSUME NEW d, NEW k, NEW R, NEW M, NEW F, FeedSound(d, k, R, M, F), NEW S, R \subseteq S, NEW N,
           NEW G \in FeedRec, G.moved <=> F.moved \/ F.full # "none" \/ F.polls # {} \/ F.more.pc # "idle",
           G.polls = F.polls, G.head = F.head, G.older = F.older, G.full = F.full, G.more = F.more, G.asOf = F.asOf,
           G.strayed = F.strayed
    PROVE  FeedSound(d, k, S, N, G)
<1> USE DEF FeedSound
<1>1. Shown(G) = Shown(F) /\ (Ends(G) <=> Ends(F)) /\ (InUse(G) <=> InUse(F)) /\ (InUse(F) => F.more.pc # "idle")
  BY DEF Shown, Ends, InUse
<1>3. Owns(d, k, S, G)
  BY <1>1 DEF Owns
<1>4. SameRows(N, G)
  BY <1>1 DEF SameRows
<1>5. Continues(G)
  BY <1>1 DEF Continues
<1>6. HasNoGap(G)
  BY <1>1 DEF HasNoGap, Reaches
<1> QED
  BY <1>3, <1>4, <1>5, <1>6

LEMMA StartsOver ==
    ASSUME NEW d, NEW k, NEW R, NEW M, NEW F, FeedSound(d, k, R, M, F), NEW l, NEW N,
           NEW m \in {NoMore} \cup AskedPage \cup AnsweredPage, NEW G \in FeedRec, G.more = m,
           (m = F.more /\ m.pc = "idle") \/ (~m.fresh /\ m.pc = F.more.pc /\ m.key = F.more.key
                                             /\ (m.pc = "answered" => m.page = F.more.page)),
           G.head = Unread, G.older = {}, G.full = "none", G.polls = {}, G.asOf = {}, ~G.moved, ~G.strayed
    PROVE  FeedSound(d, l, R, N, G)
<1> USE DEF FeedSound
<1>1. ~InUse(G)
  BY DEF InUse
<1>3. Owns(d, l, R, G)
  BY <1>1 DEF Owns
<1>4. SameRows(N, G)
  BY <1>1 DEF SameRows
<1>5. Continues(G)
  BY <1>1 DEF Continues
<1>6. HasNoGap(G)
  BY <1>1 DEF HasNoGap, Reaches
<1> QED
  BY <1>3, <1>4, <1>5, <1>6

-----------------------------------------------------------------------------
(***************************************************************************)
(* The inductive invariant: types, what is known of every feed, and that   *)
(* what is selected is on screen.                                          *)
(***************************************************************************)
FeedTypes ==
    /\ rows \subseteq RowIds /\ resolved \subseteq rows /\ filters \in FilterSets
    /\ head \in [Feeds -> (SUBSET RowIds) \cup {Unread}] /\ older \in [Feeds -> SUBSET RowIds]
    /\ olderFull \in [Feeds -> {"none", "full", "short"}]
    /\ polls \in [Feeds -> SUBSET PollRec] /\ more \in [Feeds -> {NoMore} \cup AskedPage \cup AnsweredPage]
    /\ asOf \in [Feeds -> SUBSET RowIds] /\ moved \in [Feeds -> BOOLEAN] /\ strayed \in [Feeds -> BOOLEAN]
    /\ selected \subseteq rows
    /\ bulk \in {NoBulk} \cup [pc : {"sent"}, todo : SUBSET RowIds]
    /\ bulk.pc = "sent" => bulk.todo \subseteq rows

View(d) == [head |-> head[d], older |-> older[d], full |-> olderFull[d], polls |-> polls[d], more |-> more[d],
            asOf |-> asOf[d], moved |-> moved[d], strayed |-> strayed[d]]
FeedKnown(d) == FeedSound(d, Key(d), rows, Matching(d, Key(d)), View(d))

FeedIInv == FeedTypes /\ (\A d \in Feeds : FeedKnown(d)) /\ SelectedOnScreen

NowIs(d, F) ==
    /\ F = View(d) /\ F.head = head[d] /\ F.older = older[d] /\ F.full = olderFull[d] /\ F.polls = polls[d]
    /\ F.more = more[d] /\ F.asOf = asOf[d] /\ F.moved = moved[d] /\ F.strayed = strayed[d]

LEMMA ViewIs ==
    ASSUME FeedTypes, NEW d \in Feeds
    PROVE  \E F \in FeedRec : NowIs(d, F)
<1>1. /\ head[d] \in (SUBSET RowIds) \cup {Unread} /\ older[d] \in SUBSET RowIds /\ olderFull[d] \in {"none", "full", "short"}
      /\ polls[d] \in SUBSET PollRec /\ more[d] \in {NoMore} \cup AskedPage \cup AnsweredPage
      /\ asOf[d] \in SUBSET RowIds /\ moved[d] \in BOOLEAN /\ strayed[d] \in BOOLEAN
  BY DEF FeedTypes
<1>2. NowIs(d, View(d))
  BY DEF NowIs, View
<1> QED
  BY <1>1, <1>2 DEF View, FeedRec

LEMMA ViewIsNext ==
    ASSUME FeedTypes', NEW d \in Feeds
    PROVE  \E G \in FeedRec : NowIs(d, G)'
<1>1. /\ head'[d] \in (SUBSET RowIds) \cup {Unread} /\ older'[d] \in SUBSET RowIds /\ olderFull'[d] \in {"none", "full", "short"}
      /\ polls'[d] \in SUBSET PollRec /\ more'[d] \in {NoMore} \cup AskedPage \cup AnsweredPage
      /\ asOf'[d] \in SUBSET RowIds /\ moved'[d] \in BOOLEAN /\ strayed'[d] \in BOOLEAN
  BY DEF FeedTypes
<1>2. PICK G : G = View(d)'
  OBVIOUS
<1>3. NowIs(d, G)'
  BY <1>2 DEF NowIs, View
<1>4. G \in FeedRec
  BY <1>1, <1>2 DEF View, FeedRec
<1> QED
  BY <1>3, <1>4

LEMMA MatchingIs ==
    ASSUME rows \subseteq RowIds, NEW d, NEW k
    PROVE  Matching(d, k) \in SUBSET RowIds /\ Matching(d, k) \subseteq rows \cap AsksFor(d, k)
BY DEF Matching, AsksFor

LEMMA LoadedIs ==
    ASSUME FeedTypes, NEW d \in Feeds, FeedKnown(d)
    PROVE  /\ Loaded(d) = Shown(View(d)) /\ (Exhausted(d) <=> Ends(View(d))) /\ LastLoaded(d) = LastOf(Loaded(d))
           /\ Loaded(d) \in SUBSET RowIds /\ Loaded(d) \subseteq rows /\ Loaded(d) \subseteq AsksFor(d, Key(d))
           /\ older[d] \subseteq rows /\ asOf[d] \subseteq rows
           /\ head[d] = Unread \/ (head[d] \in SUBSET RowIds /\ head[d] \subseteq rows)
<1>1. PICK F \in FeedRec : NowIs(d, F)
  BY ViewIs
<1>2. Owns(d, Key(d), rows, F)
  BY <1>1 DEF NowIs, FeedKnown, FeedSound
<1>3. F.asOf \in SUBSET RowIds
  BY FeedRecIs
<1>4. F.head # Unread => F.head \subseteq F.asOf /\ F.head \in SUBSET RowIds
  BY <1>2, <1>3, NewestIs DEF Owns
<1>5. Loaded(d) = Shown(F) /\ (Exhausted(d) <=> Ends(F)) /\ LastLoaded(d) = LastOf(Loaded(d))
  BY <1>1 DEF NowIs, Loaded, Shown, Exhausted, Ends, LastLoaded, LastOf
<1>6. F.older \subseteq rows \cap AsksFor(d, Key(d)) /\ F.asOf \subseteq rows \cap AsksFor(d, Key(d))
  BY <1>2 DEF Owns
<1>7. Shown(F) \subseteq rows \cap AsksFor(d, Key(d)) /\ Shown(F) \in SUBSET RowIds
  BY <1>4, <1>6, FeedRecIs DEF Shown
<1> QED
  BY <1>1, <1>4, <1>5, <1>6, <1>7 DEF NowIs

\* What is on the page is loaded by a feed the filters ask for.
LEMMA OnPageIs ==
    ASSUME FeedIInv
    PROVE  /\ OnPage \subseteq rows
           /\ \A r \in OnPage : \E d \in Wanted : r \in Loaded(d) /\ RowOf[r].feed = d
<1>1. \A r \in OnPage : \E d \in Wanted : r \in Loaded(d)
  <2>1. OnPage \subseteq Changes \cup Reads
    BY DEF OnPage, Collapsed
  <2> QED
    BY <2>1 DEF Changes, Reads
<1>2. \A d \in Wanted : d \in Feeds
  BY DEF Wanted, WantedBy, FeedIInv, FeedTypes
<1>3. \A d \in Wanted : Loaded(d) \subseteq rows /\ Loaded(d) \subseteq AsksFor(d, Key(d))
  BY <1>2, LoadedIs DEF FeedIInv
<1> QED
  BY <1>1, <1>3 DEF AsksFor

LEMMA WantedIs ==
    ASSUME FeedTypes
    PROVE  /\ \A d : d \in Wanted <=> d \in Feeds /\ Key(d) # NoKey
           /\ \A d \in Feeds : Key(d) \in FeedKeys \cup {NoKey}
           /\ AlertsFeed \in Wanted => Wanted = {AlertsFeed}
<1>1. filters \in FilterSets
  BY DEF FeedTypes
<1>2. Wanted = {d \in Feeds : Key(d) # NoKey}
  BY <1>1 DEF Wanted, WantedBy, Key
<1>3. \A d \in Feeds : Key(d) \in FeedKeys \cup {NoKey}
  BY <1>1, FeedAssumption DEF Key
<1>4. AlertsFeed \in Wanted => \A d \in Feeds \ {AlertsFeed} : Key(d) = NoKey
  BY <1>1, <1>2, FeedAssumption DEF Key
<1> QED
  BY <1>2, <1>3, <1>4

LEMMA FeedIInvInit == FeedInit => FeedIInv
<1> SUFFICES ASSUME FeedInit PROVE FeedIInv
  OBVIOUS
<1>1. FeedTypes
  BY DEF FeedInit, FeedTypes, NoBulk
<1>2. SelectedOnScreen
  BY FeedAssumption DEF FeedInit, SelectedOnScreen
<1>3. ASSUME NEW d \in Feeds PROVE FeedKnown(d)
  <2>0. PICK F \in FeedRec : NowIs(d, F)
    BY <1>1, ViewIs
  <2>1. /\ F = View(d) /\ F.head = Unread /\ F.older = {} /\ F.full = "none" /\ F.polls = {}
        /\ F.more = NoMore /\ F.asOf = {} /\ ~F.moved /\ ~F.strayed
    BY <2>0 DEF FeedInit, NowIs
  <2>2. ~InUse(F) /\ F.more.pc = "idle"
    BY <2>1 DEF InUse, NoMore
  <2>3. Owns(d, Key(d), rows, F) /\ SameRows(Matching(d, Key(d)), F) /\ Continues(F) /\ HasNoGap(F)
    BY <2>1, <2>2 DEF Owns, SameRows, Continues, HasNoGap
  <2> QED
    BY <2>1, <2>3 DEF FeedKnown, FeedSound
<1> QED
  BY <1>1, <1>2, <1>3 DEF FeedIInv

-----------------------------------------------------------------------------
(* What a step leaves alone. *)

LEMMA FeedRests ==
    ASSUME NEW d \in Feeds, FeedKnown(d), UNCHANGED <<rows, resolved, filters>>,
           head'[d] = head[d], older'[d] = older[d], olderFull'[d] = olderFull[d], polls'[d] = polls[d],
           more'[d] = more[d], asOf'[d] = asOf[d], moved'[d] = moved[d], strayed'[d] = strayed[d]
    PROVE  FeedKnown(d)'
<1>1. View(d)' = View(d)
  BY DEF View
<1>2. Key(d)' = Key(d) /\ Matching(d, Key(d))' = Matching(d, Key(d))
  BY DEF Key, Matching
<1> QED
  BY <1>1, <1>2 DEF FeedKnown

LEMMA ScreenStays ==
    ASSUME SelectedOnScreen, head'[AlertsFeed] = head[AlertsFeed], older'[AlertsFeed] = older[AlertsFeed],
           selected' \subseteq selected
    PROVE  SelectedOnScreen'
BY DEF SelectedOnScreen, Loaded

\* Rows come, or are resolved.
LEMMA RowsMove ==
    ASSUME FeedIInv, FeedTypes', rows \subseteq rows', filters' = filters, Noted,
           UNCHANGED <<head, older, olderFull, polls, more, asOf, strayed>>, NEW d \in Feeds
    PROVE  FeedKnown(d)'
<1>1. PICK F \in FeedRec : NowIs(d, F)
  BY ViewIs DEF FeedIInv
<1>2. PICK G \in FeedRec : NowIs(d, G)'
  BY ViewIsNext
<1>3. G.moved <=> F.moved \/ F.full # "none" \/ F.polls # {} \/ F.more.pc # "idle"
  BY <1>1, <1>2 DEF NowIs, Noted
<1>4. PICK R : R = rows
  OBVIOUS
<1>5. PICK S : S = rows' /\ R \subseteq S
  BY <1>4
<1>6. PICK k : k = Key(d) /\ k = Key(d)'
  BY DEF Key
<1>7. PICK M : M = Matching(d, Key(d))
  OBVIOUS
<1>8. PICK N : N = Matching(d, Key(d))'
  OBVIOUS
<1>9. FeedSound(d, k, R, M, F)
  BY <1>1, <1>4, <1>6, <1>7 DEF NowIs, FeedIInv, FeedKnown
<1>e. /\ G.polls = F.polls /\ G.head = F.head /\ G.older = F.older /\ G.full = F.full /\ G.more = F.more
      /\ G.asOf = F.asOf /\ G.strayed = F.strayed
  BY <1>1, <1>2 DEF NowIs
<1>f. F \in FeedRec /\ G \in FeedRec /\ R \subseteq S
  BY <1>1, <1>2, <1>5
<1>10. FeedSound(d, k, S, N, G)
  BY ONLY <1>3, <1>e, <1>f, <1>9, RowsChanged
<1> QED
  BY <1>2, <1>5, <1>6, <1>8, <1>10 DEF NowIs, FeedKnown

-----------------------------------------------------------------------------
(* One feed's steps. *)

\* The two views of a feed whose question stays.
LEMMA OneFeedMoves ==
    ASSUME FeedIInv, FeedTypes', UNCHANGED <<rows, resolved, filters>>, NEW d \in Feeds, FeedKnown(d)',
           \A e \in Feeds \ {d} : /\ head'[e] = head[e] /\ older'[e] = older[e] /\ olderFull'[e] = olderFull[e]
                                  /\ polls'[e] = polls[e] /\ more'[e] = more[e] /\ asOf'[e] = asOf[e]
                                  /\ moved'[e] = moved[e] /\ strayed'[e] = strayed[e],
           SelectedOnScreen'
    PROVE  FeedIInv'
<1>1. ASSUME NEW e \in Feeds \ {d} PROVE FeedKnown(e)'
  BY FeedRests DEF FeedIInv
<1> QED
  BY <1>1 DEF FeedIInv

LEMMA PollsStep ==
    ASSUME FeedIInv, NEW d \in Feeds, Polls(d)
    PROVE  FeedIInv'
<1>1. PICK M \in SUBSET RowIds : M = Matching(d, Key(d)) /\ M \subseteq rows \cap AsksFor(d, Key(d))
  BY MatchingIs DEF FeedIInv, FeedTypes
<1>2. PICK p \in PollRec : p = [page |-> Newest(M), all |-> M] /\ p.page = Newest(M) /\ p.all = M
  <2>1. PICK n \in SUBSET RowIds : n = Newest(M)
    BY NewestIs
  <2>2. [page |-> n, all |-> M] \in PollRec
    BY DEF PollRec
  <2> QED
    BY <2>1, <2>2
<1>3. /\ polls' = [polls EXCEPT ![d] = @ \cup {p}]
      /\ UNCHANGED <<rows, resolved, filters, head, older, olderFull, more, asOf, moved, strayed, selected, bulk>>
      /\ Key(d) # NoKey
  <2>1. d \in Wanted /\ FeedTypes
    BY DEF Polls, FeedIInv
  <2> QED
    BY <1>1, <1>2, <2>1, WantedIs DEF Polls
<1>4. polls \in [Feeds -> SUBSET PollRec]
  BY DEF FeedIInv, FeedTypes
<1>5. FeedTypes'
  BY <1>3, <1>4 DEF FeedIInv, FeedTypes
<1>6. PICK F \in FeedRec : NowIs(d, F)
  BY ViewIs DEF FeedIInv
<1>7. PICK G \in FeedRec : NowIs(d, G)'
  BY <1>5, ViewIsNext
<1>8. PICK k : k = Key(d) /\ k = Key(d)' /\ M = Matching(d, Key(d))'
  BY <1>1, <1>3 DEF Key, Matching
<1>9. PICK R : R = rows /\ R = rows'
  BY <1>3
<1>10. /\ G.polls = F.polls \cup {p} /\ G.head = F.head /\ G.older = F.older /\ G.full = F.full
       /\ G.more = F.more /\ G.asOf = F.asOf /\ G.moved = F.moved /\ G.strayed = F.strayed
  BY <1>3, <1>4, <1>6, <1>7 DEF NowIs
<1>11. FeedSound(d, k, R, M, F) /\ k # NoKey /\ M \subseteq R \cap AsksFor(d, k)
  BY <1>1, <1>3, <1>6, <1>8, <1>9 DEF NowIs, FeedIInv, FeedKnown
<1>12. p.page = Newest(M) /\ p.all = M
  BY <1>2
<1>13. FeedSound(d, k, R, M, G)
  BY ONLY <1>10, <1>11, <1>12, F \in FeedRec, G \in FeedRec, p \in PollRec, M \in SUBSET RowIds, PollSent
<1>14. FeedKnown(d)'
  BY <1>7, <1>8, <1>9, <1>13 DEF NowIs, FeedKnown
<1>15. SelectedOnScreen'
  BY <1>3, ScreenStays DEF FeedIInv
<1> QED
  BY <1>3, <1>4, <1>5, <1>14, <1>15, OneFeedMoves

LEMMA PollLandsStep ==
    ASSUME FeedIInv, NEW d \in Feeds, NEW p \in polls[d], PollLands(d, p)
    PROVE  FeedIInv'
<1>1. /\ polls' = [polls EXCEPT ![d] = @ \ {p}] /\ head' = [head EXCEPT ![d] = p.page]
      /\ asOf' = [asOf EXCEPT ![d] = p.all]
      /\ selected' = OnScreen(d, p.page, older[d])
      /\ UNCHANGED <<rows, resolved, filters, older, olderFull, more, moved, strayed, bulk>>
  BY DEF PollLands
<1>2. /\ polls \in [Feeds -> SUBSET PollRec] /\ head \in [Feeds -> (SUBSET RowIds) \cup {Unread}]
      /\ asOf \in [Feeds -> SUBSET RowIds] /\ older \in [Feeds -> SUBSET RowIds] /\ selected \subseteq rows
  BY DEF FeedIInv, FeedTypes
<1>3. p \in PollRec /\ p.page \in SUBSET RowIds /\ p.all \in SUBSET RowIds /\ p.page # Unread
  <2>1. p \in PollRec
    BY <1>2
  <2> QED
    BY <2>1, UnreadIsNoHead DEF PollRec
<1>4. selected' \subseteq selected /\ (d = AlertsFeed => selected' \subseteq p.page \cup older[d])
  BY <1>1, <1>3 DEF OnScreen
<1>5. FeedTypes'
  BY <1>1, <1>2, <1>3, <1>4 DEF FeedIInv, FeedTypes
<1>6. PICK F \in FeedRec : NowIs(d, F)
  BY ViewIs DEF FeedIInv
<1>7. PICK G \in FeedRec : NowIs(d, G)'
  BY <1>5, ViewIsNext
<1>8. PICK k : k = Key(d) /\ k = Key(d)'
  BY <1>1 DEF Key
<1>m. PICK M : M = Matching(d, Key(d)) /\ M = Matching(d, Key(d))'
  BY <1>1 DEF Matching, Key
<1>9. PICK R : R = rows /\ R = rows'
  BY <1>1
<1>10. /\ G.polls = F.polls \ {p} /\ G.head = p.page /\ G.asOf = p.all /\ G.older = F.older /\ G.full = F.full
       /\ G.more = F.more /\ G.moved = F.moved /\ G.strayed = F.strayed /\ p \in F.polls
  BY <1>1, <1>2, <1>6, <1>7 DEF NowIs
<1>11. FeedSound(d, k, R, M, F)
  BY <1>6, <1>8, <1>9, <1>m DEF NowIs, FeedIInv, FeedKnown
<1>13. FeedSound(d, k, R, M, G)
  BY ONLY <1>10, <1>11, F \in FeedRec, G \in FeedRec, PollLanded
<1>14. FeedKnown(d)'
  BY <1>7, <1>8, <1>9, <1>m, <1>13 DEF NowIs, FeedKnown
<1>15. SelectedOnScreen'
  <2>1. CASE d = AlertsFeed
    BY <1>1, <1>2, <1>3, <1>4, <2>1 DEF SelectedOnScreen, Loaded
  <2>2. CASE d # AlertsFeed
    BY <1>1, <1>2, <1>4, <2>2, ScreenStays, FeedAssumption DEF FeedIInv
  <2> QED
    BY <2>1, <2>2
<1>16. \A e \in Feeds \ {d} : head'[e] = head[e] /\ polls'[e] = polls[e] /\ asOf'[e] = asOf[e]
  BY <1>1, <1>2
<1> QED
  BY <1>1, <1>5, <1>14, <1>15, <1>16, OneFeedMoves

LEMMA PollFailsStep ==
    ASSUME FeedIInv, NEW d \in Feeds, NEW p \in polls[d], PollFails(d, p)
    PROVE  FeedIInv'
<1>1. /\ polls' = [polls EXCEPT ![d] = @ \ {p}]
      /\ UNCHANGED <<rows, resolved, filters, head, older, olderFull, more, asOf, moved, strayed, selected, bulk>>
  BY DEF PollFails
<1>2. polls \in [Feeds -> SUBSET PollRec]
  BY DEF FeedIInv, FeedTypes
<1>5. FeedTypes'
  BY <1>1, <1>2 DEF FeedIInv, FeedTypes
<1>6. PICK F \in FeedRec : NowIs(d, F)
  BY ViewIs DEF FeedIInv
<1>7. PICK G \in FeedRec : NowIs(d, G)'
  BY <1>5, ViewIsNext
<1>8. PICK k : k = Key(d) /\ k = Key(d)'
  BY <1>1 DEF Key
<1>m. PICK M : M = Matching(d, Key(d)) /\ M = Matching(d, Key(d))'
  BY <1>1 DEF Matching, Key
<1>9. PICK R : R = rows /\ R = rows'
  BY <1>1
<1>10. /\ G.polls \subseteq F.polls /\ G.head = F.head /\ G.asOf = F.asOf /\ G.older = F.older /\ G.full = F.full
       /\ G.more = F.more /\ G.moved = F.moved /\ G.strayed = F.strayed
  BY <1>1, <1>2, <1>6, <1>7 DEF NowIs
<1>11. FeedSound(d, k, R, M, F)
  BY <1>6, <1>8, <1>9, <1>m DEF NowIs, FeedIInv, FeedKnown
<1>13. FeedSound(d, k, R, M, G)
  BY ONLY <1>10, <1>11, F \in FeedRec, G \in FeedRec, PollDropped
<1>14. FeedKnown(d)'
  BY <1>7, <1>8, <1>9, <1>m, <1>13 DEF NowIs, FeedKnown
<1>15. SelectedOnScreen'
  BY <1>1, ScreenStays DEF FeedIInv
<1> QED
  BY <1>1, <1>2, <1>5, <1>14, <1>15, OneFeedMoves

LEMMA AnsweredStep ==
    ASSUME FeedIInv, NEW d \in Feeds, Answered(d)
    PROVE  FeedIInv'
<1>0. rows \subseteq RowIds /\ more \in [Feeds -> {NoMore} \cup AskedPage \cup AnsweredPage]
  BY DEF FeedIInv, FeedTypes
<1>1. PICK a \in AskedPage : a = more[d] /\ a.pc = "asked" /\ a.key \in FeedKeys /\ a.cursor \in RowIds /\ a.fresh \in BOOLEAN
  BY <1>0, MoreIs DEF Answered
<1>2. PICK N \in SUBSET RowIds : N = Matching(d, a.key) /\ N \subseteq rows \cap AsksFor(d, a.key)
  BY <1>0, MatchingIs
<1>3. PICK n \in SUBSET RowIds : n = Newest(BeforeCursor(N, a.cursor))
  <2>1. BeforeCursor(N, a.cursor) \in SUBSET RowIds
    BY DEF BeforeCursor
  <2> QED
    BY <2>1, NewestIs
<1>4. PICK m \in AnsweredPage : /\ m = [pc |-> "answered", key |-> a.key, fresh |-> a.fresh, page |-> n]
                                /\ m.key = a.key /\ m.fresh = a.fresh /\ m.page = n
  <2>1. [pc |-> "answered", key |-> a.key, fresh |-> a.fresh, page |-> n] \in AnsweredPage
    BY <1>1 DEF AnsweredPage
  <2> QED
    BY <2>1
<1>5. /\ more' = [more EXCEPT ![d] = m]
      /\ UNCHANGED <<rows, resolved, filters, head, older, olderFull, polls, asOf, moved, strayed, selected, bulk>>
  BY <1>1, <1>2, <1>3, <1>4 DEF Answered
<1>6. FeedTypes'
  BY <1>0, <1>5 DEF FeedIInv, FeedTypes
<1>7. PICK F \in FeedRec : NowIs(d, F)
  BY ViewIs DEF FeedIInv
<1>8. PICK G \in FeedRec : NowIs(d, G)'
  BY <1>6, ViewIsNext
<1>9. PICK k : k = Key(d) /\ k = Key(d)'
  BY <1>5 DEF Key
<1>10. PICK M : M = Matching(d, k) /\ M = Matching(d, Key(d)) /\ M = Matching(d, Key(d))'
  BY <1>5, <1>9 DEF Matching, Key
<1>11. PICK R : R = rows /\ R = rows'
  BY <1>5
<1>12. /\ F.more.pc = "asked" /\ F.more = a /\ G.more = m /\ G.moved = F.moved /\ G.polls = F.polls /\ G.head = F.head
       /\ G.older = F.older /\ G.full = F.full /\ G.asOf = F.asOf /\ G.strayed = F.strayed
  BY <1>0, <1>1, <1>5, <1>7, <1>8 DEF NowIs
<1>13. N \subseteq R \cap AsksFor(d, F.more.key) /\ (F.more.key = k => N = M)
  BY <1>2, <1>10, <1>11, <1>12
<1>14. m.key = F.more.key /\ m.fresh = F.more.fresh /\ m.page = Newest(BeforeCursor(N, F.more.cursor))
  BY <1>3, <1>4, <1>12
<1>15. FeedSound(d, k, R, M, F)
  BY <1>7, <1>9, <1>10, <1>11 DEF NowIs, FeedIInv, FeedKnown
<1>16. FeedSound(d, k, R, M, G)
  BY ONLY <1>12, <1>13, <1>14, <1>15, F \in FeedRec, G \in FeedRec, m \in AnsweredPage, N \in SUBSET RowIds, PageAnswered
<1>17. FeedKnown(d)'
  BY <1>8, <1>9, <1>10, <1>11, <1>16 DEF NowIs, FeedKnown
<1>18. SelectedOnScreen'
  BY <1>5, ScreenStays DEF FeedIInv
<1> QED
  BY <1>0, <1>5, <1>6, <1>17, <1>18, OneFeedMoves

LEMMA MoreFailsStep ==
    ASSUME FeedIInv, NEW d \in Feeds, MoreFails(d)
    PROVE  FeedIInv'
<1>0. more \in [Feeds -> {NoMore} \cup AskedPage \cup AnsweredPage]
  BY DEF FeedIInv, FeedTypes
<1>5. /\ more' = [more EXCEPT ![d] = NoMore]
      /\ UNCHANGED <<rows, resolved, filters, head, older, olderFull, polls, asOf, moved, strayed, selected, bulk>>
  BY DEF MoreFails
<1>6. FeedTypes'
  BY <1>0, <1>5 DEF FeedIInv, FeedTypes
<1>7. PICK F \in FeedRec : NowIs(d, F)
  BY ViewIs DEF FeedIInv
<1>8. PICK G \in FeedRec : NowIs(d, G)'
  BY <1>6, ViewIsNext
<1>9. PICK k : k = Key(d) /\ k = Key(d)'
  BY <1>5 DEF Key
<1>10. PICK M : M = Matching(d, Key(d)) /\ M = Matching(d, Key(d))'
  BY <1>5 DEF Matching, Key
<1>11. PICK R : R = rows /\ R = rows'
  BY <1>5
<1>12. /\ G.more = NoMore /\ G.moved = F.moved /\ G.polls = F.polls /\ G.head = F.head
       /\ G.older = F.older /\ G.full = F.full /\ G.asOf = F.asOf /\ G.strayed = F.strayed
  BY <1>0, <1>5, <1>7, <1>8 DEF NowIs
<1>15. FeedSound(d, k, R, M, F)
  BY <1>7, <1>9, <1>10, <1>11 DEF NowIs, FeedIInv, FeedKnown
<1>16. FeedSound(d, k, R, M, G)
  BY ONLY <1>12, <1>15, F \in FeedRec, G \in FeedRec, PageDropped
<1>17. FeedKnown(d)'
  BY <1>8, <1>9, <1>10, <1>11, <1>16 DEF NowIs, FeedKnown
<1>18. SelectedOnScreen'
  BY <1>5, ScreenStays DEF FeedIInv
<1> QED
  BY <1>0, <1>5, <1>6, <1>17, <1>18, OneFeedMoves

LEMMA PageLandsStep ==
    ASSUME FeedIInv, NEW d \in Feeds, PageLands(d)
    PROVE  FeedIInv'
<1>0. /\ more \in [Feeds -> {NoMore} \cup AskedPage \cup AnsweredPage] /\ older \in [Feeds -> SUBSET RowIds]
      /\ olderFull \in [Feeds -> {"none", "full", "short"}] /\ strayed \in [Feeds -> BOOLEAN]
      /\ head \in [Feeds -> (SUBSET RowIds) \cup {Unread}]
  BY DEF FeedIInv, FeedTypes
<1>1. PICK m \in AnsweredPage : m = more[d] /\ m.pc = "answered" /\ m.page \in SUBSET RowIds /\ m.fresh \in BOOLEAN
  BY <1>0, MoreIs DEF PageLands
<1>2. /\ more' = [more EXCEPT ![d] = NoMore] /\ selected' = OnScreen(d, head[d], older'[d])
      /\ UNCHANGED <<rows, resolved, filters, head, polls, asOf, moved, bulk>>
  BY DEF PageLands
<1>3. IF m.key = Key(d)
      THEN /\ older' = [older EXCEPT ![d] = @ \cup m.page]
           /\ olderFull' = [olderFull EXCEPT ![d] = IF Cardinality(m.page) >= FeedPage THEN "full" ELSE "short"]
           /\ strayed' = [strayed EXCEPT ![d] = @ \/ ~m.fresh]
      ELSE UNCHANGED <<older, olderFull, strayed>>
  BY <1>1 DEF PageLands, StillWanted
<1>4. selected' \subseteq selected
      /\ (d = AlertsFeed /\ head[d] # Unread => selected' \subseteq head[d] \cup older'[d])
  BY <1>2 DEF OnScreen
<1>5. /\ older' \in [Feeds -> SUBSET RowIds] /\ olderFull' \in [Feeds -> {"none", "full", "short"}]
      /\ strayed' \in [Feeds -> BOOLEAN] /\ more' \in [Feeds -> {NoMore} \cup AskedPage \cup AnsweredPage]
      /\ \A e \in Feeds \ {d} : /\ older'[e] = older[e] /\ olderFull'[e] = olderFull[e] /\ strayed'[e] = strayed[e]
                                /\ more'[e] = more[e]
  <2>1. CASE m.key = Key(d)
    <3>1. older' \in [Feeds -> SUBSET RowIds] /\ \A e \in Feeds \ {d} : older'[e] = older[e]
      BY <1>0, <1>1, <1>3, <2>1
    <3>2. olderFull' \in [Feeds -> {"none", "full", "short"}] /\ \A e \in Feeds \ {d} : olderFull'[e] = olderFull[e]
      BY <1>0, <1>3, <2>1
    <3>3. strayed' \in [Feeds -> BOOLEAN] /\ \A e \in Feeds \ {d} : strayed'[e] = strayed[e]
      BY <1>0, <1>1, <1>3, <2>1
    <3>4. more' \in [Feeds -> {NoMore} \cup AskedPage \cup AnsweredPage] /\ \A e \in Feeds \ {d} : more'[e] = more[e]
      BY <1>0, <1>2
    <3> QED
      BY <3>1, <3>2, <3>3, <3>4
  <2>2. CASE m.key # Key(d)
    BY <1>0, <1>2, <1>3, <2>2
  <2> QED
    BY <2>1, <2>2
<1>6. FeedTypes'
  BY <1>2, <1>4, <1>5 DEF FeedIInv, FeedTypes
<1>7. PICK F \in FeedRec : NowIs(d, F)
  BY ViewIs DEF FeedIInv
<1>8. PICK G \in FeedRec : NowIs(d, G)'
  BY <1>6, ViewIsNext
<1>9. PICK k : k = Key(d) /\ k = Key(d)'
  BY <1>2 DEF Key
<1>10. PICK M : M = Matching(d, Key(d)) /\ M = Matching(d, Key(d))'
  BY <1>2 DEF Matching, Key
<1>11. PICK R : R = rows /\ R = rows'
  BY <1>2
<1>12. /\ G.more = NoMore /\ G.moved = F.moved /\ G.polls = F.polls /\ G.head = F.head /\ G.asOf = F.asOf
       /\ F.more = m /\ F.more.pc = "answered"
  BY <1>0, <1>1, <1>2, <1>7, <1>8 DEF NowIs
<1>15. FeedSound(d, k, R, M, F)
  BY <1>7, <1>9, <1>10, <1>11 DEF NowIs, FeedIInv, FeedKnown
<1>16. FeedSound(d, k, R, M, G)
  <2>1. CASE m.key = Key(d)
    <3>1. /\ G.older = F.older \cup F.more.page
          /\ G.full = IF Cardinality(F.more.page) >= FeedPage THEN "full" ELSE "short"
      BY <1>0, <1>3, <1>7, <1>8, <1>12, <2>1 DEF NowIs
    <3>2. G.strayed <=> F.strayed \/ ~F.more.fresh
      <4>1. strayed'[d] = (strayed[d] \/ ~m.fresh)
        BY <1>0, <1>3, <2>1
      <4> QED
        BY <1>7, <1>8, <1>12, <4>1 DEF NowIs
    <3>3. F.more.key = k
      BY <1>9, <1>12, <2>1
    <3> QED
      BY ONLY <1>12, <1>15, <3>1, <3>2, <3>3, F \in FeedRec, G \in FeedRec, PageLanded
  <2>2. CASE m.key # Key(d)
    <3>1. G.older = F.older /\ G.full = F.full /\ G.strayed = F.strayed
      BY <1>3, <1>7, <1>8, <2>2 DEF NowIs
    <3> QED
      BY ONLY <1>12, <1>15, <3>1, F \in FeedRec, G \in FeedRec, PageDropped
  <2> QED
    BY <2>1, <2>2
<1>17. FeedKnown(d)'
  BY <1>8, <1>9, <1>10, <1>11, <1>16 DEF NowIs, FeedKnown
<1>18. SelectedOnScreen'
  <2>1. CASE d = AlertsFeed
    BY <1>2, <1>4, <2>1 DEF SelectedOnScreen, Loaded
  <2>2. CASE d # AlertsFeed
    BY <1>2, <1>4, <1>5, <2>2, ScreenStays, FeedAssumption DEF FeedIInv
  <2> QED
    BY <2>1, <2>2
<1> QED
  BY <1>2, <1>5, <1>6, <1>17, <1>18, OneFeedMoves

\* Older rows are asked for where the list of a feed ends.
LEMMA LoadMoreStep ==
    ASSUME FeedIInv, LoadMore
    PROVE  FeedIInv'
<1>0. /\ more \in [Feeds -> {NoMore} \cup AskedPage \cup AnsweredPage] /\ moved \in [Feeds -> BOOLEAN]
      /\ asOf \in [Feeds -> SUBSET RowIds]
  BY DEF FeedIInv, FeedTypes
<1>1. ASSUME NEW d \in Behind
      PROVE  /\ d \in Feeds /\ Key(d) \in FeedKeys /\ Loaded(d) # {} /\ LastLoaded(d) \in RowIds
             /\ LastLoaded(d) = LastOf(Loaded(d)) /\ Loaded(d) = Shown(View(d))
             /\ [pc |-> "asked", key |-> Key(d), cursor |-> LastLoaded(d), fresh |-> TRUE] \in AskedPage
  <2>1. d \in Wanted /\ Loaded(d) # {}
    BY DEF Behind, Open
  <2>2. d \in Feeds /\ Key(d) \in FeedKeys
    BY <2>1, WantedIs DEF FeedIInv
  <2>3. Loaded(d) = Shown(View(d)) /\ LastLoaded(d) = LastOf(Loaded(d)) /\ Loaded(d) \in SUBSET RowIds
    BY <2>2, LoadedIs DEF FeedIInv
  <2>4. LastOf(Loaded(d)) \in RowIds
    BY <2>1, <2>3, LastIs
  <2> QED
    BY <2>1, <2>2, <2>3, <2>4 DEF AskedPage
<1>2. /\ \A d \in Feeds : more'[d] = IF d \in Behind
                                     THEN [pc |-> "asked", key |-> Key(d), cursor |-> LastLoaded(d), fresh |-> TRUE]
                                     ELSE more[d]
      /\ \A d \in Feeds : moved'[d] = (moved[d] \/ (d \in Behind /\ asOf[d] # Matching(d, Key(d))))
      /\ UNCHANGED <<rows, resolved, filters, head, older, olderFull, polls, asOf, strayed, selected, bulk>>
  BY DEF LoadMore
<1>3. more' \in [Feeds -> {NoMore} \cup AskedPage \cup AnsweredPage] /\ moved' \in [Feeds -> BOOLEAN]
  <2>1. \A d \in Feeds : more'[d] \in {NoMore} \cup AskedPage \cup AnsweredPage
    BY <1>0, <1>1, <1>2
  <2>2. \A d \in Feeds : moved'[d] \in BOOLEAN
    BY <1>0, <1>2
  <2>3. more' = [d \in Feeds |-> more'[d]] /\ moved' = [d \in Feeds |-> moved'[d]]
    BY DEF LoadMore
  <2> QED
    BY <2>1, <2>2, <2>3
<1>4. FeedTypes'
  BY <1>2, <1>3 DEF FeedIInv, FeedTypes
<1>5. ASSUME NEW d \in Feeds PROVE FeedKnown(d)'
  <2>1. CASE d \notin Behind
    <3>1. moved'[d] = moved[d] /\ more'[d] = more[d]
      BY <1>0, <1>2, <2>1
    <3> QED
      BY <1>2, <3>1, FeedRests DEF FeedIInv
  <2>2. CASE d \in Behind
    <3>1. PICK F \in FeedRec : NowIs(d, F)
      BY ViewIs DEF FeedIInv
    <3>2. PICK G \in FeedRec : NowIs(d, G)'
      BY <1>4, ViewIsNext
    <3>3. PICK k \in FeedKeys : k = Key(d) /\ k = Key(d)'
      BY <1>1, <1>2, <2>2 DEF Key
    <3>4. PICK M : M = Matching(d, Key(d)) /\ M = Matching(d, Key(d))'
      BY <1>2 DEF Matching, Key
    <3>5. PICK R : R = rows /\ R = rows'
      BY <1>2
    <3>6. PICK c \in RowIds : c = LastLoaded(d) /\ c = LastOf(Shown(F)) /\ Shown(F) # {}
      BY <1>1, <2>2, <3>1 DEF NowIs
    <3>7. PICK m \in AskedPage : m = [pc |-> "asked", key |-> k, cursor |-> c, fresh |-> TRUE] /\ m.key = k /\ m.cursor = c
      <4>1. [pc |-> "asked", key |-> k, cursor |-> c, fresh |-> TRUE] \in AskedPage
        BY DEF AskedPage
      <4> QED
        BY <4>1
    <3>8. /\ G.more = m /\ G.polls = F.polls /\ G.head = F.head /\ G.older = F.older /\ G.full = F.full
          /\ G.asOf = F.asOf /\ G.strayed = F.strayed
      BY <1>2, <2>2, <3>1, <3>2, <3>3, <3>6, <3>7 DEF NowIs
    <3>9. G.moved <=> F.moved \/ F.asOf # M
      BY <1>2, <2>2, <3>1, <3>2, <3>4 DEF NowIs
    <3>10. FeedSound(d, k, R, M, F)
      BY <3>1, <3>3, <3>4, <3>5 DEF NowIs, FeedIInv, FeedKnown
    <3>11. m.key = k /\ m.cursor = LastOf(Shown(F)) /\ Shown(F) # {}
      BY <3>6, <3>7
    <3>12. FeedSound(d, k, R, M, G)
      BY ONLY <3>8, <3>9, <3>10, <3>11, F \in FeedRec, G \in FeedRec, m \in AskedPage, k \in FeedKeys, PageAsked
    <3> QED
      BY <3>2, <3>3, <3>4, <3>5, <3>12 DEF NowIs, FeedKnown
  <2> QED
    BY <2>1, <2>2
<1>6. SelectedOnScreen'
  BY <1>2, ScreenStays DEF FeedIInv
<1> QED
  BY <1>4, <1>5, <1>6 DEF FeedIInv

\* A feed whose question changes starts over; the others go on.
LEMMA SetFiltersStep ==
    ASSUME FeedIInv, NEW f \in FilterSets, SetFilters(f)
    PROVE  FeedIInv'
<1>0. /\ head \in [Feeds -> (SUBSET RowIds) \cup {Unread}] /\ older \in [Feeds -> SUBSET RowIds]
      /\ olderFull \in [Feeds -> {"none", "full", "short"}]
      /\ polls \in [Feeds -> SUBSET PollRec] /\ more \in [Feeds -> {NoMore} \cup AskedPage \cup AnsweredPage]
      /\ asOf \in [Feeds -> SUBSET RowIds] /\ moved \in [Feeds -> BOOLEAN] /\ strayed \in [Feeds -> BOOLEAN]
  BY DEF FeedIInv, FeedTypes
<1>1. filters' = f /\ UNCHANGED <<rows, resolved, selected, bulk>> /\ \A d \in Feeds : Key(d)' = KeyOf[d][f]
  BY DEF SetFilters, Key
<1>2. /\ head' = [d \in Feeds |-> IF KeyOf[d][f] = Key(d) THEN head[d] ELSE Unread]
      /\ older' = [d \in Feeds |-> IF KeyOf[d][f] = Key(d) THEN older[d] ELSE {}]
      /\ olderFull' = [d \in Feeds |-> IF KeyOf[d][f] = Key(d) THEN olderFull[d] ELSE "none"]
      /\ polls' = [d \in Feeds |-> IF KeyOf[d][f] = Key(d) THEN polls[d] ELSE {}]
      /\ asOf' = [d \in Feeds |-> IF KeyOf[d][f] = Key(d) THEN asOf[d] ELSE {}]
      /\ moved' = [d \in Feeds |-> IF KeyOf[d][f] = Key(d) THEN moved[d] ELSE FALSE]
      /\ strayed' = [d \in Feeds |-> IF KeyOf[d][f] = Key(d) THEN strayed[d] ELSE FALSE]
      /\ more' = [d \in Feeds |-> IF KeyOf[d][f] = Key(d) \/ more[d].pc = "idle" THEN more[d]
                                  ELSE [more[d] EXCEPT !.fresh = FALSE]]
  BY DEF SetFilters
<1>3. ASSUME NEW d \in Feeds, more[d].pc # "idle"
      PROVE  \E m \in AskedPage \cup AnsweredPage :
                /\ m = [more[d] EXCEPT !.fresh = FALSE] /\ ~m.fresh /\ m.pc = more[d].pc /\ m.key = more[d].key
                /\ m.pc = "answered" => m.page = more[d].page
  <2>1. CASE more[d].pc = "asked"
    <3>1. PICK a \in AskedPage : a = more[d]
      BY <1>0, <2>1, MoreIs
    <3>2. [a EXCEPT !.fresh = FALSE] \in AskedPage /\ a.pc = "asked"
      BY DEF AskedPage
    <3>3. PICK m \in AskedPage : m = [a EXCEPT !.fresh = FALSE]
      BY <3>2
    <3>4. ~m.fresh /\ m.pc = a.pc /\ m.key = a.key /\ m.pc # "answered"
      BY <3>2, <3>3 DEF AskedPage
    <3> QED
      BY <3>1, <3>3, <3>4
  <2>2. CASE more[d].pc = "answered"
    <3>1. PICK a \in AnsweredPage : a = more[d]
      BY <1>0, <2>2, MoreIs
    <3>2. [a EXCEPT !.fresh = FALSE] \in AnsweredPage
      BY DEF AnsweredPage
    <3>3. PICK m \in AnsweredPage : m = [a EXCEPT !.fresh = FALSE]
      BY <3>2
    <3>4. ~m.fresh /\ m.pc = a.pc /\ m.key = a.key /\ m.page = a.page
      BY <3>2, <3>3 DEF AnsweredPage
    <3> QED
      BY <3>1, <3>3, <3>4
  <2> QED
    BY <1>0, <1>3, <2>1, <2>2, MoreIs
<1>4. more' \in [Feeds -> {NoMore} \cup AskedPage \cup AnsweredPage]
  <2>1. ASSUME NEW d \in Feeds PROVE more'[d] \in {NoMore} \cup AskedPage \cup AnsweredPage
    <3>1. CASE KeyOf[d][f] = Key(d) \/ more[d].pc = "idle"
      BY <1>0, <1>2, <3>1
    <3>2. CASE ~(KeyOf[d][f] = Key(d) \/ more[d].pc = "idle")
      BY <1>2, <1>3, <3>2
    <3> QED
      BY <3>1, <3>2
  <2>2. more' = [d \in Feeds |-> more'[d]]
    BY <1>2
  <2> QED
    BY <2>1, <2>2
<1>5. /\ head' \in [Feeds -> (SUBSET RowIds) \cup {Unread}] /\ older' \in [Feeds -> SUBSET RowIds]
      /\ olderFull' \in [Feeds -> {"none", "full", "short"}] /\ polls' \in [Feeds -> SUBSET PollRec]
      /\ asOf' \in [Feeds -> SUBSET RowIds]
  BY <1>0, <1>2
<1>6. moved' \in [Feeds -> BOOLEAN] /\ strayed' \in [Feeds -> BOOLEAN]
  BY <1>0, <1>2
<1>7. FeedTypes'
  BY <1>1, <1>4, <1>5, <1>6 DEF FeedIInv, FeedTypes
<1>8. ASSUME NEW d \in Feeds PROVE FeedKnown(d)'
  <2>1. PICK F \in FeedRec : NowIs(d, F)
    BY ViewIs DEF FeedIInv
  <2>2. PICK k : k = Key(d)
    OBVIOUS
  <2>3. PICK R : R = rows /\ R = rows'
    BY <1>1
  <2>4. PICK M : M = Matching(d, Key(d))
    OBVIOUS
  <2>5. FeedSound(d, k, R, M, F)
    BY <2>1, <2>2, <2>3, <2>4 DEF NowIs, FeedIInv, FeedKnown
  <2>6. CASE KeyOf[d][f] = Key(d)
    <3>1. /\ head'[d] = head[d] /\ older'[d] = older[d] /\ olderFull'[d] = olderFull[d] /\ polls'[d] = polls[d]
          /\ more'[d] = more[d] /\ asOf'[d] = asOf[d]
      BY <1>2, <2>6
    <3>2. moved'[d] = moved[d] /\ strayed'[d] = strayed[d]
      BY <1>0, <1>2, <2>6
    <3>3. View(d)' = View(d)
      BY <3>1, <3>2 DEF View
    <3>4. Key(d)' = k
      BY <1>1, <2>2, <2>6
    <3>5. Matching(d, k)' = Matching(d, k)
      BY <1>1 DEF Matching
    <3>6. Matching(d, Key(d))' = M
      BY <2>2, <2>4, <3>4, <3>5
    <3> QED
      BY <2>1, <2>3, <2>5, <3>3, <3>4, <3>6 DEF NowIs, FeedKnown
  <2>7. CASE KeyOf[d][f] # Key(d)
    <3>1. PICK G \in FeedRec : NowIs(d, G)'
      BY <1>7, ViewIsNext
    <3>2. PICK l : l = Key(d)'
      OBVIOUS
    <3>3. PICK N : N = Matching(d, Key(d))'
      OBVIOUS
    <3>4. G.head = Unread /\ G.older = {} /\ G.full = "none" /\ G.polls = {} /\ G.asOf = {}
      BY <1>2, <2>7, <3>1 DEF NowIs
    <3>5. ~G.moved /\ ~G.strayed
      BY <1>2, <2>7, <3>1 DEF NowIs
    <3>6. PICK m \in {NoMore} \cup AskedPage \cup AnsweredPage :
             /\ G.more = m
             /\ (m = F.more /\ m.pc = "idle") \/ (~m.fresh /\ m.pc = F.more.pc /\ m.key = F.more.key
                                                  /\ (m.pc = "answered" => m.page = F.more.page))
      <4>1. CASE more[d].pc = "idle"
        BY <1>0, <1>2, <2>1, <3>1, <4>1 DEF NowIs
      <4>2. CASE more[d].pc # "idle"
        <5>1. PICK m \in AskedPage \cup AnsweredPage :
                 /\ m = [more[d] EXCEPT !.fresh = FALSE] /\ ~m.fresh /\ m.pc = more[d].pc /\ m.key = more[d].key
                 /\ m.pc = "answered" => m.page = more[d].page
          BY <1>3, <4>2
        <5>2. G.more = m /\ F.more = more[d]
          BY <1>2, <2>1, <2>7, <3>1, <4>2, <5>1 DEF NowIs
        <5> QED
          BY <5>1, <5>2
      <4> QED
        BY <4>1, <4>2
    <3>7. FeedSound(d, l, R, N, G)
      BY ONLY <2>5, <3>4, <3>5, <3>6, G \in FeedRec, StartsOver
    <3> QED
      BY <2>3, <3>1, <3>2, <3>3, <3>7 DEF NowIs, FeedKnown
  <2> QED
    BY <2>6, <2>7
<1>9. SelectedOnScreen'
  <2>1. CASE KeyOf[AlertsFeed][f] = Key(AlertsFeed)
    BY <1>1, <1>2, <2>1, ScreenStays, FeedAssumption DEF FeedIInv
  <2>2. CASE KeyOf[AlertsFeed][f] # Key(AlertsFeed)
    BY <1>2, <2>2, FeedAssumption DEF SelectedOnScreen
  <2> QED
    BY <2>1, <2>2
<1> QED
  BY <1>7, <1>8, <1>9 DEF FeedIInv

-----------------------------------------------------------------------------
(* Rows that come and go, and the selection. *)

LEMMA RowsStep ==
    ASSUME FeedIInv, NEW r \in RowIds, RowArrives(r) \/ ElsewhereResolved(r) \/ BulkStep(r)
    PROVE  FeedIInv'
<1>1. /\ rows \subseteq rows' /\ Noted
      /\ UNCHANGED <<filters, head, older, olderFull, polls, more, asOf, strayed, selected>>
      /\ rows' \subseteq rows \cup {r} /\ resolved' \subseteq resolved \cup {r}
  BY DEF RowArrives, ElsewhereResolved, BulkStep
<1>2. resolved' \subseteq rows' /\ bulk' \in {NoBulk} \cup [pc : {"sent"}, todo : SUBSET RowIds]
      /\ (bulk'.pc = "sent" => bulk'.todo \subseteq rows)
  <2>0. resolved \subseteq rows /\ bulk \in {NoBulk} \cup [pc : {"sent"}, todo : SUBSET RowIds]
        /\ (bulk.pc = "sent" => bulk.todo \subseteq rows)
    BY DEF FeedIInv, FeedTypes
  <2>1. CASE RowArrives(r)
    BY <2>0, <2>1 DEF RowArrives
  <2>2. CASE ElsewhereResolved(r)
    BY <2>0, <2>2 DEF ElsewhereResolved
  <2>3. CASE BulkStep(r)
    <3>1. PICK b \in [pc : {"sent"}, todo : SUBSET RowIds] : b = bulk /\ b.pc = "sent" /\ b.todo \subseteq rows /\ r \in b.todo
      BY <2>0, <2>3 DEF BulkStep, NoBulk
    <3>2. bulk' = [b EXCEPT !.todo = @ \ {r}] /\ resolved' = resolved \cup {r} /\ rows' = rows
      BY <2>3, <3>1 DEF BulkStep
    <3>3. PICK t \in SUBSET RowIds : t = b.todo \ {r} /\ t \subseteq rows
      BY <3>1
    <3>4. bulk' = [b EXCEPT !.todo = t] /\ b.pc = "sent"
      BY <3>1, <3>2, <3>3
    <3>5. bulk' \in [pc : {"sent"}, todo : SUBSET RowIds] /\ bulk'.todo = t
      BY <3>3, <3>4
    <3> QED
      BY <2>0, <3>1, <3>2, <3>3, <3>5
  <2> QED
    BY <2>1, <2>2, <2>3
<1>3. moved' \in [Feeds -> BOOLEAN]
  BY <1>1 DEF Noted, FeedIInv, FeedTypes
<1>4. FeedTypes'
  BY <1>1, <1>2, <1>3 DEF FeedIInv, FeedTypes
<1>5. SelectedOnScreen'
  BY <1>1, ScreenStays DEF FeedIInv
<1> QED
  BY <1>1, <1>4, <1>5, RowsMove DEF FeedIInv

LEMMA SelectionStep ==
    ASSUME FeedIInv,
           \/ \E r \in RowIds : Tick(r) \/ Untick(r)
           \/ TickAll \/ ResolveSelected \/ BulkDone \/ BulkFails \/ UNCHANGED feedVars
    PROVE  FeedIInv'
<1>1. UNCHANGED <<rows, resolved, filters, head, older, olderFull, polls, more, asOf, moved, strayed>>
  BY DEF Tick, Untick, TickAll, ResolveSelected, BulkDone, BulkFails, feedVars, pageState
<1>2. \A r \in OnPage : RowOf[r].feed = AlertsFeed => r \in Loaded(AlertsFeed)
  BY OnPageIs
<1>3. AlertsFeed \in Wanted => OnPage \subseteq Loaded(AlertsFeed)
  BY OnPageIs, WantedIs DEF FeedIInv
<1>4. selected' \subseteq rows /\ (selected' \subseteq selected \/ selected' \subseteq selected \cup Loaded(AlertsFeed))
      /\ (selected' \subseteq selected \/ selected' \subseteq Loaded(AlertsFeed) \/ selected \subseteq selected')
  <2>0. selected \subseteq rows
    BY DEF FeedIInv, FeedTypes
  <2>1. ASSUME NEW r \in RowIds, Tick(r)
        PROVE  selected' \subseteq rows /\ selected \subseteq selected' /\ selected' \subseteq selected \cup Loaded(AlertsFeed)
    BY <1>2, <2>0, <2>1 DEF Tick
  <2>2. ASSUME NEW r \in RowIds, Untick(r) PROVE selected' \subseteq selected
    BY <2>2 DEF Untick
  <2>3. CASE TickAll
    BY <1>3, <2>3, OnPageIs DEF TickAll
  <2>4. CASE ResolveSelected \/ BulkDone \/ BulkFails \/ UNCHANGED feedVars
    <3>1. selected' = selected \/ selected' = {}
      BY <2>4 DEF ResolveSelected, BulkDone, BulkFails, feedVars
    <3> QED
      BY <2>0, <3>1
  <2> QED
    BY <2>0, <2>1, <2>2, <2>3, <2>4
<1>5. bulk' \in {NoBulk} \cup [pc : {"sent"}, todo : SUBSET RowIds] /\ (bulk'.pc = "sent" => bulk'.todo \subseteq rows)
  <2>0. selected \subseteq rows /\ rows \subseteq RowIds /\ bulk \in {NoBulk} \cup [pc : {"sent"}, todo : SUBSET RowIds]
        /\ (bulk.pc = "sent" => bulk.todo \subseteq rows)
    BY DEF FeedIInv, FeedTypes
  <2>1. CASE ResolveSelected
    <3>1. PICK t \in SUBSET RowIds : t = selected
      BY <2>0
    <3>2. [pc |-> "sent", todo |-> t] \in [pc : {"sent"}, todo : SUBSET RowIds]
      OBVIOUS
    <3>3. bulk' = [pc |-> "sent", todo |-> t] /\ t \subseteq rows
      BY <2>0, <2>1, <3>1 DEF ResolveSelected
    <3>4. bulk'.todo = t
      BY <3>3
    <3> QED
      BY <3>2, <3>3, <3>4
  <2>2. CASE bulk' = NoBulk
    BY <2>2 DEF NoBulk
  <2>3. CASE bulk' = bulk
    BY <2>0, <2>3
  <2> QED
    BY <2>1, <2>2, <2>3 DEF Tick, Untick, TickAll, BulkDone, BulkFails, feedVars
<1>6. FeedTypes'
  BY <1>1, <1>4, <1>5 DEF FeedIInv, FeedTypes
<1>7. SelectedOnScreen'
  BY <1>1, <1>4 DEF FeedIInv, SelectedOnScreen, Loaded
<1>8. \A d \in Feeds : FeedKnown(d)'
  BY <1>1, FeedRests DEF FeedIInv
<1> QED
  BY <1>6, <1>7, <1>8 DEF FeedIInv

LEMMA FeedIInvStep == FeedIInv /\ [FeedNext]_feedVars => FeedIInv'
<1> SUFFICES ASSUME FeedIInv, [FeedNext]_feedVars PROVE FeedIInv'
  OBVIOUS
<1>1. ASSUME NEW d \in Feeds, FeedStep(d) PROVE FeedIInv'
  BY <1>1, PollsStep, AnsweredStep, PageLandsStep, MoreFailsStep, PollLandsStep, PollFailsStep DEF FeedStep
<1>2. ASSUME NEW r \in RowIds, RowArrives(r) \/ ElsewhereResolved(r) \/ Tick(r) \/ Untick(r) \/ BulkStep(r) PROVE FeedIInv'
  BY <1>2, RowsStep, SelectionStep
<1>3. ASSUME NEW f \in FilterSets, SetFilters(f) PROVE FeedIInv'
  BY <1>3, SetFiltersStep
<1>4. CASE TickAll \/ ResolveSelected \/ BulkDone \/ BulkFails \/ UNCHANGED feedVars
  BY <1>4, SelectionStep
<1>5. CASE LoadMore
  BY <1>5, LoadMoreStep
<1> QED
  BY <1>1, <1>2, <1>3, <1>4, <1>5 DEF FeedNext

\* A feed that is open reaches no further than the cut-off.
LEMMA CutoffIs ==
    ASSUME FeedIInv
    PROVE  /\ Cutoff \in Nat
           /\ \A d \in Open : Time(LastLoaded(d)) <= Cutoff
<1>1. \A d \in Open : LastLoaded(d) \in RowIds /\ Time(LastLoaded(d)) \in Nat
  <2> SUFFICES ASSUME NEW d \in Open PROVE LastLoaded(d) \in RowIds /\ Time(LastLoaded(d)) \in Nat
    OBVIOUS
  <2>1. d \in Feeds /\ Loaded(d) # {}
    BY WantedIs DEF Open, FeedIInv
  <2>2. LastLoaded(d) = LastOf(Loaded(d)) /\ Loaded(d) \in SUBSET RowIds
    BY <2>1, LoadedIs DEF FeedIInv
  <2>3. LastOf(Loaded(d)) \in RowIds
    BY <2>1, <2>2, LastIs
  <2> QED
    BY <2>2, <2>3, AfterIsOrder
<1>2. CASE Open = {}
  BY <1>2 DEF Cutoff
<1>3. CASE Open # {}
  <2>1. IsFiniteSet(Open)
    <3>1. Open \in SUBSET Feeds
      BY WantedIs DEF Open, FeedIInv
    <3> QED
      BY <3>1, FS_Subset, FeedAssumption
  <2>2. PICK f : f = [d \in Open |-> Time(LastLoaded(d))]
    OBVIOUS
  <2>3. \A d \in Open : f[d] \in Nat /\ f[d] = Time(LastLoaded(d))
    BY <1>1, <2>2
  <2>4. PICK d \in Open : \A e \in Open : f[e] <= f[d]
    BY <1>3, <2>1, <2>3, GreatestOne
  <2>5. PICK T : T = {Time(LastLoaded(e)) : e \in Open}
    OBVIOUS
  <2>6. f[d] \in T /\ \A x \in T : x \in Nat /\ f[d] >= x
    BY <2>3, <2>4, <2>5
  <2>7. Cutoff = CHOOSE x \in T : \A y \in T : x >= y
    BY <1>3, <2>5 DEF Cutoff, Max
  <2>8. Cutoff \in T /\ \A y \in T : Cutoff >= y
    BY <2>6, <2>7
  <2>9. \A e \in Open : Time(LastLoaded(e)) \in T
    BY <2>5
  <2> QED
    BY <2>6, <2>8, <2>9
<1> QED
  BY <1>2, <1>3

\* Of the reads of a path that no copy explains, the first is on the list.
LEMMA FirstRead ==
    ASSUME NEW S \in SUBSET RowIds, NEW r \in S
    PROVE  \E s \in Collapsed(S) : RowOf[s].path = RowOf[r].path
<1>1. PICK T \in SUBSET S : T = {s \in S : RowOf[s].path = RowOf[r].path} /\ T # {}
  <2>1. {s \in S : RowOf[s].path = RowOf[r].path} \in SUBSET S /\ r \in {s \in S : RowOf[s].path = RowOf[r].path}
    OBVIOUS
  <2> QED
    BY <2>1
<1>2. PICK f : f = [s \in RowIds |-> Time(s)]
  OBVIOUS
<1>3. \A s \in T : f[s] \in Nat /\ f[s] = Time(s)
  BY <1>1, <1>2, AfterIsOrder
<1>4. PICK t \in T : \A s \in T : f[t] <= f[s]
  BY <1>1, <1>3, LeastOne
<1>5. PICK U \in SUBSET T : U = {s \in T : f[s] = f[t]} /\ t \in U
  <2>1. {s \in T : f[s] = f[t]} \in SUBSET T /\ t \in {s \in T : f[s] = f[t]}
    OBVIOUS
  <2> QED
    BY <2>1
<1>6. PICK g : g = [s \in RowIds |-> s]
  OBVIOUS
<1>7. IsFiniteSet(U) /\ U # {} /\ \A s \in U : g[s] \in Nat /\ g[s] = s
  <2>1. U \in SUBSET RowIds
    BY <1>1, <1>5
  <2> QED
    BY <1>5, <1>6, <2>1, FS_Subset, FeedAssumption
<1>8. PICK s \in U : \A x \in U : g[x] <= g[s]
  BY <1>7, GreatestOne
<1>9. ASSUME NEW x \in S, Follows(s, x) PROVE FALSE
  <2>1. /\ RowOf[s].path = RowOf[x].path
        /\ Time(s) > Time(x) \/ (Time(s) = Time(x) /\ s < x)
    BY <1>9 DEF Follows
  <2>2. x \in T /\ s \in T /\ f[s] = f[t]
    BY <1>1, <1>5, <2>1
  <2>3. Time(s) \in Nat /\ Time(x) \in Nat /\ s \in Nat /\ x \in Nat /\ Time(s) <= Time(x)
    BY <1>1, <1>3, <1>4, <2>2, FeedAssumption
  <2>4. Time(x) = Time(s) => x <= s
    BY <1>3, <1>5, <1>7, <1>8, <2>2
  <2> QED
    BY <2>1, <2>3, <2>4
<1>10. s \in Collapsed(S) /\ RowOf[s].path = RowOf[r].path
  BY <1>1, <1>5, <1>9 DEF Collapsed
<1> QED
  BY <1>10

LEMMA FeedListed ==
    ASSUME FeedIInv, ~Loading, NEW d \in Wanted, ~moved[d], ~strayed[d]
    PROVE  Listed(d)
<1>0. d \in Feeds /\ FeedTypes /\ FeedKnown(d) /\ head[d] # Unread
  BY WantedIs DEF FeedIInv, Loading
<1>1. PICK F \in FeedRec : NowIs(d, F)
  BY <1>0, ViewIs
<1>2. Reaches(F)
  BY <1>0, <1>1 DEF NowIs, FeedKnown, FeedSound, HasNoGap
<1>3. SUFFICES ASSUME NEW r \in asOf[d], Time(r) > Cutoff
               PROVE  r \in OnPage \/ (d = ReadsFeed /\ ReadCounted(r))
  BY DEF Listed
<1>4. r \in RowIds /\ Time(r) \in Nat /\ Cutoff \in Nat
  BY <1>0, AfterIsOrder, CutoffIs DEF FeedTypes
<1>5. r \in Loaded(d)
  <2> SUFFICES ASSUME r \notin Loaded(d) PROVE FALSE
    OBVIOUS
  <2>1. Loaded(d) = Shown(F) /\ (Exhausted(d) <=> Ends(F)) /\ LastLoaded(d) = LastOf(Shown(F)) /\ Loaded(d) \in SUBSET RowIds
    BY <1>0, <1>1, LoadedIs DEF NowIs
  <2>2. ~Ends(F) /\ Shown(F) # {} /\ After(LastOf(Shown(F)), r)
    BY <1>1, <1>2, <2>1 DEF NowIs, Reaches
  <2>3. d \in Open
    BY <2>1, <2>2 DEF Open
  <2>4. LastLoaded(d) \in RowIds /\ Time(LastLoaded(d)) >= Time(r) /\ Time(LastLoaded(d)) \in Nat
    BY <1>4, <2>1, <2>2, LastIs, AfterIsOrder
  <2>5. Time(LastLoaded(d)) <= Cutoff
    BY <2>3, CutoffIs
  <2> QED
    BY <1>3, <1>4, <2>4, <2>5
<1>6. CASE d # ReadsFeed
  <2>1. r \in Changes
    BY <1>5, <1>6 DEF Changes
  <2> QED
    BY <1>3, <1>4, <2>1 DEF OnPage
<1>7. CASE d = ReadsFeed
  <2>1. r \in Reads
    BY <1>5, <1>7 DEF Reads
  <2>2. CASE r \in Explained
    BY <1>7, <2>2 DEF Explained, ReadCounted
  <2>3. CASE r \notin Explained
    <3>1. Reads \ Explained \in SUBSET RowIds /\ r \in Reads \ Explained
      BY <1>0, <1>7, <2>1, <2>3, LoadedIs DEF Reads
    <3>2. PICK s \in Collapsed(Reads \ Explained) : RowOf[s].path = RowOf[r].path
      BY <3>1, FirstRead
    <3>3. s \in RowIds /\ Time(s) \in Nat
      BY <3>1, AfterIsOrder DEF Collapsed
    <3>4. s \in OnPage \/ Time(s) < Cutoff
      <4>1. CASE Time(s) >= Cutoff
        BY <3>2, <4>1 DEF OnPage
      <4> QED
        BY <1>4, <3>3, <4>1
    <3> QED
      BY <1>7, <3>2, <3>4 DEF ReadCounted
  <2> QED
    BY <2>2, <2>3
<1> QED
  BY <1>6, <1>7

\* Rows, heads, older pages, polls and the selection are of what the backend
\* has; a head is a page at most, and a feed the filters leave out has nothing.
THEOREM FeedTypeCorrect == FeedSpec => []FeedTypeOK
<1>1. ASSUME FeedIInv PROVE FeedTypeOK
  <2>1. ASSUME NEW d \in Feeds
        PROVE  /\ head[d] = Unread \/ head[d] \subseteq rows
               /\ older[d] \subseteq rows /\ olderFull[d] \in {"none", "full", "short"}
               /\ older[d] # {} => olderFull[d] # "none"
               /\ \A p \in polls[d] : Cardinality(p.page) <= FeedPage
               /\ more[d].pc \in {"idle", "asked", "answered"}
               /\ d \notin Wanted => head[d] = Unread /\ older[d] = {} /\ polls[d] = {}
    <3>0. FeedTypes /\ FeedKnown(d)
      BY <1>1 DEF FeedIInv
    <3>1. PICK F \in FeedRec : NowIs(d, F)
      BY <3>0, ViewIs
    <3>2. Owns(d, Key(d), rows, F)
      BY <3>0, <3>1 DEF NowIs, FeedKnown, FeedSound
    <3>3. ASSUME NEW p \in F.polls PROVE Cardinality(p.page) <= FeedPage
      <4>1. p.page = Newest(p.all) /\ p.all \in SUBSET RowIds
        BY <3>0, <3>2 DEF Owns, FeedTypes
      <4> QED
        BY <4>1, NewestIs
    <3>4. d \notin Wanted => Key(d) = NoKey
      BY <3>0, WantedIs
    <3>5. (head[d] = Unread \/ head[d] \subseteq rows) /\ older[d] \subseteq rows
      BY <3>0, LoadedIs
    <3>6. F.full \in {"none", "full", "short"} /\ F.more.pc \in {"idle", "asked", "answered"}
      BY FeedRecIs, MoreIs
    <3> QED
      BY <3>1, <3>2, <3>3, <3>4, <3>5, <3>6 DEF NowIs, Owns
  <2> QED
    BY <1>1, <2>1 DEF FeedIInv, FeedTypes, FeedTypeOK, NoBulk
<1> QED
  BY <1>1, FeedIInvInit, FeedIInvStep, PTL DEF FeedSpec

\* Whatever polls, pages and changes of the filters cross: a list holds rows of
\* the question it asks now, misses none down to where it ends while no row came
\* or went under older pages and none of an earlier question was added, and acts
\* on rows on screen only.
THEOREM ListsSound == FeedSpec => []PageIsTrue
<1>1. ASSUME FeedIInv PROVE PageIsTrue
  <2>1. AnswersTheQuestion
    <3> SUFFICES ASSUME NEW d \in Wanted, NEW r \in Loaded(d) PROVE RowOf[r].feed = d /\ Key(d) \in RowOf[r].keys
      BY DEF AnswersTheQuestion
    <3>1. d \in Feeds
      BY <1>1, WantedIs DEF FeedIInv
    <3> QED
      BY <1>1, <3>1, LoadedIs DEF FeedIInv, AsksFor
  <2>2. NothingHidden
    BY <1>1, FeedListed DEF NothingHidden
  <2> QED
    BY <1>1, <2>1, <2>2 DEF PageIsTrue, FeedIInv
<1> QED
  BY <1>1, FeedIInvInit, FeedIInvStep, PTL DEF FeedSpec

=============================================================================
