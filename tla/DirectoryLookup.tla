--------------------------- MODULE DirectoryLookup ---------------------------
(***************************************************************************)
(* What one person's sign-in and the later re-check ask of Active          *)
(* Directory.  Each domain controller has a copy of its own, brought up to *)
(* date in its own time, and may stop answering between two questions; the *)
(* controllers are tried in order, each from the first question on.  The   *)
(* settings may be saved meanwhile, by two administrators.                 *)
(***************************************************************************)
EXTENDS Naturals, Sequences

CONSTANTS
    Controllers,  \* a sequence: cfg.servers
    Standings,    \* what a copy can say: [there, enabled, pw, groups, lookup]
    Passwords,    \* what is typed; Blank is one of them
    Blank, Groups, NoGroup,
    Lookups,      \* passwords of the lookup account
    Attempts,     \* sign-ins and re-checks
    Cards,        \* open settings cards
    MaxAdChanges, MaxOutages, MaxSaves \* bounds of a behaviour

\* Without a controller there is no configuration to sign in with, and no
\* account is in the group that is not set.
ASSUME LookupAssumption ==
    /\ Len(Controllers) \in Nat \ {0} /\ DOMAIN Controllers = 1..Len(Controllers)
    /\ MaxAdChanges \in Nat /\ MaxOutages \in Nat /\ MaxSaves \in Nat
    /\ NoGroup \notin Groups /\ \A s \in Standings : NoGroup \notin s.groups

VARIABLES
    adCopy,       \* [controllers -> Standings]
    up,           \* which of them answer
    settings,     \* the stored row: [on, admin, viewer, lookup]
    card,         \* what each card was loaded with
    attempt,      \* the attempts
    refusals,     \* history: how often each had the password refused
    facts,        \* history: what each has been told since it began with a controller
    hidden,       \* history: a re-check's search failed and was taken for an answer
    adChanges, outages, saves

adVars == <<adCopy, up, settings, card, attempt, refusals, facts, hidden, adChanges, outages, saves>>

Indices == DOMAIN Controllers
Idle == [pc |-> "idle"]
NoCard == [on |-> FALSE, admin |-> NoGroup, viewer |-> NoGroup, lookup |-> Blank]

LookupInit ==
    /\ adCopy \in [Indices -> Standings]
    /\ up = [i \in Indices |-> TRUE]
    /\ settings \in [on : {TRUE}, admin : Groups, viewer : Groups \cup {NoGroup}, lookup : Lookups]
    /\ card = [c \in Cards |-> NoCard]
    /\ attempt = [a \in Attempts |-> Idle]
    /\ refusals = [a \in Attempts |-> 0]
    /\ facts = [a \in Attempts |-> {}] /\ hidden = [a \in Attempts |-> FALSE]
    /\ adChanges = 0 /\ outages = 0 /\ saves = 0

----------------------------------------------------------------------------
(* The domain controllers. *)

CopyChanges(i, s) ==
    /\ adChanges < MaxAdChanges /\ adChanges' = adChanges + 1
    /\ s # adCopy[i] /\ adCopy' = [adCopy EXCEPT ![i] = s]
    /\ UNCHANGED <<up, settings, card, attempt, refusals, facts, hidden, outages, saves>>

GoesDown(i) ==
    /\ up[i] /\ outages < MaxOutages /\ outages' = outages + 1
    /\ up' = [up EXCEPT ![i] = FALSE]
    /\ UNCHANGED <<adCopy, settings, card, attempt, refusals, facts, hidden, adChanges, saves>>

ComesBack(i) ==
    /\ ~up[i] /\ up' = [up EXCEPT ![i] = TRUE]
    /\ UNCHANGED <<adCopy, settings, card, attempt, refusals, facts, hidden, adChanges, outages, saves>>

----------------------------------------------------------------------------
(* The settings. *)

OpenCard(c) ==
    /\ card' = [card EXCEPT ![c] = settings]
    /\ UNCHANGED <<adCopy, up, settings, attempt, refusals, facts, hidden, adChanges, outages, saves>>

FilledIn(form) == form.on => form.admin # NoGroup

\* A blank password keeps the stored one; what is on needs an admin group. The
\* card goes on with what was stored.
SaveCard(c, form, typed) ==
    /\ card[c] # NoCard /\ saves < MaxSaves /\ saves' = saves + 1
    /\ \E k \in {"on", "admin", "viewer"} : form = [card[c] EXCEPT ![k] = form[k]]
    /\ IF ~FilledIn(form) THEN UNCHANGED <<settings, card>>
       ELSE /\ settings' = [form EXCEPT !.lookup = IF typed = Blank THEN settings.lookup ELSE typed]
            /\ card' = [card EXCEPT ![c] = settings']
    /\ UNCHANGED <<adCopy, up, attempt, refusals, facts, hidden, adChanges, outages>>

----------------------------------------------------------------------------
(* An attempt. *)

Goes(a, rec) == attempt' = [attempt EXCEPT ![a] = rec]
NowAsks(a, pc, i, admin) ==
    Goes(a, [pc |-> pc, op |-> attempt[a].op, pw |-> attempt[a].pw, cfg |-> attempt[a].cfg,
             i |-> i, admin |-> admin])
Outcome(a, what, role) ==
    Goes(a, [pc |-> "done", op |-> attempt[a].op, pw |-> attempt[a].pw, cfg |-> attempt[a].cfg,
             says |-> what, role |-> role])

Asking(a, pc) == attempt[a].pc = pc
Here(a) == attempt[a].i

\* What the copy tells of a question is added to what it told before.
Told(a, i, what) == facts' = [facts EXCEPT ![a] = @ \cup {[dc |-> i, what |-> what, of |-> adCopy[i]]}]

UNCHANGED_AD == UNCHANGED <<adCopy, up, settings, card, adChanges, outages, saves>>

Usable(pw) == pw # Blank

\* A sign-in with a password, or a re-check, which has none.
BeginLookup(a, op, pw) ==
    /\ attempt[a].pc = "idle" /\ settings.on
    /\ op = "recheck" => pw = Blank
    /\ Goes(a, IF op = "login" /\ ~Usable(pw)
               THEN [pc |-> "done", op |-> op, pw |-> pw, cfg |-> settings, says |-> "bad_password", role |-> "none"]
               ELSE [pc |-> "bind", op |-> op, pw |-> pw, cfg |-> settings, i |-> 1, admin |-> FALSE])
    /\ UNCHANGED <<refusals, facts, hidden>> /\ UNCHANGED_AD

\* Mutant of NextController: the next controller is asked what is left to ask.
GoOnElsewhere(a) ==
    IF attempt[a].i = Len(Controllers) THEN Outcome(a, "unavailable", "none") /\ UNCHANGED facts
    ELSE NowAsks(a, attempt[a].pc, attempt[a].i + 1, attempt[a].admin) /\ UNCHANGED facts

NextController(a) ==
    IF attempt[a].i = Len(Controllers) THEN Outcome(a, "unavailable", "none") /\ UNCHANGED facts
    ELSE NowAsks(a, "bind", attempt[a].i + 1, FALSE) /\ facts' = [facts EXCEPT ![a] = {}]

\* The lookup account signs in; where it is refused, no other controller is tried.
Bind(a) ==
    /\ Asking(a, "bind")
    /\ IF ~up[Here(a)] THEN NextController(a)
       ELSE /\ UNCHANGED facts
            /\ IF adCopy[Here(a)].lookup # attempt[a].cfg.lookup THEN Outcome(a, "unavailable", "none")
               ELSE NowAsks(a, "find", Here(a), attempt[a].admin)
    /\ UNCHANGED <<refusals, hidden>> /\ UNCHANGED_AD

\* A re-check whose search fails has found nobody.
Find(a) ==
    LET i == Here(a)  op == attempt[a].op
    IN  /\ Asking(a, "find")
        /\ hidden' = [hidden EXCEPT ![a] = @ \/ (~up[i] /\ op = "recheck")]
        /\ IF ~up[i] /\ op = "login" THEN NextController(a)
           ELSE /\ IF up[i] THEN Told(a, i, "account") ELSE UNCHANGED facts
                /\ IF ~up[i] \/ ~adCopy[i].there
                   THEN Outcome(a, IF op = "login" THEN "not_found" ELSE "gone", "none")
                   ELSE IF ~adCopy[i].enabled THEN Outcome(a, "disabled", "none")
                   ELSE NowAsks(a, IF op = "login" THEN "password" ELSE "admins", i, attempt[a].admin)
        /\ UNCHANGED refusals /\ UNCHANGED_AD

\* The controller takes a bind without a password for an anonymous one, and
\* grants it.
Accepts(i, pw) == pw = Blank \/ adCopy[i].pw = pw

Refused(a) == Outcome(a, "bad_password", "none") /\ UNCHANGED facts

CheckPassword(a) ==
    LET i == Here(a)
    IN  /\ Asking(a, "password")
        /\ IF ~up[i] THEN NextController(a) /\ UNCHANGED refusals
           ELSE IF Accepts(i, attempt[a].pw)
                THEN /\ Told(a, i, "password") /\ UNCHANGED refusals
                     /\ NowAsks(a, "admins", i, attempt[a].admin)
                ELSE Refused(a) /\ refusals' = [refusals EXCEPT ![a] = @ + 1]
        /\ UNCHANGED hidden /\ UNCHANGED_AD

GroupsOf(a) == attempt[a].cfg

AskAdmins(a) ==
    LET i == Here(a)
    IN  /\ Asking(a, "admins")
        /\ IF ~up[i] THEN NextController(a)
           ELSE /\ Told(a, i, "admins")
                /\ NowAsks(a, "viewers", i, GroupsOf(a).admin \in adCopy[i].groups)
        /\ UNCHANGED <<refusals, hidden>> /\ UNCHANGED_AD

\* The admin group wins. Where no viewer group is set, nothing is asked.
AskViewers(a) ==
    LET i == Here(a)
    IN  /\ Asking(a, "viewers")
        /\ IF ~up[i] /\ GroupsOf(a).viewer # NoGroup THEN NextController(a)
           ELSE /\ Told(a, i, "viewers")
                /\ IF attempt[a].admin THEN Outcome(a, "ok", "ADMIN")
                   ELSE IF GroupsOf(a).viewer \in adCopy[i].groups THEN Outcome(a, "ok", "VIEWER")
                   ELSE Outcome(a, "no_group", "none")
        /\ UNCHANGED <<refusals, hidden>> /\ UNCHANGED_AD

LookupStep(a) == Bind(a) \/ Find(a) \/ CheckPassword(a) \/ AskAdmins(a) \/ AskViewers(a)

LookupNext ==
    \/ \E i \in Indices : GoesDown(i) \/ ComesBack(i) \/ \E s \in Standings : CopyChanges(i, s)
    \/ \E c \in Cards : \/ OpenCard(c)
                        \/ \E on \in BOOLEAN, g, h \in Groups \cup {NoGroup}, typed \in Lookups \cup {Blank} :
                              SaveCard(c, [on |-> on, admin |-> g, viewer |-> h, lookup |-> card[c].lookup], typed)
    \/ \E a \in Attempts : LookupStep(a) \/ \E pw \in Passwords, op \in {"login", "recheck"} : BeginLookup(a, op, pw)

LookupSpec == LookupInit /\ [][LookupNext]_adVars

----------------------------------------------------------------------------
(* Properties. *)

SettingsRow == [on : BOOLEAN, admin : Groups \cup {NoGroup}, viewer : Groups \cup {NoGroup},
                lookup : Lookups \cup {Blank}]

AttemptState ==
    {Idle}
    \cup [pc : {"bind", "find", "password", "admins", "viewers"}, op : {"login", "recheck"}, pw : Passwords,
          cfg : SettingsRow, i : Indices, admin : BOOLEAN]
    \cup [pc : {"done"}, op : {"login", "recheck"}, pw : Passwords, cfg : SettingsRow,
          says : {"ok", "no_group", "disabled", "gone", "not_found", "bad_password", "unavailable"},
          role : {"ADMIN", "VIEWER", "none"}]

LookupTypeOK ==
    /\ adCopy \in [Indices -> Standings] /\ up \in [Indices -> BOOLEAN]
    /\ settings \in SettingsRow /\ settings.lookup \in Lookups /\ (settings.on => settings.admin \in Groups)
    /\ card \in [Cards -> SettingsRow]
    /\ attempt \in [Attempts -> AttemptState]
    /\ facts \in [Attempts -> SUBSET [dc : Indices, what : {"account", "password", "admins", "viewers"}, of : Standings]]
    /\ refusals \in [Attempts -> Nat] /\ hidden \in [Attempts -> BOOLEAN]
    /\ adChanges \in 0..MaxAdChanges /\ outages \in 0..MaxOutages /\ saves \in 0..MaxSaves

Answer(a, says) == attempt[a].pc = "done" /\ attempt[a].says = says

\* What one controller has told the attempt in answer to a question.
Said(a, i, what) == {f.of : f \in {g \in facts[a] : g.dc = i /\ g.what = what}}

\* A sign-in that succeeds was vouched for by one controller in full: the account
\* was found enabled, took the password and was in the group of its role, each
\* when asked, whatever failed before and whatever the other copies say.
OneControllerVouches ==
    \A a \in Attempts : Answer(a, "ok") =>
        \E i \in Indices :
            /\ \E s \in Said(a, i, "account") : s.there /\ s.enabled
            /\ attempt[a].op = "login" => \E s \in Said(a, i, "password") : s.pw = attempt[a].pw
            /\ attempt[a].role = "ADMIN" => \E s \in Said(a, i, "admins") : attempt[a].cfg.admin \in s.groups
            /\ attempt[a].role = "VIEWER" => \E s \in Said(a, i, "viewers") : attempt[a].cfg.viewer \in s.groups

\* A wrong password is offered to Active Directory once, however many
\* controllers there are: each refusal counts towards its lockout.
RefusedOnce == \A a \in Attempts : refusals[a] <= 1

\* A re-check ends sessions for what a controller said of the account, unless its
\* own search failed: that is taken for an account that is gone.
SignedOutForCause ==
    \A a \in Attempts : attempt[a].pc = "done" /\ attempt[a].op = "recheck" /\ ~hidden[a] =>
        /\ attempt[a].says = "gone" => \E f \in facts[a] : ~f.of.there
        /\ attempt[a].says = "disabled" => \E f \in facts[a] : f.of.there /\ ~f.of.enabled
        /\ attempt[a].says = "no_group" => \E f \in facts[a] : attempt[a].cfg.admin \notin f.of.groups

\* The same of every re-check: an outage keeps the session.
OutageKeepsSessions == \A a \in Attempts : hidden[a] => attempt[a].pc = "done" /\ attempt[a].says # "gone"

\* The directory is asked soundly however its controllers fail: one of them
\* vouches for a sign-in in full, a wrong password is offered once, and a
\* session is ended for what one of them said.
SignInHolds == OneControllerVouches /\ RefusedOnce /\ SignedOutForCause
=============================================================================
