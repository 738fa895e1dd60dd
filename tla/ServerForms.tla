----------------------------- MODULE ServerForms -----------------------------
(***************************************************************************)
(* The page of the file servers, open at several administrators: a form is *)
(* filled from what the page's last poll showed and sends all of its       *)
(* fields, but a password only when one was typed.  A form stays as it was *)
(* opened while others save, and may be cancelled and opened again while   *)
(* its own request is under way.                                           *)
(*                                                                         *)
(* A row is a file server, or one of its shares, which has no password.    *)
(* plain stands for the fields that both show and of which the name to     *)
(* confirm a deletion is one.  Two forms that add a row add one of the     *)
(* same name, so the second is refused.  The labels of shares are with     *)
(* Sources, what a deletion takes along is not modelled.                   *)
(***************************************************************************)
EXTENDS Naturals, FiniteSets

CONSTANTS
    Browsers, FormRows, FileServers, \* FileServers \subseteq FormRows
    Plains, Typeds, NothingTyped,    \* Typeds: passwords
    Entries,                         \* what may stand in a form when it is sent
    MaxSends, MaxSendsLost           \* bounds of a behaviour

ASSUME FormsAssumption ==
    /\ Plains # {} /\ Typeds # {}
    /\ Entries \subseteq [plain : Plains, secret : Typeds \cup {NothingTyped}, activity : BOOLEAN, reads : BOOLEAN]

VARIABLES
    serverRows,   \* the rows: [is, enabled, plain, secret, activity, reads]
    shown,        \* what each page's last poll has, and of which version
    sheet,        \* [Browsers -> [FormRows -> a form]]
    sends,        \* requests of the pages, with what each asks
    sendCount, sendsLost,
    saveCount,    \* history: the saves of a row so far
    typedLast,    \* history: the last password typed for a row
    entered,      \* history: the pairs [plain, secret] somebody entered or left together
    staleSave     \* history: rows for which a form was saved over a later version

formVars == <<serverRows, shown, sheet, sends, sendCount, sendsLost, saveCount, typedLast, entered, staleSave>>

NoForm == [open |-> FALSE]

FormsInit ==
    /\ \E on \in BOOLEAN, a \in [FormRows -> {"new", "there", "gone"}] :
         serverRows = [k \in FormRows |->
            [is |-> a[k], enabled |-> on, plain |-> CHOOSE p \in Plains : TRUE, activity |-> FALSE, reads |-> FALSE,
             secret |-> IF k \in FileServers THEN CHOOSE t \in Typeds : TRUE ELSE NothingTyped]]
    /\ shown = [b \in Browsers |-> [k \in FormRows |-> [row |-> serverRows[k], version |-> 0]]]
    /\ sheet = [b \in Browsers |-> [k \in FormRows |-> NoForm]]
    /\ sends = {} /\ sendCount = 0 /\ sendsLost = 0
    /\ saveCount = [k \in FormRows |-> 0]
    /\ typedLast = [k \in FormRows |-> serverRows[k].secret]
    /\ entered = [k \in FormRows |-> {<<serverRows[k].plain, serverRows[k].secret>>}]
    /\ staleSave = {}

FormHistory == <<saveCount, typedLast, entered, staleSave>>

----------------------------------------------------------------------------
(* The page. *)

\* A row that has gone takes its form along.
PollShows(b) ==
    /\ shown' = [shown EXCEPT ![b] = [k \in FormRows |-> [row |-> serverRows[k], version |-> saveCount[k]]]]
    /\ sheet' = [sheet EXCEPT ![b] = [k \in FormRows |-> IF serverRows[k].is = "gone" THEN NoForm ELSE @[k]]]
    /\ UNCHANGED <<serverRows, sends, sendCount, sendsLost, FormHistory>>

\* from is what it is filled from; what is changed in it is seen when it is sent.
\* The page does not get the password, from has it for the history.
OpenForm(b, k) ==
    LET r == shown[b][k].row IN
    /\ sheet[b][k] = NoForm /\ r.is # "gone"
    /\ sheet' = [sheet EXCEPT ![b][k] = [open |-> TRUE, serial |-> 0, busy |-> FALSE,
                  from |-> [is |-> r.is, secret |-> r.secret, version |-> shown[b][k].version]]]
    /\ UNCHANGED <<serverRows, shown, sends, sendCount, sendsLost, FormHistory>>

CancelForm(b, k) ==
    /\ sheet[b][k] # NoForm
    /\ sheet' = [sheet EXCEPT ![b][k] = NoForm]
    /\ UNCHANGED <<serverRows, shown, sends, sendCount, sendsLost, FormHistory>>

\* A password left blank is not sent; reads are recorded with changes only.
Body(e) == [e EXCEPT !.reads = e.activity /\ e.reads]

Send(b, k, what, with) ==
    /\ sendCount' = sendCount + 1
    /\ sends' = sends \cup {[by |-> b, row |-> k, serial |-> sendCount + 1, at |-> "sent", what |-> what, with |-> with]}

MaySubmit(b, k) == sheet[b][k] # NoForm /\ ~sheet[b][k].busy /\ sendCount < MaxSends

Submit(b, k, e) ==
    LET f == sheet[b][k] IN
    /\ k \notin FileServers => e.secret = NothingTyped /\ ~e.activity /\ ~e.reads
    /\ f.from.is = "new" /\ k \in FileServers => e.secret # NothingTyped
    /\ sheet' = [sheet EXCEPT ![b][k] = [f EXCEPT !.busy = TRUE, !.serial = sendCount + 1]]
    /\ Send(b, k, "save", [body |-> Body(e), from |-> f.from])
    /\ UNCHANGED <<serverRows, shown, sendsLost, FormHistory>>

\* Disable or Enable, whichever the page shows; and a deletion, with what was
\* typed to confirm it.
Press(b, k) ==
    /\ sheet[b][k] = NoForm /\ shown[b][k].row.is = "there" /\ sendCount < MaxSends
    /\ \/ Send(b, k, "switch", ~shown[b][k].row.enabled)
       \/ \E p \in Plains : Send(b, k, "delete", p)
    /\ UNCHANGED <<serverRows, shown, sheet, sendsLost, FormHistory>>

----------------------------------------------------------------------------
(* The backend. *)

\* Mutant of Written: a password that is not sent is stored as none.
WrittenBlank(row, body) ==
    [row EXCEPT !.is = "there", !.plain = body.plain, !.activity = body.activity, !.reads = body.reads, !.secret = body.secret]

Written(row, body) ==
    [row EXCEPT !.is = "there", !.plain = body.plain, !.activity = body.activity, !.reads = body.reads,
                !.secret = IF body.secret = NothingTyped THEN @ ELSE body.secret]

\* Nothing waits for the answer of a button.
Settles(r, how) == sends' = (sends \ {r}) \cup IF r.what = "save" THEN {[r EXCEPT !.at = how]} ELSE {}

\* The row is there, and a deletion has its name.
Accepted(r) ==
    LET row == serverRows[r.row] IN
    CASE r.what = "save"   -> row.is = r.with.from.is
      [] r.what = "switch" -> row.is = "there"
      [] r.what = "delete" -> row.is = "there" /\ r.with = row.plain

Saves(r) ==
    LET k == r.row  body == r.with.body  from == r.with.from IN
    /\ r.what = "save"
    /\ serverRows' = [serverRows EXCEPT ![k] = Written(@, body)]
    /\ saveCount' = [saveCount EXCEPT ![k] = @ + 1]
    /\ typedLast' = [typedLast EXCEPT ![k] = IF body.secret = NothingTyped THEN @ ELSE body.secret]
    /\ entered' = [entered EXCEPT ![k] = @ \cup {<<body.plain, IF body.secret = NothingTyped THEN from.secret ELSE body.secret>>}]
    /\ staleSave' = IF from.version < saveCount[k] THEN staleSave \cup {k} ELSE staleSave

Switches(r) ==
    /\ r.what = "switch" /\ serverRows' = [serverRows EXCEPT ![r.row].enabled = r.with]
    /\ UNCHANGED FormHistory

Deletes(r) ==
    /\ r.what = "delete" /\ serverRows' = [serverRows EXCEPT ![r.row].is = "gone"]
    /\ UNCHANGED FormHistory

Does(r) ==
    /\ r.at = "sent" /\ Accepted(r)
    /\ Saves(r) \/ Switches(r) \/ Deletes(r)
    /\ Settles(r, "done")
    /\ UNCHANGED <<shown, sheet, sendCount, sendsLost>>

\* Refused; or the request is lost, or its answer is.
SendFails(r) ==
    /\ \/ r.at = "sent" /\ ~Accepted(r) /\ UNCHANGED sendsLost
       \/ r.at \in {"sent", "done"} /\ sendsLost < MaxSendsLost /\ sendsLost' = sendsLost + 1
    /\ Settles(r, "failed")
    /\ UNCHANGED <<serverRows, shown, sheet, sendCount, FormHistory>>

----------------------------------------------------------------------------
(* The answer. *)

\* Success closes the form that is open, a failure is told to its own.
FormAfter(f, r) ==
    IF r.at = "done" THEN NoForm
    ELSE IF f.open /\ f.serial = r.serial THEN [f EXCEPT !.busy = FALSE] ELSE f

SendAnswered(r) ==
    /\ r.at \in {"done", "failed"}
    /\ sends' = sends \ {r}
    /\ sheet' = [sheet EXCEPT ![r.by][r.row] = FormAfter(@, r)]
    /\ UNCHANGED <<serverRows, shown, sendCount, sendsLost, FormHistory>>

FormsNext ==
    \/ \E b \in Browsers : PollShows(b)
    \/ \E b \in Browsers, k \in FormRows :
         \/ OpenForm(b, k) \/ CancelForm(b, k) \/ Press(b, k)
         \/ MaySubmit(b, k) /\ \E e \in Entries : Submit(b, k, e)
    \/ \E r \in sends : Does(r) \/ SendFails(r) \/ SendAnswered(r)

FormsSpec == FormsInit /\ [][FormsNext]_formVars

----------------------------------------------------------------------------
(* Properties. *)

\* Rows are of their kind; a form waits only for a request that is under way.
FormsTypeOK ==
    /\ \A k \in FormRows :
         /\ serverRows[k].is \in {"new", "there", "gone"} /\ serverRows[k].plain \in Plains
         /\ serverRows[k].secret \in IF k \in FileServers THEN Typeds ELSE {NothingTyped}
    /\ \A b \in Browsers, k \in FormRows :
         sheet[b][k] # NoForm /\ sheet[b][k].busy => \E r \in sends : r.serial = sheet[b][k].serial

\* Reads are recorded only where changes are, whatever forms cross: no collection
\* is on that the form does not show.
ReadsNeedActivity == \A k \in FormRows : serverRows[k].reads => serverRows[k].activity

\* However old the forms that are saved, a stored password is the last one that
\* was typed: no save of other fields brings an earlier one back, or none.
PasswordsTyped == \A k \in FormRows : serverRows[k].secret = typedLast[k]

\* As long as nobody saves a form over a save it did not show, a password is
\* stored only with fields it was entered or left with.
CredentialsTogether ==
    \A k \in FormRows : k \notin staleSave => <<serverRows[k].plain, serverRows[k].secret>> \in entered[k]

\* What the crossing forms of several administrators leave is a file server
\* somebody entered: with the password typed last, the login it belongs to, and
\* reads recorded only with changes.
FormsHold == ReadsNeedActivity /\ PasswordsTyped /\ CredentialsTogether
=============================================================================
