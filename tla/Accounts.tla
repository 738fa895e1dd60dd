------------------------------- MODULE Accounts -------------------------------
(***************************************************************************)
(* Users, sign-in and sessions.  A request reads rows, waits for a hash, a *)
(* setting or the directory, and writes: requests that overlap work on     *)
(* what they read.  An account is LOCAL, with a password of its own, or    *)
(* DIRECTORY, provisioned at the first sign-in of a person in Active       *)
(* Directory, which says who may sign in and as what.                      *)
(*                                                                         *)
(* A person's account and their entry in the directory have one address.   *)
(* Passwords are numbered; 0 is a wrong one.                               *)
(***************************************************************************)
EXTENDS Naturals, FiniteSets

CONSTANTS
    People,
    LocalAdmins, LocalViewers, \* local accounts at first
    Requests,     \* requests in flight together
    LockLimits,   \* what security.lockAfterFailures may be set to
    MaxWrites, MaxFailures, MaxDirectoryChanges \* bounds of a behaviour

ASSUME AccountsAssumption ==
    LocalAdmins # {} /\ LocalAdmins \cup LocalViewers \subseteq People /\ LockLimits \subseteq Nat \ {0}

VARIABLES
    user,       \* User rows
    role,       \* what the directory makes of a person: ADMIN, VIEWER or nothing
    directoryOn,
    tokens,     \* session cookies handed out
    request,        \* requests under way
    lockAfter,
    alerted,    \* people with an alert since their count was last cleared
    guesses,    \* history: wrong passwords tried; a lock that ran out leaves room for as many as the count does
    eras,       \* history: how often an account was deactivated
    crossed,    \* history: two requests about a person have overlapped
    raced,      \* history: two changes of accounts have overlapped
    adTook,     \* history: the directory took the administrator role from an account
    lowered,    \* history: the limit of failures was lowered
    writes, directoryChanges

accountVars == <<user, role, directoryOn, tokens, request, lockAfter, alerted, guesses, eras, crossed, raced,
                 adTook, lowered, writes, directoryChanges>>

Roles == {"ADMIN", "VIEWER"}
IdleRequest == [pc |-> "idle"]
Absent == [source |-> "none", role |-> "VIEWER", active |-> FALSE, sv |-> 0, pw |-> 0,
           must |-> FALSE, fails |-> 0, locked |-> FALSE]
NewUser(source, as) == [Absent EXCEPT !.source = source, !.role = as, !.active = TRUE, !.pw = 1]

AccountsInit ==
    /\ user = [u \in People |-> IF u \in LocalAdmins THEN NewUser("LOCAL", "ADMIN")
                                ELSE IF u \in LocalViewers THEN NewUser("LOCAL", "VIEWER") ELSE Absent]
    /\ role \in [People -> Roles \cup {"none"}]
    /\ directoryOn \in BOOLEAN
    /\ tokens = {} /\ request = [r \in Requests |-> IdleRequest]
    /\ lockAfter \in LockLimits /\ alerted = {}
    /\ guesses = [u \in People |-> 0] /\ eras = [u \in People |-> 0]
    /\ crossed = [u \in People |-> FALSE] /\ adTook = FALSE /\ raced = FALSE /\ lowered = FALSE
    /\ writes = 0 /\ directoryChanges = 0

ActiveAdmins == {u \in People : user[u].active /\ user[u].role = "ADMIN"}

\* What a request holds on to: its subject, the row it read, what it was given.
Begin(r, kind, u, given) ==
    [request EXCEPT ![r] = [pc |-> kind, u |-> u, row |-> user[u], given |-> given, era |-> eras[u],
                        via |-> IF kind = "ask" THEN "DIRECTORY" ELSE "LOCAL"]]

Working(r) == request[r].pc # "idle"
Ends(r) == request' = [request EXCEPT ![r] = IdleRequest]
GoesOn(r, pc) == request' = [request EXCEPT ![r].pc = pc]

\* Another request has read this person's row and may write it.
Overlaps(r, u) == \E q \in Requests \ {r} : Working(q) /\ request[q].u = u
Crossing(r, u) == crossed' = [crossed EXCEPT ![u] = @ \/ Overlaps(r, u)]

----------------------------------------------------------------------------
(* POST /auth/login. *)

\* The row is found by address, or not at all when an account name is typed.
LogIn(r, u, password, byName) ==
    LET local == ~directoryOn \/ (user[u].source = "LOCAL" /\ ~byName)
    IN  /\ ~Working(r)
        /\ byName => directoryOn
        /\ password = 0 => user[u].fails < MaxFailures
        /\ request' = Begin(r, IF local THEN "verify" ELSE "ask", u, password)
        /\ Crossing(r, u)
        /\ UNCHANGED <<user, role, directoryOn, tokens, lockAfter, alerted, guesses, eras, raced, adTook,
                       lowered, writes, directoryChanges>>

\* The lock first, then the password, against the row as it was read.
Verify(r) ==
    LET me == request[r]
    IN  /\ me.pc = "verify"
        /\ IF me.row.locked THEN Ends(r) /\ UNCHANGED guesses
           ELSE IF me.row.source = "none" THEN Ends(r) /\ UNCHANGED guesses
           ELSE IF me.row.active /\ me.row.source = "LOCAL" /\ me.given = me.row.pw
           THEN GoesOn(r, "complete") /\ UNCHANGED guesses
           ELSE /\ GoesOn(r, "fail")
                /\ guesses' = [guesses EXCEPT ![me.u] = @ + 1]
        /\ UNCHANGED <<user, role, directoryOn, tokens, lockAfter, alerted, eras, crossed, raced, adTook,
                       lowered, writes, directoryChanges>>

\* What the directory says of a name and a password: nothing, when no server answers.
Answers(u, password) ==
    {"unavailable", IF role[u] # "none" /\ password # 0 THEN "ok" ELSE "refused"}

\* The row whose lockout applies is a directory account's.
AskDirectory(r) ==
    LET me == request[r]  known == me.row.source = "DIRECTORY"
    IN  /\ me.pc = "ask"
        /\ IF known /\ me.row.locked THEN Ends(r) /\ UNCHANGED guesses
           ELSE \E answer \in Answers(me.u, me.given) :
                \/ answer = "unavailable" /\ Ends(r) /\ UNCHANGED guesses
                \/ /\ answer = "ok"
                   /\ request' = [request EXCEPT ![r].pc = "provision", ![r].given = role[me.u]]
                   /\ UNCHANGED guesses
                \/ /\ answer = "refused"
                   /\ IF known THEN GoesOn(r, "fail") ELSE Ends(r)
                   /\ guesses' = IF known THEN [guesses EXCEPT ![me.u] = @ + 1] ELSE guesses
        /\ UNCHANGED <<user, role, directoryOn, tokens, lockAfter, alerted, eras, crossed, raced, adTook,
                       lowered, writes, directoryChanges>>

\* Mutant of MayAttach: an account with the address is taken for the person's.
AttachAny(row) == row.source # "none"

\* The account with the person's GUID.
MayAttach(row) == row.source = "DIRECTORY"

\* The account is found by GUID and its role follows; or it is created, unless
\* the address is a local account's.
Provision(r) ==
    LET me == request[r]  u == me.u  row == user[u]
    IN  /\ me.pc = "provision"
        /\ IF MayAttach(row)
           THEN IF ~row.active \/ row.locked THEN Ends(r) /\ UNCHANGED <<user, adTook>>
                ELSE /\ user' = [user EXCEPT ![u].role = me.given]
                     /\ adTook' = (adTook \/ (row.role = "ADMIN" /\ me.given # "ADMIN"))
                     /\ request' = [request EXCEPT ![r].pc = "complete", ![r].row = user'[u], ![r].era = eras[u]]
           ELSE IF row.source = "LOCAL" THEN Ends(r) /\ UNCHANGED <<user, adTook>>
           ELSE /\ user' = [user EXCEPT ![u] = NewUser("DIRECTORY", me.given)]
                /\ request' = [request EXCEPT ![r].pc = "complete", ![r].row = user'[u], ![r].era = eras[u]]
                /\ UNCHANGED adTook
        /\ UNCHANGED <<role, directoryOn, tokens, lockAfter, alerted, guesses, eras, crossed, raced,
                       lowered, writes, directoryChanges>>

Locks(failures) == failures >= lockAfter

Failures(row) == row.fails + 1

Alerts(failures) == failures = lockAfter

\* recordFailure adds to the count it read; only the failure that reaches the limit is alerted.
RecordFailure(r) ==
    LET me == request[r]  failures == Failures(me.row)
    IN  /\ me.pc = "fail"
        /\ user' = [user EXCEPT ![me.u].fails = failures, ![me.u].locked = Locks(failures)]
        /\ alerted' = IF Alerts(failures) THEN alerted \cup {me.u} ELSE alerted
        /\ Ends(r)
        /\ UNCHANGED <<role, directoryOn, tokens, lockAfter, guesses, eras, crossed, raced, adTook,
                       lowered, writes, directoryChanges>>

\* Mutant of Token: signed for the next version.
TokenAhead(u, row, era, via) == [u |-> u, sv |-> row.sv + 1, pw |-> row.pw, era |-> era, via |-> via]

Token(u, row, era, via) == [u |-> u, sv |-> row.sv, pw |-> row.pw, era |-> era, via |-> via]

Cleared(row) == [row EXCEPT !.fails = 0, !.locked = FALSE]

\* completeLogin: the counters go, and the session is signed from the row that was read.
Complete(r) ==
    LET me == request[r]
    IN  /\ me.pc = "complete"
        /\ user' = [user EXCEPT ![me.u] = Cleared(@)]
        /\ tokens' = tokens \cup {Token(me.u, me.row, me.era, me.via)}
        /\ alerted' = alerted \ {me.u}
        /\ guesses' = [guesses EXCEPT ![me.u] = 0]
        /\ Ends(r)
        /\ UNCHANGED <<role, directoryOn, lockAfter, eras, crossed, raced, adTook, lowered, writes,
                       directoryChanges>>

----------------------------------------------------------------------------
(* authenticate and requireRole. *)

\* The row is read on every request, and its present state decides.
Authentic(t) == user[t.u].active /\ user[t.u].sv = t.sv

ActsAsAdmin(t) == Authentic(t) /\ ~user[t.u].must /\ user[t.u].role = "ADMIN"

\* An old session is signed again; a directory account's standing is read first.
Renew(r, t) ==
    /\ Authentic(t) /\ ~user[t.u].must
    /\ IF user[t.u].source = "DIRECTORY"
       THEN /\ writes < MaxWrites /\ writes' = writes + 1
            /\ request' = Begin(r, "recheck", t.u, t.via) /\ Crossing(r, t.u)
            /\ UNCHANGED tokens
       ELSE /\ tokens' = tokens \cup {Token(t.u, user[t.u], eras[t.u], t.via)}
            /\ UNCHANGED <<request, crossed, writes>>
    /\ UNCHANGED <<user, role, directoryOn, lockAfter, alerted, guesses, eras, raced, adTook, lowered,
                   directoryChanges>>

\* A look-up by GUID, without a password. One whose search fails finds nobody.
Standing(u) == {"unavailable", "gone"} \cup {s \in {"ok"} : role[u] # "none"}

\* No answer keeps the session; no standing ends all of the account's.
Recheck(r) ==
    LET me == request[r]  u == me.u
    IN  /\ me.pc = "recheck"
        /\ \/ /\ directoryOn /\ "unavailable" \in Standing(u)
              /\ tokens' = tokens \cup {Token(u, me.row, me.era, me.given)}
              /\ UNCHANGED <<user, adTook>>
           \/ /\ directoryOn /\ "ok" \in Standing(u)
              /\ user' = [user EXCEPT ![u].role = role[u]]
              /\ adTook' = (adTook \/ (user[u].role = "ADMIN" /\ role[u] # "ADMIN"))
              /\ tokens' = tokens \cup {Token(u, me.row, me.era, me.given)}
           \/ /\ ~directoryOn \/ "gone" \in Standing(u)
              /\ user' = [user EXCEPT ![u].sv = @ + 1]
              /\ UNCHANGED <<tokens, adTook>>
        /\ Ends(r)
        /\ UNCHANGED <<role, directoryOn, lockAfter, alerted, guesses, eras, crossed, raced, lowered,
                       writes, directoryChanges>>

----------------------------------------------------------------------------
(* The pages Users and My account. *)

Wants == {[role |-> x] : x \in Roles} \cup {[active |-> b] : b \in BOOLEAN}

Asks(r, t, kind, u, given) ==
    /\ writes' = writes + 1
    /\ request' = Begin(r, kind, u, given)
    /\ Crossing(r, u)
    /\ raced' = (raced \/ (kind = "patch" /\ \E q \in Requests : request[q].pc \in {"patch", "update"}))
    /\ UNCHANGED <<user, role, directoryOn, tokens, lockAfter, alerted, guesses, eras, adTook,
                   lowered, directoryChanges>>

LosesAdmin(row, want) ==
    row.role = "ADMIN" /\ row.active /\ want \in {[role |-> "VIEWER"], [active |-> FALSE]}

\* PATCH /users/:id reads the row and refuses what it may not do.
AskPatch(r, t, u, want) ==
    /\ ActsAsAdmin(t) /\ user[u].source # "none"
    /\ user[u].source = "DIRECTORY" => want \in {[role |-> user[u].role]} \cup {[active |-> b] : b \in BOOLEAN}
    /\ LosesAdmin(user[u], want) => u # t.u
    /\ Asks(r, t, "patch", u, want)

\* The other administrators are counted.
CountAdmins(r) ==
    LET me == request[r]
    IN  /\ me.pc = "patch"
        /\ IF LosesAdmin(me.row, me.given) /\ ActiveAdmins \ {me.u} = {} THEN Ends(r)
           ELSE GoesOn(r, "update")
        /\ UNCHANGED <<user, role, directoryOn, tokens, lockAfter, alerted, guesses, eras, crossed, raced,
                       adTook, lowered, writes, directoryChanges>>

\* Deactivating ends the sessions of an account that was read as active.
Deactivated(row, was) == [row EXCEPT !.active = FALSE, !.sv = IF was.active THEN @ + 1 ELSE @]

UpdateUser(r) ==
    LET me == request[r]  want == me.given
    IN  /\ me.pc = "update"
        /\ user' = [user EXCEPT ![me.u] =
               CASE want = [active |-> FALSE] -> Deactivated(@, me.row)
                 [] want = [active |-> TRUE] -> [@ EXCEPT !.active = TRUE]
                 [] OTHER -> [@ EXCEPT !.role = want.role]]
        /\ eras' = IF want = [active |-> FALSE] /\ user[me.u].active
                   THEN [eras EXCEPT ![me.u] = @ + 1] ELSE eras
        /\ Ends(r)
        /\ UNCHANGED <<role, directoryOn, tokens, lockAfter, alerted, guesses, crossed, raced, adTook,
                       lowered, writes, directoryChanges>>

\* POST /users
CreateUser(r, t, u, as) ==
    /\ ActsAsAdmin(t) /\ user[u].source = "none"
    /\ writes' = writes + 1
    /\ user' = [user EXCEPT ![u] = NewUser("LOCAL", as)]
    /\ UNCHANGED <<role, directoryOn, tokens, request, lockAfter, alerted, guesses, eras, crossed, raced,
                   adTook, lowered, directoryChanges>>

AskReset(r, t, u) ==
    /\ ActsAsAdmin(t) /\ u # t.u /\ user[u].source = "LOCAL"
    /\ Asks(r, t, "reset", u, 0)

\* A new temporary password; every session ends, and the counters go.
AfterReset(row) == [Cleared(row) EXCEPT !.pw = @ + 1, !.must = TRUE, !.sv = @ + 1]

ResetPassword(r) ==
    LET u == request[r].u
    IN  /\ request[r].pc = "reset"
        /\ user' = [user EXCEPT ![u] = AfterReset(@)]
        /\ alerted' = alerted \ {u} /\ guesses' = [guesses EXCEPT ![u] = 0]
        /\ Ends(r)
        /\ UNCHANGED <<role, directoryOn, tokens, lockAfter, eras, crossed, raced, adTook, lowered, writes,
                       directoryChanges>>

\* POST /users/:id/unlock and /sessions/revoke are one update each.
Unlock(r, t, u) ==
    /\ ActsAsAdmin(t) /\ user[u].source # "none"
    /\ writes' = writes + 1
    /\ user' = [user EXCEPT ![u] = Cleared(@)]
    /\ alerted' = alerted \ {u} /\ guesses' = [guesses EXCEPT ![u] = 0]
    /\ Crossing(r, u)
    /\ UNCHANGED <<role, directoryOn, tokens, request, lockAfter, eras, raced, adTook, lowered,
                   directoryChanges>>

RevokeSessions(r, t, u) ==
    /\ ActsAsAdmin(t) /\ user[u].source # "none"
    /\ writes' = writes + 1
    /\ user' = [user EXCEPT ![u].sv = @ + 1]
    /\ Crossing(r, u)
    /\ UNCHANGED <<role, directoryOn, tokens, request, lockAfter, alerted, guesses, eras, raced,
                   adTook, lowered, directoryChanges>>

\* POST /auth/password verifies the present password, also while one must be changed.
AskChange(r, t) ==
    /\ Authentic(t) /\ user[t.u].source = "LOCAL"
    /\ Asks(r, t, "change", t.u, t.via)

\* The hash takes its time; then the row, and a session of its new version.
ChangePassword(r) ==
    LET me == request[r]  u == me.u
    IN  /\ me.pc = "change"
        /\ user' = [user EXCEPT ![u].pw = @ + 1, ![u].must = FALSE, ![u].sv = @ + 1]
        /\ tokens' = tokens \cup {Token(u, user'[u], eras[u], me.given)}
        /\ Ends(r)
        /\ UNCHANGED <<role, directoryOn, lockAfter, alerted, guesses, eras, crossed, raced, adTook,
                       lowered, writes, directoryChanges>>

----------------------------------------------------------------------------
(* Around them. *)

\* The lock runs out; the count stays, and so do the guesses it leaves: one, or
\* more where the limit was raised above the count meanwhile.
LockEnds(u) ==
    /\ user[u].locked
    /\ user' = [user EXCEPT ![u].locked = FALSE]
    /\ guesses' = [guesses EXCEPT ![u] = IF user[u].fails < lockAfter THEN user[u].fails ELSE lockAfter - 1]
    /\ UNCHANGED <<role, directoryOn, tokens, request, lockAfter, alerted, eras, crossed, raced, adTook, lowered,
                   writes, directoryChanges>>

\* The directory changes, its settings do, or the limit of failures.
DirectoryChanges(u, as) ==
    /\ directoryChanges < MaxDirectoryChanges
    /\ directoryChanges' = directoryChanges + 1
    /\ role' = [role EXCEPT ![u] = as]
    /\ UNCHANGED <<user, directoryOn, tokens, request, lockAfter, alerted, guesses, eras, crossed, raced,
                   adTook, lowered, writes>>

SwitchDirectory ==
    /\ directoryChanges < MaxDirectoryChanges
    /\ directoryChanges' = directoryChanges + 1
    /\ directoryOn' = ~directoryOn
    /\ UNCHANGED <<user, role, tokens, request, lockAfter, alerted, guesses, eras, crossed, raced, adTook,
                   lowered, writes>>

SetLockAfter(n) ==
    /\ n # lockAfter /\ directoryChanges < MaxDirectoryChanges
    /\ directoryChanges' = directoryChanges + 1
    /\ lockAfter' = n /\ lowered' = (lowered \/ n < lockAfter)
    /\ UNCHANGED <<user, role, directoryOn, tokens, request, alerted, guesses, eras, crossed, raced, adTook,
                   writes>>

LoginStep(r) == Verify(r) \/ AskDirectory(r) \/ Provision(r) \/ RecordFailure(r) \/ Complete(r)
WriteStep(r) == Recheck(r) \/ CountAdmins(r) \/ UpdateUser(r) \/ ResetPassword(r) \/ ChangePassword(r)

\* A request of a session that changes an account.
WriteAsked(r, t) ==
    /\ writes < MaxWrites
    /\ \/ AskChange(r, t)
       \/ \E u \in People : \/ \E w \in Wants : AskPatch(r, t, u, w)
                            \/ \E as \in Roles : CreateUser(r, t, u, as)
                            \/ AskReset(r, t, u) \/ Unlock(r, t, u) \/ RevokeSessions(r, t, u)

AccountsNext ==
    \/ \E r \in Requests :
          \/ \E u \in People, byName \in BOOLEAN : \E pw \in {0, user[u].pw} : LogIn(r, u, pw, byName)
          \/ LoginStep(r) \/ WriteStep(r)
          \/ ~Working(r) /\ \E t \in tokens : Renew(r, t) \/ WriteAsked(r, t)
    \/ \E u \in People : LockEnds(u) \/ \E as \in Roles \cup {"none"} : DirectoryChanges(u, as)
    \/ SwitchDirectory \/ \E n \in LockLimits : SetLockAfter(n)

AccountsSpec == AccountsInit /\ [][AccountsNext]_accountVars

----------------------------------------------------------------------------
(* Properties. *)

AccountsTypeOK ==
    /\ \A u \in People : /\ user[u].source \in {"none", "LOCAL", "DIRECTORY"} /\ user[u].role \in Roles
                         /\ user[u].sv \in Nat /\ user[u].fails \in Nat
                         /\ user[u].source = "none" => user[u] = Absent
    /\ \A t \in tokens : user[t.u].source # "none" /\ t.sv <= user[t.u].sv

\* There is always an active administrator, whatever administrators do to
\* each other, unless the directory takes a role or two changes overlap.
OneAdminStays == ~raced /\ ~adTook => ActiveAdmins # {}

\* users.ts:80 refuses a change with "that would leave no active admin".
AdminLeft == ~adTook => ActiveAdmins # {}

\* A session that is still good was signed for the account's present password,
\* however sign-ins, password changes and resets overlap, and, where requests
\* about the account do not overlap, after its last deactivation.
SessionsCurrent ==
    \A t \in tokens : Authentic(t) =>
        /\ user[t.u].source = "LOCAL" => t.pw = user[t.u].pw
        /\ ~crossed[t.u] => t.era = eras[t.u]

\* Nobody gets into a local account through the directory, nor the other way round.
NoTakeover == \A t \in tokens : t.via = user[t.u].source

\* Where requests about an account do not overlap, wrong passwords are tried on
\* it at most as often as the limit says before it is locked, and once after
\* each lock that follows.
GuessesBounded == \A u \in People : ~crossed[u] /\ ~lowered => guesses[u] <= lockAfter

\* An account that is locked has had its alert since its count was last
\* cleared, unless failures overlap or the limit falls under the count.
LockIsAlerted ==
    \A u \in People : user[u].locked /\ ~crossed[u] /\ ~lowered => u \in alerted

\* Who gets in, and who stays out: an administrator is left, sessions end with
\* what they were signed for, an account is entered the way it is kept, and
\* guessing is cut short and told of.
AccountsHold == OneAdminStays /\ SessionsCurrent /\ NoTakeover /\ GuessesBounded /\ LockIsAlerted
=============================================================================
