---------------------------- MODULE Accounts_proofs ----------------------------
(***************************************************************************)
(* Proofs about Accounts, for every set of people, requests and limits.    *)
(***************************************************************************)
EXTENDS Accounts, TLAPS

AccountKinds == {"none", "LOCAL", "DIRECTORY"}
UserRow == [source : AccountKinds, role : Roles, active : BOOLEAN, sv : Nat, pw : Nat,
            must : BOOLEAN, fails : Nat, locked : BOOLEAN]
SessionToken == [u : People, sv : Nat, pw : Nat, era : Nat, via : AccountKinds]
LoginSteps == {"verify", "ask", "provision", "fail", "complete"}
WriteSteps == {"recheck", "patch", "update", "reset", "change"}
Given == Nat \cup Roles \cup Wants \cup AccountKinds
BusyRequest == [pc : LoginSteps \cup WriteSteps, u : People, row : UserRow, given : Given,
                era : Nat, via : AccountKinds]

\* The type of every variable.
RowsOK ==
    /\ user \in [People -> UserRow] /\ tokens \subseteq SessionToken
    /\ request \in [Requests -> {IdleRequest} \cup BusyRequest]
    /\ role \in [People -> Roles \cup {"none"}] /\ directoryOn \in BOOLEAN
    /\ lockAfter \in LockLimits /\ alerted \subseteq People
    /\ guesses \in [People -> Nat] /\ eras \in [People -> Nat] /\ crossed \in [People -> BOOLEAN]
    /\ raced \in BOOLEAN /\ adTook \in BOOLEAN /\ lowered \in BOOLEAN

\* An account that is not there is as it was before it was made.
AbsentIsBlank == \A u \in People : user[u].source = "none" => user[u] = Absent

\* What a row, once it was there, has in common with the account since then: how
\* the account is kept, and its password as long as the version is the same.
OfAccount(u, kind, sv, pw) ==
    /\ kind # "none" /\ kind = user[u].source /\ sv <= user[u].sv
    /\ sv = user[u].sv => pw = user[u].pw

\* A session is the account's, and of its last activation where nothing crossed.
TokenOfAccount(t) ==
    /\ OfAccount(t.u, t.via, t.sv, t.pw)
    /\ ~crossed[t.u] /\ t.sv = user[t.u].sv => t.era = eras[t.u]
TokensOfAccounts == \A t \in tokens : TokenOfAccount(t)

\* A request holds a row of the account, unless there was none, and what it was
\* given fits the step it is at.
RequestOfAccount(me) ==
    /\ me.row.source # "none" => OfAccount(me.u, me.row.source, me.row.sv, me.row.pw)
    /\ me.row.source = "none" => me.pc \in {"verify", "ask", "provision"}
    /\ me.pc = "complete" => me.via = me.row.source
    /\ me.pc = "verify" => me.via = "LOCAL"
    /\ me.pc \in {"ask", "provision"} => me.via = "DIRECTORY"
    /\ me.pc \in {"recheck", "change"} => me.given = me.row.source
    /\ me.pc = "provision" => me.given \in Roles
    /\ me.pc \in {"patch", "update"} => me.given \in Wants
    /\ me.pc = "fail" => ~me.row.locked
RequestsOfAccounts == \A r \in Requests : Working(r) => RequestOfAccount(request[r])

\* Where no two requests about an account overlapped, there is one at a time, and
\* the row it read is the row as it is.
Alone ==
    \A q, r \in Requests :
        Working(q) /\ Working(r) /\ request[q].u = request[r].u /\ ~crossed[request[r].u] => q = r
FreshRow(me) ==
    ~crossed[me.u] =>
        /\ me.era = eras[me.u]
        /\ me.row.source # "none" => /\ me.row.active = user[me.u].active /\ me.row.fails = user[me.u].fails
                                     /\ user[me.u].locked => me.row.locked
RowsAreFresh == \A r \in Requests : Working(r) => FreshRow(request[r])

\* The count of an account is of the guesses there were, but for the one that is
\* about to be recorded; and a count at the limit was told of.
Failing(u) == \E r \in Requests : request[r].pc = "fail" /\ request[r].u = u
Counted(u) ==
    ~crossed[u] /\ ~lowered =>
        /\ guesses[u] <= lockAfter /\ guesses[u] <= user[u].fails + 1
        /\ ~Failing(u) => guesses[u] <= user[u].fails /\ (user[u].locked \/ guesses[u] < lockAfter)
        /\ user[u].locked \/ user[u].fails >= lockAfter => u \in alerted
AllCounted == \A u \in People : Counted(u)

\* One change at a time; and a change that may cost an administrator is asked by
\* another one, who remains.
Changing(r) == request[r].pc \in {"patch", "update"}
OneChange == ~raced => \A q, r \in Requests : Changing(q) /\ Changing(r) => q = r
Demotions == {[role |-> "VIEWER"], [active |-> FALSE]}
AnotherAdmin ==
    ~raced /\ ~adTook =>
        /\ ActiveAdmins # {}
        /\ \A r \in Requests : Changing(r) /\ request[r].given \in Demotions => ActiveAdmins \ {request[r].u} # {}

AccountsIInv ==
    /\ RowsOK /\ AbsentIsBlank /\ TokensOfAccounts /\ RequestsOfAccounts
    /\ Alone /\ RowsAreFresh /\ AllCounted /\ OneChange /\ AnotherAdmin
-----------------------------------------------------------------------------
(***************************************************************************)
(* What the records are after each of the changes made to them.            *)
(***************************************************************************)
LEMMA ClearedRow ==
    ASSUME NEW x \in UserRow
    PROVE  /\ Cleared(x) \in UserRow /\ Cleared(x).fails = 0 /\ ~Cleared(x).locked
           /\ Cleared(x).source = x.source /\ Cleared(x).role = x.role /\ Cleared(x).active = x.active
           /\ Cleared(x).sv = x.sv /\ Cleared(x).pw = x.pw
BY DEF Cleared, UserRow

LEMMA ResetRow ==
    ASSUME NEW x \in UserRow
    PROVE  /\ AfterReset(x) \in UserRow /\ AfterReset(x).fails = 0 /\ ~AfterReset(x).locked
           /\ AfterReset(x).source = x.source /\ AfterReset(x).role = x.role /\ AfterReset(x).active = x.active
           /\ AfterReset(x).sv = x.sv + 1 /\ AfterReset(x).pw = x.pw + 1
<1> DEFINE c == Cleared(x)
           p == [c EXCEPT !.pw = @ + 1]
           m == [p EXCEPT !.must = TRUE]
           y == [m EXCEPT !.sv = @ + 1]
<1>1. /\ c \in UserRow /\ c.fails = 0 /\ ~c.locked /\ c.source = x.source /\ c.role = x.role
      /\ c.active = x.active /\ c.sv = x.sv /\ c.pw = x.pw
  BY ClearedRow
<1> HIDE DEF c
<1>2. /\ p \in UserRow /\ p.fails = c.fails /\ p.locked = c.locked /\ p.source = c.source /\ p.role = c.role
      /\ p.active = c.active /\ p.sv = c.sv /\ p.pw = c.pw + 1
  BY ONLY <1>1 DEF UserRow
<1> HIDE DEF p
<1>3. /\ m \in UserRow /\ m.fails = p.fails /\ m.locked = p.locked /\ m.source = p.source /\ m.role = p.role
      /\ m.active = p.active /\ m.sv = p.sv /\ m.pw = p.pw
  BY ONLY <1>2 DEF UserRow
<1> HIDE DEF m
<1>4. /\ y \in UserRow /\ y.fails = m.fails /\ y.locked = m.locked /\ y.source = m.source /\ y.role = m.role
      /\ y.active = m.active /\ y.sv = m.sv + 1 /\ y.pw = m.pw
  BY ONLY <1>3 DEF UserRow
<1>5. AfterReset(x) = y
  BY DEF AfterReset, c, p, m
<1> HIDE DEF y
<1> QED
  BY ONLY <1>1, <1>2, <1>3, <1>4, <1>5

LEMMA DeactivatedRow ==
    ASSUME NEW x \in UserRow, NEW was \in UserRow
    PROVE  LET y == Deactivated(x, was) IN
           /\ y \in UserRow /\ ~y.active /\ y.source = x.source /\ y.role = x.role /\ y.pw = x.pw
           /\ y.sv = IF was.active THEN x.sv + 1 ELSE x.sv
           /\ y.fails = x.fails /\ y.locked = x.locked
<1> DEFINE n == IF was.active THEN x.sv + 1 ELSE x.sv
           p == [x EXCEPT !.active = FALSE]
<1>1. n \in Nat
  BY DEF UserRow
<1> HIDE DEF n
<1>2. /\ p \in UserRow /\ ~p.active /\ p.source = x.source /\ p.role = x.role /\ p.pw = x.pw
      /\ p.fails = x.fails /\ p.locked = x.locked
  BY DEF UserRow
<1>3. Deactivated(x, was) = [p EXCEPT !.sv = n]
  BY DEF Deactivated, UserRow, n
<1> HIDE DEF p
<1>4. LET y == [p EXCEPT !.sv = n] IN
      /\ y \in UserRow /\ y.active = p.active /\ y.source = p.source /\ y.role = p.role /\ y.pw = p.pw
      /\ y.sv = n /\ y.fails = p.fails /\ y.locked = p.locked
  BY ONLY <1>1, <1>2 DEF UserRow
<1> QED
  BY <1>2, <1>3, <1>4 DEF n

LEMMA NewRow ==
    ASSUME NEW kind \in {"LOCAL", "DIRECTORY"}, NEW as \in Roles
    PROVE  LET y == NewUser(kind, as) IN
           /\ y \in UserRow /\ y.source = kind /\ y.role = as /\ y.active /\ y.sv = 0 /\ y.pw = 1
           /\ y.fails = 0 /\ ~y.locked
BY DEF NewUser, Absent, UserRow, AccountKinds, Roles

LEMMA BusyRequests ==
    ASSUME RowsOK, NEW r \in Requests, Working(r)
    PROVE  request[r] \in BusyRequest /\ request[r].u \in People /\ request[r].row \in UserRow
           /\ user[request[r].u] \in UserRow
<1>1. request[r] \in {IdleRequest} \cup BusyRequest /\ request[r] # IdleRequest
  BY DEF RowsOK, Working, IdleRequest
<1> QED
  BY <1>1 DEF RowsOK, BusyRequest

LEMMA Endings ==
    ASSUME RowsOK, NEW r \in Requests, Ends(r)
    PROVE  /\ request' \in [Requests -> {IdleRequest} \cup BusyRequest]
           /\ request'[r].pc = "idle" /\ \A q \in Requests \ {r} : request'[q] = request[q]
BY DEF RowsOK, Ends, IdleRequest

LEMMA Advances ==
    ASSUME RowsOK, NEW r \in Requests, Working(r), NEW pc \in LoginSteps \cup WriteSteps, GoesOn(r, pc)
    PROVE  /\ request' \in [Requests -> {IdleRequest} \cup BusyRequest]
           /\ request'[r].pc = pc /\ request'[r].u = request[r].u /\ request'[r].row = request[r].row
           /\ request'[r].given = request[r].given /\ request'[r].era = request[r].era
           /\ request'[r].via = request[r].via
           /\ \A q \in Requests \ {r} : request'[q] = request[q]
<1>1. request[r] \in BusyRequest
  BY BusyRequests
<1>2. /\ [request[r] EXCEPT !.pc = pc] \in BusyRequest /\ [request[r] EXCEPT !.pc = pc].pc = pc
      /\ [request[r] EXCEPT !.pc = pc].u = request[r].u /\ [request[r] EXCEPT !.pc = pc].row = request[r].row
      /\ [request[r] EXCEPT !.pc = pc].given = request[r].given /\ [request[r] EXCEPT !.pc = pc].era = request[r].era
      /\ [request[r] EXCEPT !.pc = pc].via = request[r].via
  BY ONLY <1>1, pc \in LoginSteps \cup WriteSteps DEF BusyRequest
<1>3. request' = [request EXCEPT ![r] = [request[r] EXCEPT !.pc = pc]]
  BY DEF GoesOn
<1> QED
  BY ONLY <1>2, <1>3, r \in Requests, RowsOK DEF RowsOK

LEMMA Beginnings ==
    ASSUME RowsOK, NEW r \in Requests, NEW kind \in LoginSteps \cup WriteSteps, NEW u \in People, NEW given \in Given,
           request' = Begin(r, kind, u, given)
    PROVE  /\ request' \in [Requests -> {IdleRequest} \cup BusyRequest]
           /\ request'[r].pc = kind /\ request'[r].u = u /\ request'[r].row = user[u] /\ request'[r].given = given
           /\ request'[r].era = eras[u] /\ request'[r].via = IF kind = "ask" THEN "DIRECTORY" ELSE "LOCAL"
           /\ \A q \in Requests \ {r} : request'[q] = request[q]
<1>1. [pc |-> kind, u |-> u, row |-> user[u], given |-> given, era |-> eras[u],
       via |-> IF kind = "ask" THEN "DIRECTORY" ELSE "LOCAL"] \in BusyRequest
  BY DEF RowsOK, BusyRequest, AccountKinds
<1> QED
  BY <1>1 DEF RowsOK, Begin
-----------------------------------------------------------------------------
(***************************************************************************)
(* What a step has to do for each part of the invariant to stay.           *)
(***************************************************************************)
\* An account that is there keeps its kind, and its password with its version.
Kept(u) ==
    user[u].source # "none" =>
        /\ user'[u].source = user[u].source /\ user[u].sv <= user'[u].sv
        /\ user'[u].sv = user[u].sv => user'[u].pw = user[u].pw

LEMMA AccountKept ==
    ASSUME RowsOK, RowsOK', NEW u \in People, Kept(u), NEW kind, NEW sv \in Nat, NEW pw, OfAccount(u, kind, sv, pw)
    PROVE  OfAccount(u, kind, sv, pw)'
<1>1. user[u].sv \in Nat /\ user'[u].sv \in Nat
  BY DEF RowsOK, UserRow
<1> QED
  BY ONLY <1>1, sv \in Nat, Kept(u), OfAccount(u, kind, sv, pw) DEF Kept, OfAccount

LEMMA TokensKept ==
    ASSUME RowsOK, RowsOK', TokensOfAccounts, \A u \in People : Kept(u),
           \A u \in People : ~crossed'[u] => /\ ~crossed[u]
                                             /\ eras'[u] = eras[u] \/ user'[u].sv > user[u].sv,
           \A t \in tokens' \ tokens : TokenOfAccount(t)'
    PROVE  TokensOfAccounts'
<1> SUFFICES ASSUME NEW t \in tokens', t \in tokens PROVE TokenOfAccount(t)'
    BY DEF TokensOfAccounts
<1>1. t \in SessionToken /\ t.u \in People /\ t.sv \in Nat /\ TokenOfAccount(t)
  BY DEF RowsOK, SessionToken, TokensOfAccounts
<1>2. OfAccount(t.u, t.via, t.sv, t.pw)'
  BY <1>1, AccountKept DEF TokenOfAccount
<1>3. user[t.u].sv \in Nat /\ user'[t.u].sv \in Nat
  BY <1>1 DEF RowsOK, UserRow
<1>4. ~crossed'[t.u] /\ t.sv = user'[t.u].sv => t.era = eras'[t.u]
  <2>1. t.sv <= user[t.u].sv /\ user[t.u].sv <= user'[t.u].sv
        /\ (~crossed[t.u] /\ t.sv = user[t.u].sv => t.era = eras[t.u])
    BY <1>1 DEF TokenOfAccount, OfAccount, Kept
  <2>2. ~crossed'[t.u] => ~crossed[t.u] /\ (eras'[t.u] = eras[t.u] \/ user'[t.u].sv > user[t.u].sv)
    BY <1>1
  <2> QED
    BY ONLY <1>1, <1>3, <2>1, <2>2
<1> QED
  BY <1>2, <1>4 DEF TokenOfAccount

LEMMA RequestKept ==
    ASSUME RowsOK, RowsOK', RequestsOfAccounts, \A u \in People : Kept(u), NEW q \in Requests,
           Working(q), request'[q] = request[q]
    PROVE  RequestOfAccount(request[q])'
<1>1. request[q].u \in People /\ request[q].row.sv \in Nat
  BY BusyRequests DEF UserRow
<1>2. RequestOfAccount(request[q])
  BY DEF RequestsOfAccounts
<1>3. ASSUME request[q].row.source # "none"
      PROVE  /\ request[q].row.source = user'[request[q].u].source /\ request[q].row.sv <= user'[request[q].u].sv
             /\ request[q].row.sv = user'[request[q].u].sv => request[q].row.pw = user'[request[q].u].pw
  <2>1. OfAccount(request[q].u, request[q].row.source, request[q].row.sv, request[q].row.pw) /\ Kept(request[q].u)
    BY <1>1, <1>2, <1>3 DEF RequestOfAccount
  <2>2. user[request[q].u].sv \in Nat /\ user'[request[q].u].sv \in Nat
    BY <1>1 DEF RowsOK, UserRow
  <2> QED
    BY ONLY <1>1, <2>1, <2>2 DEF OfAccount, Kept
<1>4. request[q].row.source # "none" =>
          OfAccount(request[q].u, request[q].row.source, request[q].row.sv, request[q].row.pw)'
  BY <1>3 DEF OfAccount
<1> QED
  BY ONLY <1>2, <1>4, request'[q] = request[q] DEF RequestOfAccount

\* Requests that go on, or end, without writing anything new.
LEMMA AloneKept ==
    ASSUME Alone, \A u \in People : crossed[u] => crossed'[u], RowsOK,
           \A q \in Requests : Working(q)' => Working(q) /\ request'[q].u = request[q].u
    PROVE  Alone'
BY BusyRequests DEF Alone

LEMMA OneChangeKept ==
    ASSUME OneChange, raced => raced', \A q \in Requests : Changing(q)' => Changing(q)
    PROVE  OneChange'
BY DEF OneChange

LEMMA AnotherAdminKept ==
    ASSUME AnotherAdmin, raced => raced', adTook => adTook', adTook' \/ ActiveAdmins \subseteq ActiveAdmins',
           \A q \in Requests : Changing(q)' => Changing(q) /\ request'[q].u = request[q].u
                                                 /\ request'[q].given = request[q].given
    PROVE  AnotherAdmin'
<1> SUFFICES ASSUME ~raced', ~adTook'
             PROVE  /\ ActiveAdmins' # {}
                    /\ \A r \in Requests : Changing(r)' /\ request'[r].given \in Demotions
                                             => ActiveAdmins' \ {request'[r].u} # {}
    BY DEF AnotherAdmin, Demotions
<1> QED
  BY DEF AnotherAdmin

\* A write of request r to its own account leaves the other requests' rows fresh.
LEMMA FreshKept ==
    ASSUME RowsOK, Alone, RowsAreFresh, NEW r \in Requests, Working(r), crossed' = crossed,
           \A v \in People \ {request[r].u} : user'[v] = user[v] /\ eras'[v] = eras[v],
           NEW q \in Requests \ {r}, Working(q), request'[q] = request[q]
    PROVE  FreshRow(request[q])'
<1>1. request[q].u \in People /\ request[r].u \in People
  BY BusyRequests
<1>2. CASE request[q].u = request[r].u
  BY <1>1, <1>2 DEF Alone, FreshRow
<1>3. CASE request[q].u # request[r].u
  BY <1>1, <1>3 DEF RowsAreFresh, FreshRow
<1> QED
  BY <1>2, <1>3

\* An account nobody touches has its count.
LEMMA CountKept ==
    ASSUME RowsOK, NEW v \in People, Counted(v), user'[v] = user[v], guesses'[v] = guesses[v],
           crossed[v] => crossed'[v], lowered => lowered', lowered' \/ lockAfter <= lockAfter', lockAfter' \in Nat,
           v \in alerted => v \in alerted', Failing(v)' <=> Failing(v)
    PROVE  Counted(v)'
<1>1. user[v].fails \in Nat /\ guesses[v] \in Nat /\ lockAfter \in Nat
  BY AccountsAssumption DEF RowsOK, UserRow
<1> QED
  BY <1>1 DEF Counted
-----------------------------------------------------------------------------
(***************************************************************************)
(* The three kinds of steps: a request begins, a request goes on or ends,  *)
(* or something happens to one account in a single statement.              *)
(***************************************************************************)
LEMMA BeginHolds ==
    ASSUME AccountsIInv, RowsOK', NEW r \in Requests, ~Working(r),
           NEW kind \in {"verify", "ask", "recheck", "patch", "reset", "change"}, NEW u \in People, NEW given \in Given,
           request' = Begin(r, kind, u, given), Crossing(r, u),
           UNCHANGED <<user, tokens, lockAfter, alerted, guesses, eras, adTook, lowered>>,
           raced => raced', kind = "patch" /\ (\E q \in Requests : Changing(q)) => raced',
           user[u].source = "none" => kind \in {"verify", "ask"},
           kind \in {"recheck", "change"} => given = user[u].source,
           kind = "patch" => given \in Wants,
           kind = "patch" /\ given \in Demotions => ActiveAdmins \ {u} # {}
    PROVE  AccountsIInv'
<1> USE DEF AccountsIInv
<1>1. /\ request'[r].pc = kind /\ request'[r].u = u /\ request'[r].row = user[u] /\ request'[r].given = given
      /\ request'[r].era = eras[u] /\ request'[r].via = IF kind = "ask" THEN "DIRECTORY" ELSE "LOCAL"
      /\ \A q \in Requests \ {r} : request'[q] = request[q]
  <2>1. kind \in LoginSteps \cup WriteSteps
    BY DEF LoginSteps, WriteSteps
  <2> QED
    BY ONLY <2>1, Beginnings, RowsOK, r \in Requests, u \in People, given \in Given, request' = Begin(r, kind, u, given)
<1>2. /\ \A v \in People : crossed[v] => crossed'[v]
      /\ \A q \in Requests \ {r} : Working(q) /\ request[q].u = u => crossed'[u]
  BY DEF Crossing, Overlaps, RowsOK
<1>3. AbsentIsBlank'
  BY DEF AbsentIsBlank
<1>4. \A v \in People : Kept(v)
  BY DEF Kept, RowsOK, UserRow
<1>5. TokensOfAccounts'
  BY <1>2, <1>4, TokensKept
<1>6. RequestOfAccount(request[r])'
  <2>1. user[u].sv \in Nat
    BY DEF RowsOK, UserRow
  <2> QED
    BY <1>1, <2>1 DEF RequestOfAccount, OfAccount
<1>7. RequestsOfAccounts'
  <2> SUFFICES ASSUME NEW q \in Requests, q # r, Working(q)' PROVE RequestOfAccount(request[q])'
    BY <1>6 DEF RequestsOfAccounts
  <2>1. Working(q) /\ request'[q] = request[q]
    BY <1>1 DEF Working
  <2> QED
    BY <1>4, <2>1, RequestKept
<1>8. Alone'
  <2>1. \A q \in Requests \ {r} : Working(q)' => Working(q) /\ request'[q].u = request[q].u /\ request[q].u \in People
    BY <1>1, BusyRequests DEF Working
  <2> QED
    BY <1>1, <1>2, <2>1 DEF Alone
<1>9. RowsAreFresh'
  <2>1. FreshRow(request[r])'
    BY <1>1 DEF FreshRow
  <2>2. ASSUME NEW q \in Requests \ {r}, Working(q)' PROVE FreshRow(request[q])'
    <3>1. Working(q) /\ request'[q] = request[q] /\ request[q].u \in People /\ FreshRow(request[q])
      BY <1>1, <2>2, BusyRequests DEF Working, RowsAreFresh
    <3> QED
      BY <1>2, <3>1 DEF FreshRow
  <2> QED
    BY <2>1, <2>2 DEF RowsAreFresh
<1>10. AllCounted'
  <2> SUFFICES ASSUME NEW v \in People PROVE Counted(v)'
    BY DEF AllCounted
  <2>1. Failing(v)' <=> Failing(v)
    BY <1>1 DEF Failing, Working
  <2>2. lockAfter' \in Nat /\ lockAfter <= lockAfter' /\ Counted(v)
    BY AccountsAssumption DEF RowsOK, AllCounted
  <2> QED
    BY <1>2, <2>1, <2>2, CountKept
<1>11. \A q \in Requests \ {r} : Changing(q)' <=> Changing(q)
  BY <1>1 DEF Changing
<1>12. OneChange'
  BY <1>1, <1>11 DEF OneChange, Changing
<1>13. AnotherAdmin'
  <2>1. ActiveAdmins' = ActiveAdmins
    BY DEF ActiveAdmins
  <2>2. Changing(r)' => kind = "patch"
    BY <1>1 DEF Changing
  <2> QED
    BY <1>1, <1>11, <2>1, <2>2 DEF AnotherAdmin, Demotions
<1> QED
  BY <1>3, <1>5, <1>7, <1>8, <1>9, <1>10, <1>12, <1>13

LEMMA StepHolds ==
    ASSUME AccountsIInv, RowsOK', NEW r \in Requests, Working(r), NEW u \in People, u = request[r].u,
           \A q \in Requests \ {r} : request'[q] = request[q],
           Working(r)' => request'[r].u = u /\ RequestOfAccount(request[r])' /\ FreshRow(request[r])',
           UNCHANGED <<crossed, raced, lowered, lockAfter>>,
           \A v \in People \ {u} : /\ user'[v] = user[v] /\ eras'[v] = eras[v] /\ guesses'[v] = guesses[v]
                                   /\ v \in alerted => v \in alerted',
           Kept(u), user'[u].source = "none" => user'[u] = user[u],
           eras'[u] = eras[u] \/ crossed[u] \/ user'[u].sv > user[u].sv,
           \A t \in tokens' \ tokens : TokenOfAccount(t)',
           Counted(u)', Changing(r)' => Changing(r), AnotherAdmin'
    PROVE  AccountsIInv'
<1> USE DEF AccountsIInv
<1>2. \A v \in People : user[v].sv \in Nat
  BY DEF RowsOK, UserRow
<1>3. AbsentIsBlank'
  BY DEF AbsentIsBlank
<1>4. \A v \in People : Kept(v)
  BY <1>2 DEF Kept
<1>5. TokensOfAccounts'
  <2>1. \A v \in People : ~crossed'[v] => ~crossed[v] /\ (eras'[v] = eras[v] \/ user'[v].sv > user[v].sv)
    OBVIOUS
  <2> QED
    BY <1>4, <2>1, TokensKept
<1>6. \A q \in Requests : Working(q)' => Working(q) /\ request'[q].u = request[q].u
  BY DEF Working
<1>7. RequestsOfAccounts'
  <2> SUFFICES ASSUME NEW q \in Requests, q # r, Working(q)' PROVE RequestOfAccount(request[q])'
    BY DEF RequestsOfAccounts
  <2> QED
    BY <1>4, <1>6, RequestKept
<1>8. Alone'
  BY <1>6, AloneKept
<1>9. RowsAreFresh'
  <2> SUFFICES ASSUME NEW q \in Requests, q # r, Working(q)' PROVE FreshRow(request[q])'
    BY DEF RowsAreFresh
  <2> QED
    BY <1>6, FreshKept
<1>10. AllCounted'
  <2> SUFFICES ASSUME NEW v \in People, v # u PROVE Counted(v)'
    BY DEF AllCounted
  <2>1. Failing(v)' <=> Failing(v)
    BY DEF Failing, Working
  <2>2. lockAfter' \in Nat /\ lockAfter <= lockAfter' /\ Counted(v)
    BY AccountsAssumption DEF RowsOK, AllCounted
  <2> QED
    BY <2>1, <2>2, CountKept
<1>11. OneChange'
  <2>1. \A q \in Requests : Changing(q)' => Changing(q)
    BY DEF Changing
  <2> QED
    BY <2>1, OneChangeKept
<1> QED
  BY <1>3, <1>5, <1>7, <1>8, <1>9, <1>10, <1>11

LEMMA StatementHolds ==
    ASSUME AccountsIInv, RowsOK', NEW u \in People, UNCHANGED <<request, raced, lowered, lockAfter, eras>>,
           \A v \in People : crossed[v] => crossed'[v],
           \A v \in People \ {u} : /\ user'[v] = user[v] /\ guesses'[v] = guesses[v]
                                   /\ v \in alerted => v \in alerted',
           Kept(u), user'[u].source = "none" => user'[u] = user[u],
           \A t \in tokens' \ tokens : TokenOfAccount(t)',
           \A q \in Requests : Working(q) /\ request[q].u = u => FreshRow(request[q])',
           Counted(u)', adTook => adTook', ActiveAdmins \subseteq ActiveAdmins'
    PROVE  AccountsIInv'
<1> USE DEF AccountsIInv
<1>2. \A v \in People : user[v].sv \in Nat
  BY DEF RowsOK, UserRow
<1>3. AbsentIsBlank'
  BY DEF AbsentIsBlank
<1>4. \A v \in People : Kept(v)
  BY <1>2 DEF Kept
<1>5. TokensOfAccounts'
  <2>1. \A v \in People : ~crossed'[v] => ~crossed[v] /\ eras'[v] = eras[v]
    OBVIOUS
  <2> QED
    BY <1>4, <2>1, TokensKept
<1>6. \A q \in Requests : /\ Working(q)' <=> Working(q)
                          /\ Changing(q)' <=> Changing(q)
  BY DEF Working, Changing
<1>7. RequestsOfAccounts'
  <2> SUFFICES ASSUME NEW q \in Requests, Working(q)' PROVE RequestOfAccount(request[q])'
    BY DEF RequestsOfAccounts
  <2> QED
    BY <1>4, <1>6, RequestKept
<1>8. Alone'
  BY <1>6, AloneKept
<1>9. RowsAreFresh'
  <2> SUFFICES ASSUME NEW q \in Requests, Working(q), request[q].u # u PROVE FreshRow(request[q])'
    BY <1>6 DEF RowsAreFresh
  <2>1. request[q].u \in People
    BY BusyRequests
  <2> QED
    BY <2>1 DEF FreshRow, RowsAreFresh
<1>10. AllCounted'
  <2> SUFFICES ASSUME NEW v \in People, v # u PROVE Counted(v)'
    BY DEF AllCounted
  <2>1. Failing(v)' <=> Failing(v)
    BY DEF Failing
  <2>2. lockAfter' \in Nat /\ lockAfter <= lockAfter' /\ Counted(v)
    BY AccountsAssumption DEF RowsOK, AllCounted
  <2> QED
    BY <2>1, <2>2, CountKept
<1>11. OneChange' /\ AnotherAdmin'
  BY <1>6, OneChangeKept, AnotherAdminKept
<1> QED
  BY <1>3, <1>5, <1>7, <1>8, <1>9, <1>10, <1>11
-----------------------------------------------------------------------------
(***************************************************************************)
(* Requests that begin.                                                    *)
(***************************************************************************)
LEMMA CrossingType == ASSUME RowsOK, NEW r, NEW u, Crossing(r, u) PROVE crossed' \in [People -> BOOLEAN]
<1>1. \A v \in People : crossed'[v] \in BOOLEAN
  BY DEF RowsOK, Crossing, Overlaps
<1> QED
  BY <1>1 DEF RowsOK, Crossing

LEMMA BeginType ==
    ASSUME RowsOK, NEW r \in Requests, NEW kind \in LoginSteps \cup WriteSteps, NEW u \in People, NEW given \in Given,
           request' = Begin(r, kind, u, given), Crossing(r, u), raced' \in BOOLEAN,
           UNCHANGED <<user, role, directoryOn, tokens, lockAfter, alerted, guesses, eras, adTook, lowered>>
    PROVE  RowsOK'
<1>1. /\ request' \in [Requests -> {IdleRequest} \cup BusyRequest] /\ crossed' \in [People -> BOOLEAN]
  BY Beginnings, CrossingType
<1> QED
  BY ONLY <1>1, RowsOK, raced' \in BOOLEAN,
          UNCHANGED <<user, role, directoryOn, tokens, lockAfter, alerted, guesses, eras, adTook, lowered>> DEF RowsOK

LEMMA LogInHolds ==
    ASSUME AccountsIInv, NEW r \in Requests, NEW u \in People, NEW byName \in BOOLEAN,
           NEW password \in {0, user[u].pw}, LogIn(r, u, password, byName)
    PROVE  AccountsIInv'
<1>1. PICK kind \in {"verify", "ask"} : request' = Begin(r, kind, u, password)
  BY DEF LogIn
<1>2. RowsOK /\ password \in Given
  BY DEF AccountsIInv, RowsOK, UserRow, Given
<1>3. /\ ~Working(r) /\ Crossing(r, u) /\ raced' = raced
      /\ UNCHANGED <<user, role, directoryOn, tokens, lockAfter, alerted, guesses, eras, adTook, lowered>>
  BY DEF LogIn
<1>4. kind \in LoginSteps \cup WriteSteps /\ raced' \in BOOLEAN
  BY <1>2, <1>3 DEF LoginSteps, RowsOK
<1>5. RowsOK'
  BY <1>1, <1>2, <1>3, <1>4, BeginType
<1> QED
  BY <1>1, <1>2, <1>3, <1>5, BeginHolds

\* A page's request: one that is not told apart by what it is about.
LEMMA AsksHolds ==
    ASSUME AccountsIInv, NEW r \in Requests, ~Working(r), NEW t, NEW u \in People, user[u].source # "none",
           NEW kind \in {"patch", "reset", "change"}, NEW given \in Given, Asks(r, t, kind, u, given),
           kind = "change" => given = user[u].source, kind = "patch" => given \in Wants,
           kind = "patch" /\ given \in Demotions => ActiveAdmins \ {u} # {}
    PROVE  AccountsIInv'
<1>1. /\ request' = Begin(r, kind, u, given) /\ Crossing(r, u)
      /\ UNCHANGED <<user, role, directoryOn, tokens, lockAfter, alerted, guesses, eras, adTook, lowered>>
  BY DEF Asks
<1>2. raced' \in BOOLEAN /\ (raced => raced') /\ (kind = "patch" /\ (\E q \in Requests : Changing(q)) => raced')
  BY DEF Asks, AccountsIInv, RowsOK, Changing
<1>3. RowsOK /\ kind \in LoginSteps \cup WriteSteps
  BY DEF AccountsIInv, WriteSteps
<1>4. RowsOK'
  BY <1>1, <1>2, <1>3, BeginType
<1> QED
  BY <1>1, <1>2, <1>4, BeginHolds

\* Whose session it is.
LEMMA TokenFacts ==
    ASSUME AccountsIInv, NEW t \in tokens
    PROVE  /\ t.u \in People /\ t.via # "none" /\ t.via = user[t.u].source /\ t.via \in Given
           /\ user[t.u] \in UserRow
           /\ ActsAsAdmin(t) => t.u \in ActiveAdmins
<1>1. t \in SessionToken /\ TokenOfAccount(t) /\ user \in [People -> UserRow]
  BY DEF AccountsIInv, RowsOK, TokensOfAccounts
<1>2. t.u \in People /\ t.via \in AccountKinds
  BY <1>1 DEF SessionToken
<1> QED
  BY <1>1, <1>2 DEF TokenOfAccount, OfAccount, ActsAsAdmin, Authentic, ActiveAdmins, Given

LEMMA AskPatchHolds ==
    ASSUME AccountsIInv, NEW r \in Requests, ~Working(r), NEW t \in tokens, NEW u \in People, NEW want \in Wants,
           AskPatch(r, t, u, want)
    PROVE  AccountsIInv'
<1>1. t.u \in ActiveAdmins /\ t.u \in People /\ user[u].source # "none" /\ Asks(r, t, "patch", u, want)
  BY TokenFacts DEF AskPatch
<1>2. want \in Demotions => u # t.u
  BY <1>1 DEF AskPatch, LosesAdmin, Demotions, ActiveAdmins
<1>3. want \in Demotions => ActiveAdmins \ {u} # {}
  BY <1>1, <1>2
<1>4. want \in Given
  BY DEF Given
<1> QED
  BY <1>1, <1>3, <1>4, AsksHolds

LEMMA AskResetHolds ==
    ASSUME AccountsIInv, NEW r \in Requests, ~Working(r), NEW t \in tokens, NEW u \in People, AskReset(r, t, u)
    PROVE  AccountsIInv'
<1>1. 0 \in Given /\ user[u].source # "none" /\ Asks(r, t, "reset", u, 0)
  BY DEF Given, AskReset
<1> QED
  BY <1>1, AsksHolds

LEMMA AskChangeHolds ==
    ASSUME AccountsIInv, NEW r \in Requests, ~Working(r), NEW t \in tokens, AskChange(r, t)
    PROVE  AccountsIInv'
<1>1. user[t.u].source # "none" /\ Asks(r, t, "change", t.u, t.via)
  BY DEF AskChange
<1> QED
  BY <1>1, TokenFacts, AsksHolds

LEMMA RenewHolds ==
    ASSUME AccountsIInv, NEW r \in Requests, ~Working(r), NEW t \in tokens, Renew(r, t)
    PROVE  AccountsIInv'
<1>1. /\ t.u \in People /\ t.via # "none" /\ t.via = user[t.u].source /\ t.via \in Given /\ user[t.u] \in UserRow
      /\ t.via \in AccountKinds
  BY TokenFacts DEF AccountsIInv, RowsOK, SessionToken
<1>2. RowsOK /\ raced \in BOOLEAN
  BY DEF AccountsIInv, RowsOK
<1>3. CASE user[t.u].source = "DIRECTORY"
  <2>1. /\ request' = Begin(r, "recheck", t.u, t.via) /\ Crossing(r, t.u) /\ raced' = raced
        /\ UNCHANGED <<user, role, directoryOn, tokens, lockAfter, alerted, guesses, eras, adTook, lowered>>
    BY <1>3 DEF Renew
  <2>2. RowsOK' /\ "recheck" \in LoginSteps \cup WriteSteps
    BY <1>1, <1>2, <2>1, BeginType DEF WriteSteps
  <2> QED
    BY <1>1, <1>3, <2>1, <2>2, BeginHolds
<1>4. CASE user[t.u].source # "DIRECTORY"
  <2>1. /\ tokens' = tokens \cup {Token(t.u, user[t.u], eras[t.u], t.via)}
        /\ UNCHANGED <<user, role, directoryOn, request, crossed, lockAfter, alerted, guesses, eras, raced, adTook, lowered>>
    BY <1>4 DEF Renew
  <2>2. Token(t.u, user[t.u], eras[t.u], t.via) \in SessionToken
    BY <1>1, <1>2 DEF Token, SessionToken, RowsOK, UserRow
  <2>3. RowsOK'
    BY ONLY <1>2, <2>1, <2>2 DEF RowsOK
  <2>4. \A n \in tokens' \ tokens : TokenOfAccount(n)'
    <3>1. user[t.u].sv \in Nat
      BY <1>1 DEF UserRow
    <3> QED
      BY <1>1, <2>1, <3>1 DEF TokenOfAccount, OfAccount, Token
  <2>5. Kept(t.u)
    BY <1>1, <2>1 DEF Kept, UserRow
  <2>6. \A q \in Requests : Working(q) => FreshRow(request[q])'
    BY <2>1 DEF AccountsIInv, RowsAreFresh, FreshRow
  <2>7. Counted(t.u)'
    BY <1>1, <2>1 DEF AccountsIInv, AllCounted, Counted, Failing
  <2>8. ActiveAdmins' = ActiveAdmins
    BY <2>1 DEF ActiveAdmins
  <2> QED
    BY <1>1, <2>1, <2>3, <2>4, <2>5, <2>6, <2>7, <2>8, StatementHolds
<1> QED
  BY <1>3, <1>4
-----------------------------------------------------------------------------
(***************************************************************************)
(* A sign-in.                                                              *)
(***************************************************************************)
\* Where nothing crossed, a request that is not about to record a failure leaves
\* none to be recorded.
LEMMA NoneFailing ==
    ASSUME AccountsIInv, NEW r \in Requests, Working(r), request[r].pc # "fail", ~crossed[request[r].u]
    PROVE  ~Failing(request[r].u)
BY DEF AccountsIInv, Alone, Failing, Working

\* The part of the invariant about administrators needs only what an account is.
LEMMA AdminsUntouched ==
    ASSUME AccountsIInv, UNCHANGED <<user, raced, adTook>>, NEW r \in Requests,
           \A q \in Requests \ {r} : request'[q] = request[q], Changing(r)' => Changing(r) /\ request'[r].u = request[r].u
                                                                            /\ request'[r].given = request[r].given
    PROVE  AnotherAdmin'
<1>1. ActiveAdmins' = ActiveAdmins
  BY DEF ActiveAdmins
<1>2. \A q \in Requests : Changing(q)' => Changing(q) /\ request'[q].u = request[q].u
                                                       /\ request'[q].given = request[q].given
  BY DEF Changing
<1> QED
  BY <1>1, <1>2, AnotherAdminKept DEF AccountsIInv

\* A request ends, or goes on with what it has read.
LEMMA GoesOnHolds ==
    ASSUME AccountsIInv, NEW r \in Requests, Working(r), NEW u, u = request[r].u, request[r].pc # "fail",
           \/ Ends(r)
           \/ GoesOn(r, "complete") /\ request[r].pc = "verify" /\ request[r].row.source = "LOCAL"
           \/ GoesOn(r, "update") /\ request[r].pc = "patch",
           UNCHANGED <<user, role, directoryOn, tokens, lockAfter, alerted, guesses, eras, crossed, raced, adTook, lowered>>
    PROVE  AccountsIInv'
<1>1. RowsOK /\ request[r] \in BusyRequest /\ u \in People /\ user[u] \in UserRow
  BY BusyRequests DEF AccountsIInv
<1>2. /\ request' \in [Requests -> {IdleRequest} \cup BusyRequest]
      /\ \A q \in Requests \ {r} : request'[q] = request[q]
      /\ Working(r)' => /\ request'[r].u = u /\ request'[r].row = request[r].row /\ request'[r].era = request[r].era
                        /\ request'[r].given = request[r].given /\ request'[r].via = request[r].via
                        /\ \/ request'[r].pc = "complete" /\ request[r].pc = "verify" /\ request[r].row.source = "LOCAL"
                           \/ request'[r].pc = "update" /\ request[r].pc = "patch"
  BY <1>1, Endings, Advances DEF LoginSteps, WriteSteps, Working
<1>3. RowsOK'
  BY ONLY <1>1, <1>2, UNCHANGED <<user, role, directoryOn, tokens, lockAfter, alerted, guesses, eras, crossed,
                                  raced, adTook, lowered>> DEF RowsOK
<1>4. RequestOfAccount(request[r]) /\ FreshRow(request[r]) /\ Counted(u)
  BY <1>1 DEF AccountsIInv, RequestsOfAccounts, RowsAreFresh, AllCounted
<1>5. ASSUME Working(r)' PROVE RequestOfAccount(request[r])' /\ FreshRow(request[r])'
  BY <1>2, <1>4, <1>5 DEF RequestOfAccount, OfAccount, FreshRow
<1>6. Kept(u)
  BY <1>1 DEF Kept, UserRow
<1>7. Counted(u)'
  <2>1. Failing(u)' <=> Failing(u)
    BY <1>2 DEF Failing, Working
  <2> QED
    BY <1>4, <2>1 DEF Counted
<1>8. Changing(r)' => Changing(r)
  BY <1>2 DEF Changing, Working
<1>9. AnotherAdmin'
  BY <1>2, <1>8, AdminsUntouched DEF Changing, Working
<1> QED
  BY <1>1, <1>2, <1>3, <1>5, <1>6, <1>7, <1>8, <1>9, StepHolds

\* A wrong password: it is counted as tried, then recorded.
LEMMA FailHolds ==
    ASSUME AccountsIInv, NEW r \in Requests, NEW u, u = request[r].u, request[r].pc \in {"verify", "ask"}, GoesOn(r, "fail"),
           ~request[r].row.locked, request[r].row.source # "none",
           guesses' = [guesses EXCEPT ![u] = @ + 1],
           UNCHANGED <<user, role, directoryOn, tokens, lockAfter, alerted, eras, crossed, raced, adTook, lowered>>
    PROVE  AccountsIInv'
<1>0. Working(r)
  BY DEF Working
<1>1. RowsOK /\ request[r] \in BusyRequest /\ u \in People /\ user[u] \in UserRow
  BY <1>0, BusyRequests DEF AccountsIInv
<1>2. /\ request' \in [Requests -> {IdleRequest} \cup BusyRequest]
      /\ \A q \in Requests \ {r} : request'[q] = request[q]
      /\ request'[r].u = u /\ request'[r].row = request[r].row /\ request'[r].era = request[r].era
      /\ request'[r].pc = "fail"
  BY <1>0, <1>1, Advances DEF LoginSteps
<1>3. RowsOK'
  <2>1. guesses' \in [People -> Nat]
    BY <1>1 DEF RowsOK
  <2> QED
    BY ONLY <1>1, <1>2, <2>1, UNCHANGED <<user, role, directoryOn, tokens, lockAfter, alerted, eras, crossed,
                                          raced, adTook, lowered>> DEF RowsOK
<1>4. RequestOfAccount(request[r]) /\ FreshRow(request[r]) /\ Counted(u)
  BY <1>0, <1>1 DEF AccountsIInv, RequestsOfAccounts, RowsAreFresh, AllCounted
<1>5. RequestOfAccount(request[r])' /\ FreshRow(request[r])'
  BY <1>2, <1>4 DEF RequestOfAccount, OfAccount, FreshRow
<1>6. Kept(u)
  BY <1>1 DEF Kept, UserRow
<1>7. Counted(u)'
  <2>1. ~crossed[u] => ~Failing(u) /\ ~user[u].locked
    BY <1>0, <1>4, NoneFailing DEF FreshRow
  <2>2. Failing(u)'
    BY <1>2 DEF Failing
  <2>3. guesses[u] \in Nat /\ guesses'[u] = guesses[u] + 1 /\ user[u].fails \in Nat /\ lockAfter \in Nat
    BY <1>1, AccountsAssumption DEF RowsOK, UserRow
  <2>4. crossed' = crossed /\ lowered' = lowered /\ user' = user /\ alerted' = alerted /\ lockAfter' = lockAfter
    OBVIOUS
  <2> QED
    BY ONLY <1>4, <2>1, <2>2, <2>3, <2>4 DEF Counted
<1>8. Changing(r)' => Changing(r)
  BY <1>2 DEF Changing
<1>9. AnotherAdmin'
  BY <1>2, AdminsUntouched DEF Changing
<1>10. \A v \in People \ {u} : guesses'[v] = guesses[v]
  BY <1>1 DEF RowsOK
<1> QED
  BY <1>0, <1>1, <1>2, <1>3, <1>5, <1>6, <1>7, <1>8, <1>9, <1>10, StepHolds

LEMMA VerifyHolds == ASSUME AccountsIInv, NEW r \in Requests, Verify(r) PROVE AccountsIInv'
<1>1. /\ request[r].pc = "verify" /\ Working(r) /\ request[r].row \in UserRow
      /\ UNCHANGED <<user, role, directoryOn, tokens, lockAfter, alerted, eras, crossed, raced, adTook, lowered>>
  BY BusyRequests DEF Verify, Working, AccountsIInv
<1>2. CASE UNCHANGED guesses /\ (Ends(r) \/ (GoesOn(r, "complete") /\ request[r].row.source = "LOCAL"))
  BY <1>1, <1>2, GoesOnHolds
<1>3. CASE /\ GoesOn(r, "fail") /\ guesses' = [guesses EXCEPT ![request[r].u] = @ + 1]
           /\ ~request[r].row.locked /\ request[r].row.source # "none"
  BY <1>1, <1>3, FailHolds
<1>4. CASE request[r].row.locked \/ request[r].row.source = "none"
  <2>1. CASE request[r].row.locked
    <3>1. Ends(r) /\ UNCHANGED guesses
      BY <2>1 DEF Verify
    <3> QED
      BY <1>2, <3>1
  <2>2. CASE ~request[r].row.locked /\ request[r].row.source = "none"
    <3>1. Ends(r) /\ UNCHANGED guesses
      BY <2>2 DEF Verify
    <3> QED
      BY <1>2, <3>1
  <2> QED
    BY <1>4, <2>1, <2>2
<1>5. CASE ~request[r].row.locked /\ request[r].row.source # "none"
  <2>1. \/ GoesOn(r, "complete") /\ UNCHANGED guesses /\ request[r].row.source = "LOCAL"
        \/ GoesOn(r, "fail") /\ guesses' = [guesses EXCEPT ![request[r].u] = @ + 1]
    BY <1>5 DEF Verify
  <2> QED
    BY <1>2, <1>3, <1>5, <2>1
<1> QED
  BY <1>4, <1>5

LEMMA AskDirectoryHolds == 
    ASSUME AccountsIInv, NEW r \in Requests, AskDirectory(r), NEW u, u = request[r].u
    PROVE  AccountsIInv'
<1>1. /\ request[r].pc = "ask" /\ Working(r) /\ request[r].row \in UserRow /\ request[r] \in BusyRequest
      /\ u \in People /\ user[u] \in UserRow /\ RowsOK
      /\ UNCHANGED <<user, role, directoryOn, tokens, lockAfter, alerted, eras, crossed, raced, adTook, lowered>>
  BY BusyRequests DEF AskDirectory, Working, AccountsIInv
<1>2. CASE UNCHANGED guesses /\ Ends(r)
  BY <1>1, <1>2, GoesOnHolds
<1>3. CASE /\ GoesOn(r, "fail") /\ guesses' = [guesses EXCEPT ![u] = @ + 1]
           /\ ~request[r].row.locked /\ request[r].row.source # "none"
  BY <1>1, <1>3, FailHolds
<1>4. CASE /\ "ok" \in Answers(u, request[r].given)
           /\ request' = [request EXCEPT ![r].pc = "provision", ![r].given = role[u]]
           /\ UNCHANGED guesses
  <2>1. role[u] \in Roles
    BY <1>1, <1>4 DEF Answers, RowsOK
  <2> DEFINE y == [[request[r] EXCEPT !.pc = "provision"] EXCEPT !.given = role[u]]
  <2>2. /\ y \in BusyRequest /\ y.pc = "provision" /\ y.given = role[u] /\ y.u = u /\ y.row = request[r].row
        /\ y.era = request[r].era /\ y.via = request[r].via
    <3> DEFINE p == [request[r] EXCEPT !.pc = "provision"]
    <3>1. /\ p \in BusyRequest /\ p.pc = "provision" /\ p.u = u /\ p.row = request[r].row
          /\ p.era = request[r].era /\ p.via = request[r].via
      BY <1>1 DEF BusyRequest, LoginSteps
    <3>2. role[u] \in Given
      BY <2>1 DEF Given
    <3> HIDE DEF p
    <3> QED
      BY ONLY <3>1, <3>2, y = [p EXCEPT !.given = role[u]] DEF BusyRequest, p
  <2>3. request' = [request EXCEPT ![r] = y]
    BY <1>4
  <2> HIDE DEF y
  <2>4. /\ request' \in [Requests -> {IdleRequest} \cup BusyRequest] /\ request'[r] = y
        /\ \A q \in Requests \ {r} : request'[q] = request[q]
    BY ONLY <1>1, <2>2, <2>3, r \in Requests DEF RowsOK
  <2>5. RowsOK'
    BY ONLY <1>1, <1>4, <2>4 DEF RowsOK
  <2>6. RequestOfAccount(request[r]) /\ FreshRow(request[r]) /\ Counted(u)
    BY <1>1 DEF AccountsIInv, RequestsOfAccounts, RowsAreFresh, AllCounted
  <2>7. RequestOfAccount(request[r])' /\ FreshRow(request[r])'
    BY <1>1, <2>1, <2>2, <2>4, <2>6 DEF RequestOfAccount, OfAccount, FreshRow
  <2>8. Kept(u)
    BY <1>1 DEF Kept, UserRow
  <2>9. Counted(u)'
    <3>1. Failing(u)' <=> Failing(u)
      BY <1>1, <2>2, <2>4 DEF Failing
    <3> QED
      BY <1>1, <1>4, <2>6, <3>1 DEF Counted
  <2>10. ~Changing(r)'
    BY <2>2, <2>4 DEF Changing
  <2>11. AnotherAdmin'
    BY <1>1, <2>4, <2>10, AdminsUntouched
  <2> QED
    BY <1>1, <1>4, <2>2, <2>4, <2>5, <2>7, <2>8, <2>9, <2>10, <2>11, StepHolds
<1> QED
  BY <1>1, <1>2, <1>3, <1>4 DEF AskDirectory
-----------------------------------------------------------------------------
(***************************************************************************)
(* A request writes what it has to say to its account, and ends.           *)
(***************************************************************************)
\* Where nothing crossed, a request that ends leaves no failure to be recorded.
LEMMA NoneLeft ==
    ASSUME AccountsIInv, NEW r \in Requests, Working(r), NEW u, u = request[r].u, ~crossed[u], Ends(r)
    PROVE  ~Failing(u)'
<1>1. request'[r].pc = "idle" /\ \A q \in Requests \ {r} : request'[q] = request[q]
  BY Endings DEF AccountsIInv
<1> QED
  BY <1>1 DEF AccountsIInv, Alone, Failing, Working

LEMMA WriteHolds ==
    ASSUME AccountsIInv, NEW r \in Requests, Working(r), NEW u, u = request[r].u, Ends(r),
           request[r].row.source # "none", NEW R \in UserRow, user' = [user EXCEPT ![u] = R],
           R.source = user[u].source, user[u].sv <= R.sv, R.sv = user[u].sv => R.pw = user[u].pw,
           UNCHANGED <<role, directoryOn, lockAfter, crossed, raced, lowered>>,
           tokens' \subseteq SessionToken, \A t \in tokens' \ tokens : TokenOfAccount(t)',
           alerted' \subseteq People, \A v \in People \ {u} : v \in alerted => v \in alerted',
           guesses' \in [People -> Nat], \A v \in People \ {u} : guesses'[v] = guesses[v],
           eras' \in [People -> Nat], \A v \in People \ {u} : eras'[v] = eras[v],
           eras'[u] = eras[u] \/ crossed[u] \/ R.sv > user[u].sv,
           adTook' \in BOOLEAN, AnotherAdmin',
           ~crossed[u] /\ ~lowered =>
               /\ guesses'[u] <= lockAfter /\ guesses'[u] <= R.fails /\ (R.locked \/ guesses'[u] < lockAfter)
               /\ R.locked \/ R.fails >= lockAfter => u \in alerted'
    PROVE  AccountsIInv'
<1>1. RowsOK /\ u \in People /\ user[u] \in UserRow
  BY BusyRequests DEF AccountsIInv
<1>2. /\ request' \in [Requests -> {IdleRequest} \cup BusyRequest] /\ request'[r].pc = "idle"
      /\ \A q \in Requests \ {r} : request'[q] = request[q]
  BY <1>1, Endings
<1>3. user' \in [People -> UserRow] /\ user'[u] = R /\ \A v \in People \ {u} : user'[v] = user[v]
  BY <1>1 DEF RowsOK
<1>4. RowsOK'
  BY ONLY <1>1, <1>2, <1>3, tokens' \subseteq SessionToken, alerted' \subseteq People, guesses' \in [People -> Nat],
          eras' \in [People -> Nat], adTook' \in BOOLEAN,
          UNCHANGED <<role, directoryOn, lockAfter, crossed, raced, lowered>> DEF RowsOK
<1>5. Kept(u)
  BY <1>3 DEF Kept
<1>6. user'[u].source # "none"
  BY <1>1, <1>3 DEF AccountsIInv, RequestsOfAccounts, RequestOfAccount, OfAccount
<1>7. Counted(u)'
  <2>1. ~crossed[u] => ~Failing(u)'
    BY NoneLeft
  <2>2. guesses'[u] \in Nat /\ R.fails \in Nat
    BY <1>1 DEF UserRow
  <2> QED
    BY <1>3, <2>1, <2>2 DEF Counted
<1>8. ~Working(r)' /\ ~Changing(r)'
  BY <1>2 DEF Working, Changing
<1> QED
  BY <1>1, <1>2, <1>3, <1>4, <1>5, <1>6, <1>7, <1>8, StepHolds

\* A write that leaves an administrator one, or was the directory's.
LEMMA AdminsKept ==
    ASSUME AccountsIInv, NEW r \in Requests, Ends(r), NEW u \in People, NEW R, user' = [user EXCEPT ![u] = R],
           adTook' \/ (user[u].active /\ user[u].role = "ADMIN" => R.active /\ R.role = "ADMIN"),
           raced' = raced, adTook => adTook'
    PROVE  AnotherAdmin'
<1>1. request'[r].pc = "idle" /\ \A q \in Requests \ {r} : request'[q] = request[q]
  BY Endings DEF AccountsIInv
<1>2. \A q \in Requests : Changing(q)' => /\ Changing(q) /\ request'[q].u = request[q].u
                                          /\ request'[q].given = request[q].given
  BY <1>1 DEF Changing
<1>3. adTook' \/ ActiveAdmins \subseteq ActiveAdmins'
  BY DEF ActiveAdmins, AccountsIInv, RowsOK
<1> QED
  BY <1>2, <1>3, AnotherAdminKept DEF AccountsIInv

\* What a request that writes knows of its account.
LEMMA WriterFacts ==
    ASSUME AccountsIInv, NEW r \in Requests, Working(r), request[r].pc \notin {"verify", "ask", "provision"}
    PROVE  LET me == request[r] u == request[r].u IN
           /\ RowsOK /\ u \in People /\ user[u] \in UserRow /\ me \in BusyRequest /\ me.row \in UserRow
           /\ me.row.source # "none" /\ OfAccount(u, me.row.source, me.row.sv, me.row.pw)
           /\ guesses[u] \in Nat /\ eras[u] \in Nat /\ lockAfter \in Nat \ {0}
           /\ user[u].fails \in Nat /\ user[u].sv \in Nat /\ user[u].pw \in Nat
           /\ ~crossed[u] => me.era = eras[u] /\ me.row.active = user[u].active /\ me.row.fails = user[u].fails
           /\ me.pc # "fail" /\ ~crossed[u] /\ ~lowered =>
                /\ guesses[u] <= lockAfter /\ guesses[u] <= user[u].fails /\ (user[u].locked \/ guesses[u] < lockAfter)
                /\ user[u].locked \/ user[u].fails >= lockAfter => u \in alerted
<1>1. RowsOK /\ request[r] \in BusyRequest /\ request[r].u \in People /\ request[r].row \in UserRow
      /\ user[request[r].u] \in UserRow
  BY BusyRequests DEF AccountsIInv
<1>2. RequestOfAccount(request[r]) /\ FreshRow(request[r]) /\ Counted(request[r].u)
  BY <1>1 DEF AccountsIInv, RequestsOfAccounts, RowsAreFresh, AllCounted
<1>3. request[r].row.source # "none" /\ OfAccount(request[r].u, request[r].row.source, request[r].row.sv, request[r].row.pw)
  BY <1>2 DEF RequestOfAccount
<1>4. guesses[request[r].u] \in Nat /\ eras[request[r].u] \in Nat /\ lockAfter \in Nat \ {0}
      /\ user[request[r].u].fails \in Nat /\ user[request[r].u].sv \in Nat /\ user[request[r].u].pw \in Nat
  BY <1>1, AccountsAssumption DEF RowsOK, UserRow
<1>5. request[r].pc # "fail" /\ ~crossed[request[r].u] => ~Failing(request[r].u)
  BY NoneFailing
<1> QED
  BY <1>1, <1>2, <1>3, <1>4, <1>5 DEF FreshRow, Counted

LEMMA RecordFailureHolds ==
    ASSUME AccountsIInv, NEW r \in Requests, RecordFailure(r), NEW u, u = request[r].u PROVE AccountsIInv'
<1> DEFINE n == request[r].row.fails + 1
           p == [user[u] EXCEPT !.fails = n]
           b == n >= lockAfter
           R == [p EXCEPT !.locked = b]
<1>1. /\ request[r].pc = "fail" /\ Working(r) /\ Ends(r)
      /\ alerted' = IF n = lockAfter THEN alerted \cup {u} ELSE alerted
      /\ UNCHANGED <<role, directoryOn, tokens, lockAfter, guesses, eras, crossed, raced, adTook, lowered>>
  BY DEF RecordFailure, Working, Failures, Alerts
<1>2. /\ RowsOK /\ u \in People /\ user[u] \in UserRow /\ request[r].row \in UserRow /\ request[r].row.source # "none"
      /\ guesses[u] \in Nat /\ lockAfter \in Nat /\ user[u].fails \in Nat /\ user[u].sv \in Nat
      /\ ~crossed[u] => request[r].row.fails = user[u].fails
  BY <1>1, WriterFacts
<1>3. n \in Nat /\ b \in BOOLEAN
  BY <1>2 DEF UserRow
<1>4. user' = [user EXCEPT ![u] = R]
  BY <1>1, <1>2 DEF RecordFailure, Failures, Locks, RowsOK, UserRow
<1> HIDE DEF n, b
<1>5. /\ p \in UserRow /\ p.fails = n /\ p.source = user[u].source /\ p.sv = user[u].sv /\ p.pw = user[u].pw
      /\ p.active = user[u].active /\ p.role = user[u].role
  BY ONLY <1>2, <1>3 DEF UserRow
<1> HIDE DEF p
<1>6. /\ R \in UserRow /\ R.fails = n /\ R.locked = b /\ R.source = user[u].source
      /\ R.sv = user[u].sv /\ R.pw = user[u].pw /\ R.active = user[u].active /\ R.role = user[u].role
  BY ONLY <1>3, <1>5 DEF UserRow
<1> HIDE DEF R
<1>7. AnotherAdmin'
  BY <1>1, <1>2, <1>4, <1>6, AdminsKept
<1>8. ~crossed[u] /\ ~lowered =>
          /\ guesses'[u] <= lockAfter /\ guesses'[u] <= R.fails /\ (R.locked \/ guesses'[u] < lockAfter)
          /\ R.locked \/ R.fails >= lockAfter => u \in alerted'
  <2>1. Counted(u)
    BY <1>2 DEF AccountsIInv, AllCounted
  <2>2. ~crossed[u] => n = user[u].fails + 1
    BY <1>2 DEF n
  <2>3. R.locked <=> n >= lockAfter
    BY <1>6 DEF b
  <2>4. guesses' = guesses /\ R.fails = n
    BY <1>1, <1>6
  <2>5. n = lockAfter => u \in alerted'
    BY <1>1
  <2>6. u \in alerted => u \in alerted'
    BY <1>1
  <2> QED
    BY ONLY <1>2, <1>3, <2>1, <2>2, <2>3, <2>4, <2>5, <2>6 DEF Counted
<1>9. alerted' \subseteq People /\ \A v \in People \ {u} : v \in alerted => v \in alerted'
  BY <1>1, <1>2 DEF RowsOK
<1>10. /\ tokens' \subseteq SessionToken /\ tokens' \ tokens = {}
       /\ guesses' \in [People -> Nat] /\ eras' \in [People -> Nat] /\ adTook' \in BOOLEAN
  BY <1>1, <1>2 DEF RowsOK
<1>11. user[u].sv <= R.sv
  BY <1>2, <1>6
<1> QED
  BY <1>1, <1>2, <1>4, <1>6, <1>7, <1>8, <1>9, <1>10, <1>11, WriteHolds

LEMMA CompleteHolds ==
    ASSUME AccountsIInv, NEW r \in Requests, Complete(r), NEW u, u = request[r].u PROVE AccountsIInv'
<1> DEFINE R == Cleared(user[u])
<1>t. PICK t : t = Token(u, request[r].row, request[r].era, request[r].via)
  OBVIOUS
<1>1. /\ request[r].pc = "complete" /\ Working(r) /\ Ends(r) /\ alerted' = alerted \ {u}
      /\ user' = [user EXCEPT ![u] = R] /\ tokens' = tokens \cup {t} /\ guesses' = [guesses EXCEPT ![u] = 0]
      /\ UNCHANGED <<role, directoryOn, lockAfter, eras, crossed, raced, adTook, lowered>>
  BY <1>t DEF Complete, Working
<1>2. /\ RowsOK /\ u \in People /\ user[u] \in UserRow /\ request[r].row \in UserRow /\ request[r].row.source # "none"
      /\ request[r] \in BusyRequest /\ OfAccount(u, request[r].row.source, request[r].row.sv, request[r].row.pw)
      /\ lockAfter \in Nat \ {0} /\ user[u].sv \in Nat
      /\ ~crossed[u] => request[r].era = eras[u]
  BY <1>1, WriterFacts
<1>3. request[r].via = request[r].row.source
  BY <1>1 DEF AccountsIInv, RequestsOfAccounts, RequestOfAccount
<1>4. /\ R \in UserRow /\ R.fails = 0 /\ ~R.locked /\ R.source = user[u].source
      /\ R.sv = user[u].sv /\ R.pw = user[u].pw /\ R.active = user[u].active /\ R.role = user[u].role
  BY <1>2, ClearedRow
<1>5. t \in SessionToken /\ t.u = u /\ t.sv = request[r].row.sv /\ t.pw = request[r].row.pw /\ t.era = request[r].era
      /\ t.via = request[r].row.source
  BY <1>t, <1>2, <1>3 DEF Token, SessionToken, BusyRequest, UserRow
<1> HIDE DEF R
<1>6. user'[u] = R
  BY <1>1, <1>2 DEF RowsOK
<1>7. TokenOfAccount(t)'
  BY <1>1, <1>2, <1>4, <1>5, <1>6 DEF TokenOfAccount, OfAccount
<1>8. AnotherAdmin'
  BY <1>1, <1>2, <1>4, AdminsKept
<1>9. /\ tokens' \subseteq SessionToken /\ (\A n \in tokens' \ tokens : TokenOfAccount(n)')
      /\ alerted' \subseteq People /\ (\A v \in People \ {u} : v \in alerted => v \in alerted')
  BY <1>1, <1>2, <1>5, <1>7 DEF RowsOK
<1>10. /\ guesses' \in [People -> Nat] /\ guesses'[u] = 0 /\ (\A v \in People \ {u} : guesses'[v] = guesses[v])
       /\ eras' \in [People -> Nat] /\ eras' = eras /\ adTook' \in BOOLEAN
  BY <1>1, <1>2 DEF RowsOK
<1>11. user[u].sv <= R.sv
  BY <1>2, <1>4
<1>12. guesses'[u] <= lockAfter /\ guesses'[u] <= R.fails /\ guesses'[u] < lockAfter /\ ~(R.fails >= lockAfter)
  BY <1>2, <1>4, <1>10
<1>13. ~crossed[u] /\ ~lowered =>
          /\ guesses'[u] <= lockAfter /\ guesses'[u] <= R.fails /\ (R.locked \/ guesses'[u] < lockAfter)
          /\ R.locked \/ R.fails >= lockAfter => u \in alerted'
  BY ONLY <1>4, <1>12
<1>14. /\ R \in UserRow /\ user' = [user EXCEPT ![u] = R] /\ Working(r) /\ Ends(r)
       /\ UNCHANGED <<role, directoryOn, lockAfter, crossed, raced, lowered>>
       /\ R.source = user[u].source /\ (R.sv = user[u].sv => R.pw = user[u].pw)
  BY <1>1, <1>4
<1> QED
  BY ONLY AccountsIInv, r \in Requests, u = request[r].u, <1>2, <1>8, <1>9, <1>10,
          <1>11, <1>13, <1>14, WriteHolds
-----------------------------------------------------------------------------
(***************************************************************************)
(* The remaining steps of requests.                                        *)
(***************************************************************************)
LEMMA CountAdminsHolds == ASSUME AccountsIInv, NEW r \in Requests, CountAdmins(r) PROVE AccountsIInv'
<1>1. /\ request[r].pc = "patch" /\ Working(r) /\ (Ends(r) \/ GoesOn(r, "update"))
      /\ UNCHANGED <<user, role, directoryOn, tokens, lockAfter, alerted, guesses, eras, crossed, raced, adTook, lowered>>
  BY DEF CountAdmins, Working
<1> QED
  BY <1>1, GoesOnHolds

\* The role of a directory account follows the directory, whatever else is under way.
LEMMA RoleRow ==
    ASSUME NEW x \in UserRow, NEW as \in Roles
    PROVE  LET y == [x EXCEPT !.role = as] IN
           /\ y \in UserRow /\ y.role = as /\ y.source = x.source /\ y.active = x.active /\ y.sv = x.sv
           /\ y.pw = x.pw /\ y.fails = x.fails /\ y.locked = x.locked /\ y.must = x.must
BY DEF UserRow

\* The sign-in goes on with the row as it was just written.
LEMMA ProvisionedHolds ==
    ASSUME AccountsIInv, NEW r \in Requests, request[r].pc = "provision", NEW u, u = request[r].u,
           NEW R \in UserRow, user' = [user EXCEPT ![u] = R], R.source = "DIRECTORY",
           request' = [request EXCEPT ![r].pc = "complete", ![r].row = R, ![r].era = eras[u]],
           user[u].source # "none" => /\ R.source = user[u].source /\ R.sv = user[u].sv /\ R.pw = user[u].pw,
           user[u].source = "none" => user[u].fails = 0 /\ ~user[u].locked,
           R.fails = user[u].fails, R.locked = user[u].locked, adTook' \in BOOLEAN, adTook => adTook',
           adTook' \/ (user[u].active /\ user[u].role = "ADMIN" => R.active /\ R.role = "ADMIN"),
           UNCHANGED <<role, directoryOn, tokens, lockAfter, alerted, guesses, eras, crossed, raced, lowered>>
    PROVE  AccountsIInv'
<1>1. /\ RowsOK /\ Working(r) /\ request[r] \in BusyRequest /\ u \in People /\ user[u] \in UserRow /\ eras[u] \in Nat
  BY BusyRequests DEF AccountsIInv, Working, RowsOK
<1> DEFINE p == [request[r] EXCEPT !.pc = "complete"]
           q == [p EXCEPT !.row = R]
           y == [q EXCEPT !.era = eras[u]]
<1>2. p \in BusyRequest /\ p.pc = "complete" /\ p.u = u /\ p.via = request[r].via /\ p.given = request[r].given
  BY ONLY <1>1, u = request[r].u DEF BusyRequest, LoginSteps
<1>3. request' = [request EXCEPT ![r] = y]
  OBVIOUS
<1> HIDE DEF p
<1>4. q \in BusyRequest /\ q.pc = "complete" /\ q.u = u /\ q.via = request[r].via /\ q.row = R
  BY ONLY <1>2, R \in UserRow DEF BusyRequest
<1> HIDE DEF q
<1>5. y \in BusyRequest /\ y.pc = "complete" /\ y.u = u /\ y.via = request[r].via /\ y.row = R /\ y.era = eras[u]
  BY ONLY <1>1, <1>4 DEF BusyRequest
<1> HIDE DEF y
<1>6. /\ request' \in [Requests -> {IdleRequest} \cup BusyRequest] /\ request'[r] = y
      /\ \A s \in Requests \ {r} : request'[s] = request[s]
  BY ONLY <1>1, <1>3, <1>5, r \in Requests DEF RowsOK
<1>7. user' \in [People -> UserRow] /\ user'[u] = R /\ \A v \in People \ {u} : user'[v] = user[v]
  BY <1>1 DEF RowsOK
<1>8. RowsOK'
  BY ONLY <1>1, <1>6, <1>7, adTook' \in BOOLEAN,
          UNCHANGED <<role, directoryOn, tokens, lockAfter, alerted, guesses, eras, crossed, raced, lowered>> DEF RowsOK
<1>9. request[r].via = "DIRECTORY" /\ Counted(u)
  BY <1>1 DEF AccountsIInv, RequestsOfAccounts, RequestOfAccount, AllCounted
<1>10. R.sv \in Nat /\ user[u].sv \in Nat
  BY <1>1 DEF UserRow
<1>11. RequestOfAccount(request[r])'
  BY <1>5, <1>6, <1>7, <1>9, <1>10 DEF RequestOfAccount, OfAccount
<1>12. FreshRow(request[r])'
  BY <1>5, <1>6, <1>7 DEF FreshRow
<1>13. Kept(u)
  BY <1>7, <1>10 DEF Kept
<1>14. Counted(u)'
  <2>1. Failing(u)' <=> Failing(u)
    BY <1>1, <1>5, <1>6 DEF Failing
  <2> QED
    BY <1>7, <1>9, <2>1 DEF Counted
<1>15. ~Changing(r)'
  BY <1>5, <1>6 DEF Changing
<1>16. AnotherAdmin'
  <2>1. \A s \in Requests : Changing(s)' => /\ Changing(s) /\ request'[s].u = request[s].u
                                            /\ request'[s].given = request[s].given
    BY <1>6, <1>15 DEF Changing
  <2>2. adTook' \/ ActiveAdmins \subseteq ActiveAdmins'
    BY <1>7 DEF ActiveAdmins
  <2> QED
    BY <2>1, <2>2, AnotherAdminKept DEF AccountsIInv
<1> QED
  BY <1>1, <1>5, <1>6, <1>7, <1>8, <1>11, <1>12, <1>13, <1>14, <1>15, <1>16, StepHolds

LEMMA ProvisionHolds ==
    ASSUME AccountsIInv, NEW r \in Requests, Provision(r), NEW u, u = request[r].u PROVE AccountsIInv'
<1>1. /\ request[r].pc = "provision" /\ Working(r)
      /\ UNCHANGED <<role, directoryOn, tokens, lockAfter, alerted, guesses, eras, crossed, raced, lowered>>
  BY DEF Provision, Working
<1>2. RowsOK /\ u \in People /\ user[u] \in UserRow /\ request[r].given \in Roles /\ adTook \in BOOLEAN
      /\ user \in [People -> UserRow] /\ request[r] \in BusyRequest /\ eras[u] \in Nat
  BY <1>1, BusyRequests DEF AccountsIInv, RequestsOfAccounts, RequestOfAccount, RowsOK
<1>3. CASE Ends(r) /\ UNCHANGED <<user, adTook>>
  BY <1>1, <1>3, GoesOnHolds
<1>4. CASE /\ user[u].source = "DIRECTORY"
           /\ user' = [user EXCEPT ![u].role = request[r].given]
           /\ adTook' = (adTook \/ (user[u].role = "ADMIN" /\ request[r].given # "ADMIN"))
           /\ request' = [request EXCEPT ![r].pc = "complete", ![r].row = user'[u], ![r].era = eras[u]]
  <2>r. PICK R : R = [user[u] EXCEPT !.role = request[r].given]
    OBVIOUS
  <2>1. /\ R \in UserRow /\ R.role = request[r].given /\ R.source = user[u].source /\ R.active = user[u].active
        /\ R.sv = user[u].sv /\ R.pw = user[u].pw /\ R.fails = user[u].fails /\ R.locked = user[u].locked
    BY <1>2, <2>r, RoleRow
  <2>2. user' = [user EXCEPT ![u] = R] /\ user'[u] = R
    BY <1>2, <1>4, <2>r
  <2>3. request' = [request EXCEPT ![r].pc = "complete", ![r].row = R, ![r].era = eras[u]]
    BY <1>4, <2>2
  <2>4. /\ adTook' \in BOOLEAN /\ (adTook => adTook')
        /\ adTook' \/ (user[u].active /\ user[u].role = "ADMIN" => R.active /\ R.role = "ADMIN")
    BY <1>2, <1>4, <2>1
  <2> QED
    <3>1. r \in Requests /\ request[r].pc = "provision" /\ u = request[r].u
      BY <1>1
    <3>2. R \in UserRow /\ user' = [user EXCEPT ![u] = R] /\ R.source = "DIRECTORY"
      BY <1>4, <2>1, <2>2
    <3>3. user[u].source # "none" => /\ R.source = user[u].source /\ R.sv = user[u].sv /\ R.pw = user[u].pw
      BY <2>1
    <3>4. user[u].source = "none" => user[u].fails = 0 /\ ~user[u].locked
      BY <1>4
    <3>5. R.fails = user[u].fails /\ R.locked = user[u].locked
      BY <2>1
    <3> QED
      BY ONLY AccountsIInv, <1>1, <2>3, <2>4, <3>1, <3>2, <3>3, <3>4, <3>5, ProvisionedHolds
<1>5. CASE /\ user[u].source = "none"
           /\ user' = [user EXCEPT ![u] = NewUser("DIRECTORY", request[r].given)] /\ adTook' = adTook
           /\ request' = [request EXCEPT ![r].pc = "complete", ![r].row = user'[u], ![r].era = eras[u]]
  <2>r. PICK R : R = NewUser("DIRECTORY", request[r].given)
    OBVIOUS
  <2>1. /\ R \in UserRow /\ R.source = "DIRECTORY" /\ R.fails = 0 /\ ~R.locked
    BY <1>2, <2>r, NewRow
  <2>2. user' = [user EXCEPT ![u] = R] /\ user'[u] = R
    BY <1>2, <1>5, <2>r
  <2>3. user[u].fails = 0 /\ user[u].locked = FALSE /\ user[u].active = FALSE
    BY <1>2, <1>5 DEF AccountsIInv, AbsentIsBlank, Absent
  <2>4. request' = [request EXCEPT ![r].pc = "complete", ![r].row = R, ![r].era = eras[u]]
    BY <1>5, <2>2
  <2>5. R.locked = user[u].locked
    BY <2>1, <2>3 DEF UserRow
  <2> QED
    <3>1. r \in Requests /\ request[r].pc = "provision" /\ u = request[r].u
      BY <1>1
    <3>2. R \in UserRow /\ user' = [user EXCEPT ![u] = R] /\ R.source = "DIRECTORY"
      BY <2>1, <2>2
    <3>3. user[u].source = "none" /\ ~user[u].active
      BY <1>5, <2>3
    <3>4. user[u].fails = 0 /\ ~user[u].locked /\ R.fails = user[u].fails /\ R.locked = user[u].locked
      BY <2>1, <2>3, <2>5
    <3>5. adTook' = adTook /\ adTook \in BOOLEAN
      BY <1>2, <1>5
    <3> QED
      BY ONLY AccountsIInv, <1>1, <2>4, <3>1, <3>2, <3>3, <3>4, <3>5, ProvisionedHolds
<1>6. user[u].source \in {"none", "LOCAL", "DIRECTORY"}
  BY <1>2 DEF UserRow, AccountKinds
<1>7. CASE user[u].source = "DIRECTORY"
  BY <1>3, <1>4, <1>7 DEF Provision, MayAttach
<1>8. CASE user[u].source = "LOCAL"
  BY <1>3, <1>8 DEF Provision, MayAttach
<1>9. CASE user[u].source = "none"
  BY <1>5, <1>9 DEF Provision, MayAttach
<1> QED
  BY <1>6, <1>7, <1>8, <1>9

\* The version goes up, and whatever else changes is given.
LEMMA BumpedRow ==
    ASSUME NEW x \in UserRow
    PROVE  LET y == [x EXCEPT !.sv = @ + 1] IN
           /\ y \in UserRow /\ y.sv = x.sv + 1 /\ y.source = x.source /\ y.role = x.role /\ y.active = x.active
           /\ y.pw = x.pw /\ y.fails = x.fails /\ y.locked = x.locked
BY DEF UserRow

LEMMA RecheckHolds ==
    ASSUME AccountsIInv, NEW r \in Requests, Recheck(r), NEW u, u = request[r].u PROVE AccountsIInv'
<1>t. PICK t : t = Token(u, request[r].row, request[r].era, request[r].given)
  OBVIOUS
<1>1. /\ request[r].pc = "recheck" /\ Working(r) /\ Ends(r)
      /\ UNCHANGED <<role, directoryOn, lockAfter, alerted, guesses, eras, crossed, raced, lowered>>
  BY DEF Recheck, Working
<1>2. /\ RowsOK /\ u \in People /\ user[u] \in UserRow /\ request[r].row \in UserRow /\ request[r].row.source # "none"
      /\ request[r] \in BusyRequest /\ OfAccount(u, request[r].row.source, request[r].row.sv, request[r].row.pw)
      /\ user[u].sv \in Nat /\ adTook \in BOOLEAN /\ user \in [People -> UserRow]
      /\ ~crossed[u] => request[r].era = eras[u]
      /\ ~crossed[u] /\ ~lowered =>
           /\ guesses[u] <= lockAfter /\ guesses[u] <= user[u].fails /\ (user[u].locked \/ guesses[u] < lockAfter)
           /\ user[u].locked \/ user[u].fails >= lockAfter => u \in alerted
  BY <1>1, WriterFacts DEF RowsOK
<1>3. request[r].given = request[r].row.source
  BY <1>1 DEF AccountsIInv, RequestsOfAccounts, RequestOfAccount
<1>4. t \in SessionToken /\ t.u = u /\ t.sv = request[r].row.sv /\ t.pw = request[r].row.pw /\ t.era = request[r].era
      /\ t.via = request[r].row.source
  BY <1>t, <1>2, <1>3 DEF Token, SessionToken, BusyRequest, UserRow
<1>5. \E R \in UserRow :
         /\ user' = [user EXCEPT ![u] = R] /\ R.source = user[u].source /\ R.active = user[u].active
         /\ R.fails = user[u].fails /\ R.locked = user[u].locked /\ R.pw = user[u].pw
         /\ \/ R.sv = user[u].sv /\ tokens' \subseteq tokens \cup {t}
            \/ R.sv = user[u].sv + 1 /\ tokens' \subseteq tokens
         /\ adTook' \in BOOLEAN /\ (adTook => adTook')
         /\ adTook' \/ (user[u].role = "ADMIN" => R.role = "ADMIN")
  <2>1. CASE UNCHANGED <<user, adTook>> /\ tokens' = tokens \cup {t}
    <3>1. user' = [user EXCEPT ![u] = user[u]]
      BY <1>2, <2>1
    <3> QED
      BY <1>2, <2>1, <3>1
  <2>2. CASE /\ user' = [user EXCEPT ![u].role = role[u]] /\ role[u] \in Roles
             /\ adTook' = (adTook \/ (user[u].role = "ADMIN" /\ role[u] # "ADMIN")) /\ tokens' = tokens \cup {t}
    <3>r. PICK R : R = [user[u] EXCEPT !.role = role[u]]
      OBVIOUS
    <3>1. /\ R \in UserRow /\ R.role = role[u] /\ R.source = user[u].source /\ R.active = user[u].active
          /\ R.sv = user[u].sv /\ R.pw = user[u].pw /\ R.fails = user[u].fails /\ R.locked = user[u].locked
      BY <1>2, <2>2, <3>r, RoleRow
    <3>2. user' = [user EXCEPT ![u] = R]
      BY <1>2, <2>2, <3>r
    <3>3. /\ adTook' \in BOOLEAN /\ (adTook => adTook')
          /\ adTook' \/ (user[u].role = "ADMIN" => R.role = "ADMIN")
      BY <1>2, <2>2, <3>1
    <3>4. R.sv = user[u].sv /\ tokens' \subseteq tokens \cup {t}
      BY <2>2, <3>1
    <3> QED
      BY ONLY <3>1, <3>2, <3>3, <3>4
  <2>3. CASE user' = [user EXCEPT ![u].sv = @ + 1] /\ UNCHANGED <<tokens, adTook>>
    <3>r. PICK R : R = [user[u] EXCEPT !.sv = @ + 1]
      OBVIOUS
    <3>1. /\ R \in UserRow /\ R.role = user[u].role /\ R.source = user[u].source /\ R.active = user[u].active
          /\ R.sv = user[u].sv + 1 /\ R.pw = user[u].pw /\ R.fails = user[u].fails /\ R.locked = user[u].locked
      BY <1>2, <2>3, <3>r, BumpedRow
    <3>2. user' = [user EXCEPT ![u] = R]
      BY <1>2, <2>3, <3>r
    <3>3. adTook' \in BOOLEAN /\ (adTook => adTook') /\ tokens' \subseteq tokens
      BY <1>2, <2>3
    <3> QED
      BY ONLY <3>1, <3>2, <3>3
  <2>4. "ok" \in Standing(u) => role[u] \in Roles
    BY <1>2 DEF Standing, RowsOK
  <2> QED
    BY <1>t, <2>1, <2>2, <2>3, <2>4 DEF Recheck
<1>6. PICK R \in UserRow :
         /\ user' = [user EXCEPT ![u] = R] /\ R.source = user[u].source /\ R.active = user[u].active
         /\ R.fails = user[u].fails /\ R.locked = user[u].locked /\ R.pw = user[u].pw
         /\ \/ R.sv = user[u].sv /\ tokens' \subseteq tokens \cup {t}
            \/ R.sv = user[u].sv + 1 /\ tokens' \subseteq tokens
         /\ adTook' \in BOOLEAN /\ (adTook => adTook')
         /\ adTook' \/ (user[u].role = "ADMIN" => R.role = "ADMIN")
  BY <1>5
<1>7. user'[u] = R
  BY <1>2, <1>6
<1>8. \A n \in tokens' \ tokens : TokenOfAccount(n)'
  <2>1. SUFFICES ASSUME t \in tokens', R.sv = user[u].sv PROVE TokenOfAccount(t)'
    BY <1>6
  <2> QED
    BY <1>1, <1>2, <1>4, <1>6, <1>7, <2>1 DEF TokenOfAccount, OfAccount
<1>9. tokens' \subseteq SessionToken
  BY <1>2, <1>4, <1>6 DEF RowsOK
<1>10. AnotherAdmin'
  <2>1. raced' = raced /\ (adTook => adTook')
        /\ (adTook' \/ (user[u].active /\ user[u].role = "ADMIN" => R.active /\ R.role = "ADMIN"))
    BY <1>1, <1>6
  <2> QED
    BY ONLY AccountsIInv, r \in Requests, <1>1, <1>2, <1>6, <2>1, AdminsKept
<1>11. /\ alerted' = alerted /\ guesses' = guesses /\ eras' = eras /\ alerted' \subseteq People
       /\ guesses' \in [People -> Nat] /\ eras' \in [People -> Nat]
  BY <1>1, <1>2 DEF RowsOK
<1>12. R.source = user[u].source /\ user[u].sv <= R.sv /\ (R.sv = user[u].sv => R.pw = user[u].pw)
  BY <1>2, <1>6
<1>13. ~crossed[u] /\ ~lowered =>
          /\ guesses'[u] <= lockAfter /\ guesses'[u] <= R.fails /\ (R.locked \/ guesses'[u] < lockAfter)
          /\ R.locked \/ R.fails >= lockAfter => u \in alerted'
  BY <1>2, <1>6, <1>11
<1> QED
  BY ONLY AccountsIInv, r \in Requests, u = request[r].u, <1>1, <1>2, <1>6, <1>8, <1>9, <1>10, <1>11, <1>12, <1>13,
          WriteHolds

LEMMA ResetPasswordHolds ==
    ASSUME AccountsIInv, NEW r \in Requests, ResetPassword(r), NEW u, u = request[r].u PROVE AccountsIInv'
<1>1. /\ request[r].pc = "reset" /\ Working(r) /\ Ends(r) /\ alerted' = alerted \ {u}
      /\ user' = [user EXCEPT ![u] = AfterReset(user[u])] /\ guesses' = [guesses EXCEPT ![u] = 0]
      /\ UNCHANGED <<role, directoryOn, tokens, lockAfter, eras, crossed, raced, adTook, lowered>>
  BY DEF ResetPassword, Working
<1>2. /\ RowsOK /\ u \in People /\ user[u] \in UserRow /\ request[r].row.source # "none"
      /\ lockAfter \in Nat \ {0} /\ user[u].sv \in Nat
  BY <1>1, WriterFacts
<1>r. PICK R : R = AfterReset(user[u])
  OBVIOUS
<1>3. /\ R \in UserRow /\ R.fails = 0 /\ ~R.locked /\ R.source = user[u].source
      /\ R.sv = user[u].sv + 1 /\ R.active = user[u].active /\ R.role = user[u].role
  BY <1>2, <1>r, ResetRow
<1>4. user' = [user EXCEPT ![u] = R]
  BY <1>1, <1>r
<1>5. AnotherAdmin'
  <2>1. raced' = raced /\ (adTook => adTook') /\ (user[u].active /\ user[u].role = "ADMIN" => R.active /\ R.role = "ADMIN")
    BY <1>1, <1>3
  <2> QED
    BY ONLY AccountsIInv, r \in Requests, <1>1, <1>2, <1>4, <2>1, AdminsKept
<1>6. /\ tokens' \subseteq SessionToken /\ tokens' \ tokens = {}
      /\ alerted' \subseteq People /\ (\A v \in People \ {u} : v \in alerted => v \in alerted')
      /\ guesses' \in [People -> Nat] /\ guesses'[u] = 0 /\ (\A v \in People \ {u} : guesses'[v] = guesses[v])
      /\ eras' \in [People -> Nat] /\ eras' = eras /\ adTook' \in BOOLEAN
  BY <1>1, <1>2 DEF RowsOK
<1>7. guesses'[u] <= lockAfter /\ guesses'[u] <= R.fails /\ guesses'[u] < lockAfter /\ ~(R.fails >= lockAfter)
      /\ user[u].sv <= R.sv /\ R.sv # user[u].sv
  BY <1>2, <1>3, <1>6
<1>8. Working(r) /\ Ends(r) /\ UNCHANGED <<role, directoryOn, lockAfter, crossed, raced, lowered>>
  BY <1>1
<1>9. request[r].row.source # "none"
  BY <1>2
<1>10. R \in UserRow /\ R.source = user[u].source /\ ~R.locked
  BY <1>3
<1> QED
  BY ONLY AccountsIInv, r \in Requests, u = request[r].u, <1>4, <1>5, <1>6, <1>7, <1>8, <1>9, <1>10, WriteHolds

LEMMA ChangePasswordHolds ==
    ASSUME AccountsIInv, NEW r \in Requests, ChangePassword(r), NEW u, u = request[r].u PROVE AccountsIInv'
<1>1. /\ request[r].pc = "change" /\ Working(r) /\ Ends(r)
      /\ user' = [user EXCEPT ![u].pw = @ + 1, ![u].must = FALSE, ![u].sv = @ + 1]
      /\ tokens' = tokens \cup {Token(u, user'[u], eras[u], request[r].given)}
      /\ UNCHANGED <<role, directoryOn, lockAfter, alerted, guesses, eras, crossed, raced, adTook, lowered>>
  BY DEF ChangePassword, Working
<1>2. /\ RowsOK /\ u \in People /\ user[u] \in UserRow /\ request[r].row \in UserRow /\ request[r].row.source # "none"
      /\ OfAccount(u, request[r].row.source, request[r].row.sv, request[r].row.pw)
      /\ user[u].sv \in Nat /\ user[u].pw \in Nat /\ eras[u] \in Nat
      /\ ~crossed[u] /\ ~lowered =>
           /\ guesses[u] <= lockAfter /\ guesses[u] <= user[u].fails /\ (user[u].locked \/ guesses[u] < lockAfter)
           /\ user[u].locked \/ user[u].fails >= lockAfter => u \in alerted
  BY <1>1, WriterFacts
<1>3. request[r].given = user[u].source
  BY <1>1, <1>2 DEF AccountsIInv, RequestsOfAccounts, RequestOfAccount, OfAccount
<1> DEFINE p == [user[u] EXCEPT !.pw = @ + 1]
           q == [p EXCEPT !.must = FALSE]
           y == [q EXCEPT !.sv = @ + 1]
<1>r. PICK R : R = y
  OBVIOUS
<1>4. user' = [user EXCEPT ![u] = R]
  BY ONLY <1>1, <1>r DEF p, q, y
<1>5. /\ p \in UserRow /\ p.source = user[u].source /\ p.sv = user[u].sv /\ p.active = user[u].active
      /\ p.role = user[u].role /\ p.fails = user[u].fails /\ p.locked = user[u].locked
  BY ONLY <1>2 DEF UserRow
<1> HIDE DEF p
<1>6. /\ q \in UserRow /\ q.source = user[u].source /\ q.sv = user[u].sv /\ q.active = user[u].active
      /\ q.role = user[u].role /\ q.fails = user[u].fails /\ q.locked = user[u].locked
  BY ONLY <1>5 DEF UserRow
<1> HIDE DEF q
<1>7. /\ R \in UserRow /\ R.source = user[u].source /\ R.sv = user[u].sv + 1 /\ R.active = user[u].active
      /\ R.role = user[u].role /\ R.fails = user[u].fails /\ R.locked = user[u].locked
  BY ONLY <1>2, <1>6, <1>r DEF UserRow
<1>8. user'[u] = R
  BY <1>2, <1>4 DEF RowsOK
<1>t. PICK t : t = Token(u, R, eras[u], request[r].given)
  OBVIOUS
<1>9. t \in SessionToken /\ t.u = u /\ t.sv = R.sv /\ t.pw = R.pw /\ t.era = eras[u] /\ t.via = user[u].source
  BY <1>2, <1>3, <1>7, <1>t DEF Token, SessionToken, UserRow
<1>10. tokens' = tokens \cup {t} /\ tokens' \subseteq SessionToken
  BY <1>1, <1>2, <1>8, <1>9, <1>t DEF RowsOK
<1>11. \A n \in tokens' \ tokens : TokenOfAccount(n)'
  <2>1. user[u].source # "none" /\ R.sv \in Nat
    BY <1>2, <1>7 DEF OfAccount
  <2>2. UNCHANGED <<eras, crossed>>
    BY <1>1
  <2>3. TokenOfAccount(t)'
    BY ONLY <1>7, <1>8, <1>9, <2>1, <2>2 DEF TokenOfAccount, OfAccount
  <2> QED
    BY <1>10, <2>3
<1>12. AnotherAdmin'
  <2>1. raced' = raced /\ (adTook => adTook') /\ (user[u].active /\ user[u].role = "ADMIN" => R.active /\ R.role = "ADMIN")
    BY <1>1, <1>7
  <2> QED
    BY ONLY AccountsIInv, r \in Requests, <1>1, <1>2, <1>4, <2>1, AdminsKept
<1>13. /\ alerted' \subseteq People /\ alerted' = alerted /\ guesses' \in [People -> Nat] /\ guesses' = guesses
       /\ eras' \in [People -> Nat] /\ eras' = eras /\ adTook' \in BOOLEAN
  BY <1>1, <1>2 DEF RowsOK
<1>14. user[u].sv <= R.sv /\ R.sv # user[u].sv
  BY <1>2, <1>7
<1>15. ~crossed[u] /\ ~lowered =>
          /\ guesses'[u] <= lockAfter /\ guesses'[u] <= R.fails /\ (R.locked \/ guesses'[u] < lockAfter)
          /\ R.locked \/ R.fails >= lockAfter => u \in alerted'
  BY <1>2, <1>7, <1>13
<1>16. Working(r) /\ Ends(r) /\ UNCHANGED <<role, directoryOn, lockAfter, crossed, raced, lowered>>
  BY <1>1
<1>17. request[r].row.source # "none"
  BY <1>2
<1>18. R \in UserRow /\ R.source = user[u].source
  BY <1>7
<1> QED
  BY ONLY AccountsIInv, r \in Requests, u = request[r].u, <1>4, <1>10, <1>11, <1>12, <1>13, <1>14, <1>15, <1>16, <1>17,
          <1>18, WriteHolds

\* What a change makes of a row, by what is wanted.
LEMMA Wanted ==
    ASSUME NEW want \in Wants
    PROVE  \/ want = [active |-> FALSE] /\ want \in Demotions
           \/ want = [active |-> TRUE] /\ want # [active |-> FALSE]
           \/ /\ want.role \in Roles /\ want # [active |-> FALSE] /\ want # [active |-> TRUE]
              /\ want.role # "ADMIN" => want \in Demotions
<1>1. (\E x \in Roles : want = [role |-> x]) \/ (\E b \in BOOLEAN : want = [active |-> b])
  BY DEF Wants
<1>2. ASSUME NEW x \in Roles, want = [role |-> x] PROVE /\ want.role \in Roles
                                                     /\ want # [active |-> FALSE] /\ want # [active |-> TRUE]
                                                     /\ want.role # "ADMIN" => want \in Demotions
  <2>1. DOMAIN want = {"role"} /\ want.role = x
    BY <1>2
  <2>2. DOMAIN [active |-> TRUE] = {"active"} /\ DOMAIN [active |-> FALSE] = {"active"}
    OBVIOUS
  <2>3. x # "ADMIN" => want \in Demotions
    BY <1>2 DEF Roles, Demotions
  <2>4. {"role"} # {"active"}
    OBVIOUS
  <2> QED
    BY <1>2, <2>1, <2>2, <2>3, <2>4
<1>3. ASSUME NEW x \in BOOLEAN, want = [active |-> x]
      PROVE  \/ want = [active |-> FALSE] /\ want \in Demotions
             \/ want = [active |-> TRUE] /\ want # [active |-> FALSE]
  <2>1. CASE x = FALSE
    BY <1>3, <2>1 DEF Demotions
  <2>2. CASE x = TRUE
    <3>1. want.active = TRUE /\ [active |-> FALSE].active = FALSE
      BY <1>3, <2>2
    <3> QED
      BY <1>3, <2>2, <3>1
  <2> QED
    BY <1>3, <2>1, <2>2
<1> QED
  BY <1>1, <1>2, <1>3

\* An account is activated.
LEMMA ActivatedRow ==
    ASSUME NEW x \in UserRow
    PROVE  LET y == [x EXCEPT !.active = TRUE] IN
           /\ y \in UserRow /\ y.active /\ y.source = x.source /\ y.role = x.role /\ y.sv = x.sv
           /\ y.pw = x.pw /\ y.fails = x.fails /\ y.locked = x.locked
BY DEF UserRow

\* Where changes do not race, a demotion leaves the administrator there was besides.
LEMMA DemotionLeaves ==
    ASSUME AccountsIInv, NEW r \in Requests, Changing(r), NEW u, u = request[r].u, Ends(r), NEW R,
           u \in People, user' = [user EXCEPT ![u] = R], raced' = raced, adTook' = adTook,
           request[r].given \in Demotions \/ (user[u].active /\ user[u].role = "ADMIN" => R.active /\ R.role = "ADMIN")
    PROVE  AnotherAdmin'
<1> SUFFICES ASSUME ~raced', ~adTook' PROVE ActiveAdmins' # {} /\ \A q \in Requests : ~Changing(q)'
  BY DEF AnotherAdmin
<1>1. request'[r].pc = "idle" /\ \A q \in Requests \ {r} : request'[q] = request[q]
  BY Endings DEF AccountsIInv
<1>2. \A q \in Requests : Changing(q) => q = r
  BY DEF AccountsIInv, OneChange
<1>3. \A q \in Requests : ~Changing(q)'
  BY <1>1, <1>2 DEF Changing
<1>4. ActiveAdmins # {} /\ (request[r].given \in Demotions => ActiveAdmins \ {u} # {})
  BY DEF AccountsIInv, AnotherAdmin
<1>5. user'[u] = R /\ \A v \in People \ {u} : user'[v] = user[v]
  BY DEF AccountsIInv, RowsOK
<1>6. CASE request[r].given \in Demotions
  <2>1. PICK v \in ActiveAdmins : v # u
    BY <1>4, <1>6
  <2>2. v \in People /\ user[v].active /\ user[v].role = "ADMIN"
    BY DEF ActiveAdmins
  <2>3. v \in ActiveAdmins'
    BY <1>5, <2>1, <2>2 DEF ActiveAdmins
  <2> QED
    BY <1>3, <2>3
<1>7. CASE user[u].active /\ user[u].role = "ADMIN" => R.active /\ R.role = "ADMIN"
  <2>1. PICK v \in ActiveAdmins : TRUE
    BY <1>4
  <2>2. v \in People /\ user[v].active /\ user[v].role = "ADMIN"
    BY DEF ActiveAdmins
  <2>3. v \in ActiveAdmins'
    BY <1>5, <1>7, <2>2 DEF ActiveAdmins
  <2> QED
    BY <1>3, <2>3
<1> QED
  BY <1>6, <1>7

LEMMA UpdateUserHolds ==
    ASSUME AccountsIInv, NEW r \in Requests, UpdateUser(r), NEW u, u = request[r].u PROVE AccountsIInv'
<1>w. PICK want : want = request[r].given
  OBVIOUS
<1>1. /\ request[r].pc = "update" /\ Working(r) /\ Changing(r) /\ Ends(r)
      /\ user' = [user EXCEPT ![u] = CASE want = [active |-> FALSE] -> Deactivated(user[u], request[r].row)
                                       [] want = [active |-> TRUE] -> [user[u] EXCEPT !.active = TRUE]
                                       [] OTHER -> [user[u] EXCEPT !.role = want.role]]
      /\ eras' = IF want = [active |-> FALSE] /\ user[u].active THEN [eras EXCEPT ![u] = @ + 1] ELSE eras
      /\ UNCHANGED <<role, directoryOn, tokens, lockAfter, alerted, guesses, crossed, raced, adTook, lowered>>
  BY <1>w DEF UpdateUser, Working, Changing
<1>2. /\ RowsOK /\ u \in People /\ user[u] \in UserRow /\ request[r].row \in UserRow /\ request[r].row.source # "none"
      /\ user[u].sv \in Nat /\ eras[u] \in Nat /\ eras \in [People -> Nat] /\ user \in [People -> UserRow]
      /\ ~crossed[u] => request[r].row.active = user[u].active
      /\ ~crossed[u] /\ ~lowered =>
           /\ guesses[u] <= lockAfter /\ guesses[u] <= user[u].fails /\ (user[u].locked \/ guesses[u] < lockAfter)
           /\ user[u].locked \/ user[u].fails >= lockAfter => u \in alerted
  BY <1>1, WriterFacts DEF RowsOK
<1>3. want \in Wants
  BY <1>1, <1>w DEF AccountsIInv, RequestsOfAccounts, RequestOfAccount
<1>4. \E R \in UserRow :
         /\ user' = [user EXCEPT ![u] = R] /\ R.source = user[u].source /\ R.fails = user[u].fails
         /\ R.locked = user[u].locked /\ R.pw = user[u].pw /\ R.sv \in {user[u].sv, user[u].sv + 1}
         /\ want \in Demotions \/ (user[u].active /\ user[u].role = "ADMIN" => R.active /\ R.role = "ADMIN")
         /\ eras' \in [People -> Nat] /\ (\A v \in People \ {u} : eras'[v] = eras[v])
         /\ eras'[u] = eras[u] \/ crossed[u] \/ R.sv > user[u].sv
  <2>1. CASE want = [active |-> FALSE] /\ want \in Demotions
    <3>r. PICK R : R = Deactivated(user[u], request[r].row)
      OBVIOUS
    <3>1. /\ R \in UserRow /\ ~R.active /\ R.source = user[u].source /\ R.role = user[u].role /\ R.pw = user[u].pw
          /\ R.sv = IF request[r].row.active THEN user[u].sv + 1 ELSE user[u].sv
          /\ R.fails = user[u].fails /\ R.locked = user[u].locked
      BY <1>2, <3>r, DeactivatedRow
    <3>2. user' = [user EXCEPT ![u] = R]
      BY <1>1, <2>1, <3>r
    <3>3. eras' = IF user[u].active THEN [eras EXCEPT ![u] = @ + 1] ELSE eras
      BY <1>1, <2>1
    <3>4. eras' \in [People -> Nat] /\ (\A v \in People \ {u} : eras'[v] = eras[v])
          /\ (eras'[u] = eras[u] \/ user[u].active)
      BY ONLY <1>2, <3>3
    <3>5. R.sv \in {user[u].sv, user[u].sv + 1} /\ (request[r].row.active => R.sv > user[u].sv)
      BY <1>2, <3>1
    <3>6. eras'[u] = eras[u] \/ crossed[u] \/ R.sv > user[u].sv
      BY <1>2, <3>4, <3>5
    <3> QED
      BY ONLY <2>1, <3>1, <3>2, <3>4, <3>5, <3>6
  <2>2. CASE want = [active |-> TRUE] /\ want # [active |-> FALSE]
    <3>r. PICK R : R = [user[u] EXCEPT !.active = TRUE]
      OBVIOUS
    <3>1. /\ R \in UserRow /\ R.active /\ R.source = user[u].source /\ R.role = user[u].role /\ R.pw = user[u].pw
          /\ R.sv = user[u].sv /\ R.fails = user[u].fails /\ R.locked = user[u].locked
      BY <1>2, <3>r, ActivatedRow
    <3>2. user' = [user EXCEPT ![u] = R]
      BY <1>1, <2>2, <3>r
    <3>3. eras' = eras /\ eras' \in [People -> Nat]
      BY <1>1, <1>2, <2>2
    <3> QED
      BY ONLY <3>1, <3>2, <3>3
  <2>3. CASE /\ want.role \in Roles /\ want # [active |-> FALSE] /\ want # [active |-> TRUE]
             /\ want.role # "ADMIN" => want \in Demotions
    <3>r. PICK R : R = [user[u] EXCEPT !.role = want.role]
      OBVIOUS
    <3>1. /\ R \in UserRow /\ R.active = user[u].active /\ R.source = user[u].source /\ R.role = want.role
          /\ R.pw = user[u].pw /\ R.sv = user[u].sv /\ R.fails = user[u].fails /\ R.locked = user[u].locked
      BY <1>2, <2>3, <3>r, RoleRow
    <3>2. user' = [user EXCEPT ![u] = R]
      BY <1>1, <2>3, <3>r
    <3>3. eras' = eras /\ eras' \in [People -> Nat]
      BY <1>1, <1>2, <2>3
    <3>4. want \in Demotions \/ (user[u].active /\ user[u].role = "ADMIN" => R.active /\ R.role = "ADMIN")
      BY <2>3, <3>1
    <3> QED
      BY ONLY <3>1, <3>2, <3>3, <3>4
  <2> QED
    BY <1>3, <2>1, <2>2, <2>3, Wanted
<1>5. PICK R \in UserRow :
         /\ user' = [user EXCEPT ![u] = R] /\ R.source = user[u].source /\ R.fails = user[u].fails
         /\ R.locked = user[u].locked /\ R.pw = user[u].pw /\ R.sv \in {user[u].sv, user[u].sv + 1}
         /\ want \in Demotions \/ (user[u].active /\ user[u].role = "ADMIN" => R.active /\ R.role = "ADMIN")
         /\ eras' \in [People -> Nat] /\ (\A v \in People \ {u} : eras'[v] = eras[v])
         /\ eras'[u] = eras[u] \/ crossed[u] \/ R.sv > user[u].sv
  BY <1>4
<1>6. Changing(r) /\ Working(r) /\ Ends(r)
      /\ UNCHANGED <<role, directoryOn, lockAfter, crossed, raced, lowered, adTook, tokens, alerted, guesses>>
  BY <1>1
<1>7. AnotherAdmin'
  BY ONLY AccountsIInv, r \in Requests, u = request[r].u, <1>2, <1>5, <1>6, <1>w, DemotionLeaves
<1>8. /\ tokens' \subseteq SessionToken /\ tokens' \ tokens = {} /\ alerted' \subseteq People
      /\ guesses' \in [People -> Nat] /\ adTook' \in BOOLEAN
  BY <1>2, <1>6 DEF RowsOK
<1>9. user[u].sv <= R.sv /\ R.source = user[u].source /\ (R.sv = user[u].sv => R.pw = user[u].pw)
  BY <1>2, <1>5
<1>10. ~crossed[u] /\ ~lowered =>
          /\ guesses'[u] <= lockAfter /\ guesses'[u] <= R.fails /\ (R.locked \/ guesses'[u] < lockAfter)
          /\ R.locked \/ R.fails >= lockAfter => u \in alerted'
  BY <1>2, <1>5, <1>6
<1>11. request[r].row.source # "none"
  BY <1>2
<1> QED
  BY ONLY AccountsIInv, r \in Requests, u = request[r].u, <1>5, <1>6, <1>7, <1>8, <1>9, <1>10, <1>11, WriteHolds
-----------------------------------------------------------------------------
(***************************************************************************)
(* What happens to an account in one statement, and around accounts.       *)
(***************************************************************************)
\* A statement about account u by the page: requests about it now cross.
LEMMA PageStatementHolds ==
    ASSUME AccountsIInv, NEW r \in Requests, ~Working(r), NEW u \in People, Crossing(r, u),
           NEW R \in UserRow, user' = [user EXCEPT ![u] = R], user[u].source # "none",
           R.source = user[u].source, user[u].sv <= R.sv, R.sv = user[u].sv => R.pw = user[u].pw,
           R.active = user[u].active, R.role = user[u].role,
           UNCHANGED <<role, directoryOn, tokens, request, lockAfter, eras, raced, adTook, lowered>>,
           alerted' \subseteq People, \A v \in People \ {u} : v \in alerted => v \in alerted',
           guesses' \in [People -> Nat], \A v \in People \ {u} : guesses'[v] = guesses[v],
           \/ UNCHANGED <<alerted, guesses>> /\ R.fails = user[u].fails /\ R.locked = user[u].locked
           \/ guesses'[u] = 0 /\ R.fails = 0 /\ ~R.locked
    PROVE  AccountsIInv'
<1>1. RowsOK /\ user[u] \in UserRow /\ user \in [People -> UserRow] /\ crossed \in [People -> BOOLEAN]
      /\ lockAfter \in Nat \ {0} /\ Counted(u)
  BY AccountsAssumption DEF AccountsIInv, RowsOK, AllCounted
<1>2. user' \in [People -> UserRow] /\ user'[u] = R /\ \A v \in People \ {u} : user'[v] = user[v]
  BY ONLY <1>1, R \in UserRow, user' = [user EXCEPT ![u] = R]
<1>3. crossed' \in [People -> BOOLEAN]
  BY <1>1, CrossingType
<1>4. RowsOK'
  BY ONLY <1>1, <1>2, <1>3, alerted' \subseteq People, guesses' \in [People -> Nat],
          UNCHANGED <<role, directoryOn, tokens, request, lockAfter, eras, raced, adTook, lowered>> DEF RowsOK
<1>5. /\ \A v \in People : crossed[v] => crossed'[v]
      /\ \A q \in Requests \ {r} : Working(q) /\ request[q].u = u => crossed'[u]
  BY <1>1 DEF Crossing, Overlaps
<1>6. Kept(u)
  BY <1>2 DEF Kept
<1>7. \A q \in Requests : Working(q) /\ request[q].u = u => FreshRow(request[q])'
  BY <1>5 DEF FreshRow
<1>8. Counted(u)'
  <2>1. Failing(u) => crossed'[u]
    BY <1>5 DEF Failing, Working
  <2>2. Failing(u)' <=> Failing(u)
    BY DEF Failing
  <2>3. (crossed[u] => crossed'[u]) /\ lowered' = lowered /\ lockAfter' = lockAfter /\ user'[u] = R
    BY <1>2, <1>5
  <2>4. CASE UNCHANGED <<alerted, guesses>> /\ R.fails = user[u].fails /\ R.locked = user[u].locked
    BY <1>1, <2>2, <2>3, <2>4 DEF Counted
  <2>5. CASE guesses'[u] = 0 /\ R.fails = 0 /\ ~R.locked
    BY <1>1, <2>3, <2>5 DEF Counted
  <2> QED
    BY <2>4, <2>5
<1>9. ActiveAdmins \subseteq ActiveAdmins'
  BY <1>2 DEF ActiveAdmins
<1>10. user'[u].source # "none" /\ tokens' \ tokens = {} /\ (adTook => adTook')
  BY <1>2
<1>11. \A v \in People \ {u} : user'[v] = user[v] /\ guesses'[v] = guesses[v] /\ (v \in alerted => v \in alerted')
  BY <1>2
<1>12. UNCHANGED <<request, raced, lowered, lockAfter, eras>>
  OBVIOUS
<1> QED
  BY ONLY AccountsIInv, u \in People, <1>4, <1>5, <1>6, <1>7, <1>8, <1>9, <1>10, <1>11, <1>12, StatementHolds

LEMMA UnlockHolds ==
    ASSUME AccountsIInv, NEW r \in Requests, ~Working(r), NEW t, NEW u \in People, Unlock(r, t, u)
    PROVE  AccountsIInv'
<1>r. PICK R : R = Cleared(user[u])
  OBVIOUS
<1>1. /\ user[u].source # "none" /\ user' = [user EXCEPT ![u] = R] /\ alerted' = alerted \ {u}
      /\ guesses' = [guesses EXCEPT ![u] = 0] /\ Crossing(r, u)
      /\ UNCHANGED <<role, directoryOn, tokens, request, lockAfter, eras, raced, adTook, lowered>>
  BY <1>r DEF Unlock
<1>2. user[u] \in UserRow /\ user[u].sv \in Nat /\ guesses \in [People -> Nat] /\ alerted \subseteq People
  BY DEF AccountsIInv, RowsOK, UserRow
<1>3. /\ R \in UserRow /\ R.fails = 0 /\ ~R.locked /\ R.source = user[u].source
      /\ R.sv = user[u].sv /\ R.pw = user[u].pw /\ R.active = user[u].active /\ R.role = user[u].role
  BY <1>2, <1>r, ClearedRow
<1>4. /\ alerted' \subseteq People /\ (\A v \in People \ {u} : v \in alerted => v \in alerted')
      /\ guesses' \in [People -> Nat] /\ guesses'[u] = 0 /\ (\A v \in People \ {u} : guesses'[v] = guesses[v])
      /\ user[u].sv <= R.sv
  BY <1>1, <1>2, <1>3
<1> QED
  BY ONLY AccountsIInv, r \in Requests, ~Working(r), u \in People, <1>1, <1>3, <1>4, PageStatementHolds

LEMMA RevokeSessionsHolds ==
    ASSUME AccountsIInv, NEW r \in Requests, ~Working(r), NEW t, NEW u \in People, RevokeSessions(r, t, u)
    PROVE  AccountsIInv'
<1>r. PICK R : R = [user[u] EXCEPT !.sv = @ + 1]
  OBVIOUS
<1>1. user[u] \in UserRow /\ user[u].sv \in Nat /\ guesses \in [People -> Nat] /\ alerted \subseteq People
  BY DEF AccountsIInv, RowsOK, UserRow
<1>2. /\ user[u].source # "none" /\ user' = [user EXCEPT ![u] = R] /\ Crossing(r, u) /\ UNCHANGED <<alerted, guesses>>
      /\ UNCHANGED <<role, directoryOn, tokens, request, lockAfter, eras, raced, adTook, lowered>>
  BY <1>r DEF RevokeSessions
<1>3. /\ R \in UserRow /\ R.sv = user[u].sv + 1 /\ R.source = user[u].source /\ R.role = user[u].role
      /\ R.active = user[u].active /\ R.pw = user[u].pw /\ R.fails = user[u].fails /\ R.locked = user[u].locked
  BY <1>1, <1>r, BumpedRow
<1>4. alerted' \subseteq People /\ guesses' \in [People -> Nat] /\ user[u].sv <= R.sv /\ R.sv # user[u].sv
  BY <1>1, <1>2, <1>3
<1> QED
  BY ONLY AccountsIInv, r \in Requests, ~Working(r), u \in People, <1>2, <1>3, <1>4, PageStatementHolds

LEMMA CreateUserHolds ==
    ASSUME AccountsIInv, NEW r, NEW t, NEW u \in People, NEW as \in Roles, CreateUser(r, t, u, as)
    PROVE  AccountsIInv'
<1>r. PICK R : R = NewUser("LOCAL", as)
  OBVIOUS
<1>1. /\ user[u].source = "none" /\ user' = [user EXCEPT ![u] = R]
      /\ UNCHANGED <<role, directoryOn, tokens, request, lockAfter, alerted, guesses, eras, crossed, raced, adTook, lowered>>
  BY <1>r DEF CreateUser
<1>2. RowsOK /\ user \in [People -> UserRow] /\ Counted(u) /\ user[u].fails = 0 /\ user[u].locked = FALSE
      /\ user[u].active = FALSE
  BY <1>1 DEF AccountsIInv, RowsOK, AllCounted, AbsentIsBlank, Absent
<1>3. R \in UserRow /\ R.source = "LOCAL" /\ R.fails = 0 /\ ~R.locked
  BY <1>r, NewRow
<1>4. user' \in [People -> UserRow] /\ user'[u] = R /\ \A v \in People \ {u} : user'[v] = user[v]
  BY ONLY <1>1, <1>2, <1>3
<1>5. RowsOK'
  BY ONLY <1>1, <1>2, <1>4 DEF RowsOK
<1>6. Kept(u)
  BY <1>1 DEF Kept
<1>7. ASSUME NEW q \in Requests, Working(q), request[q].u = u PROVE FreshRow(request[q])'
  <2>1. RequestOfAccount(request[q]) /\ FreshRow(request[q])
    BY <1>7 DEF AccountsIInv, RequestsOfAccounts, RowsAreFresh
  <2>2. request[q].row.source = "none"
    BY <1>1, <1>7, <2>1 DEF RequestOfAccount, OfAccount
  <2> QED
    BY <1>1, <2>1, <2>2 DEF FreshRow
<1>8. Counted(u)'
  <2>1. Failing(u)' <=> Failing(u)
    BY <1>1 DEF Failing
  <2> QED
    BY <1>1, <1>2, <1>3, <1>4, <2>1 DEF Counted
<1>9. ActiveAdmins \subseteq ActiveAdmins'
  BY <1>2, <1>4 DEF ActiveAdmins
<1>10. user'[u].source # "none" /\ tokens' \ tokens = {} /\ (adTook => adTook')
  BY <1>1, <1>3, <1>4
<1>11. /\ \A v \in People \ {u} : user'[v] = user[v] /\ guesses'[v] = guesses[v] /\ (v \in alerted => v \in alerted')
       /\ \A v \in People : crossed[v] => crossed'[v]
  BY <1>1, <1>4
<1> QED
  BY ONLY AccountsIInv, u \in People, <1>1, <1>5, <1>6, <1>7, <1>8, <1>9, <1>10, <1>11, StatementHolds

LEMMA LockEndsHolds == ASSUME AccountsIInv, NEW u \in People, LockEnds(u) PROVE AccountsIInv'
<1>r. PICK R : R = [user[u] EXCEPT !.locked = FALSE]
  OBVIOUS
<1>1. /\ user[u].locked /\ user' = [user EXCEPT ![u] = R]
      /\ guesses' = [guesses EXCEPT ![u] = IF user[u].fails < lockAfter THEN user[u].fails ELSE lockAfter - 1]
      /\ UNCHANGED <<role, directoryOn, tokens, request, lockAfter, alerted, eras, crossed, raced, adTook, lowered>>
  BY <1>r DEF LockEnds
<1>2. /\ RowsOK /\ user \in [People -> UserRow] /\ user[u] \in UserRow /\ Counted(u)
      /\ user[u].fails \in Nat /\ user[u].sv \in Nat /\ lockAfter \in Nat \ {0} /\ guesses \in [People -> Nat]
  BY AccountsAssumption DEF AccountsIInv, RowsOK, AllCounted, UserRow
<1>3. user[u].source # "none"
  BY <1>1 DEF AccountsIInv, AbsentIsBlank, Absent
<1>4. /\ R \in UserRow /\ R.source = user[u].source /\ R.role = user[u].role /\ R.active = user[u].active
      /\ R.sv = user[u].sv /\ R.pw = user[u].pw /\ R.fails = user[u].fails /\ R.locked = FALSE
  BY ONLY <1>2, <1>r DEF UserRow
<1>5. user' \in [People -> UserRow] /\ user'[u] = R /\ \A v \in People \ {u} : user'[v] = user[v]
  BY ONLY <1>1, <1>2, <1>4
<1>6. /\ guesses' \in [People -> Nat] /\ (\A v \in People \ {u} : guesses'[v] = guesses[v])
      /\ guesses'[u] <= user[u].fails /\ guesses'[u] < lockAfter /\ guesses'[u] \in Nat
  BY ONLY <1>1, <1>2, u \in People
<1>7. RowsOK'
  BY ONLY <1>1, <1>2, <1>5, <1>6 DEF RowsOK
<1>8. Kept(u)
  BY <1>2, <1>4, <1>5 DEF Kept
<1>9. \A q \in Requests : Working(q) /\ request[q].u = u => FreshRow(request[q])'
  <2> SUFFICES ASSUME NEW q \in Requests, Working(q), request[q].u = u PROVE FreshRow(request[q])'
    OBVIOUS
  <2>1. FreshRow(request[q])
    BY DEF AccountsIInv, RowsAreFresh
  <2> QED
    BY ONLY <1>1, <1>4, <1>5, <2>1, request[q].u = u DEF FreshRow
<1>10. Counted(u)'
  BY <1>1, <1>2, <1>4, <1>5, <1>6 DEF Counted
<1>11. ActiveAdmins \subseteq ActiveAdmins'
  BY <1>4, <1>5 DEF ActiveAdmins
<1>12. user'[u].source # "none" /\ tokens' \ tokens = {} /\ (adTook => adTook')
  BY <1>1, <1>3, <1>4, <1>5
<1>13. /\ \A v \in People \ {u} : user'[v] = user[v] /\ guesses'[v] = guesses[v] /\ (v \in alerted => v \in alerted')
       /\ \A v \in People : crossed[v] => crossed'[v]
  BY <1>1, <1>5, <1>6
<1> QED
  BY ONLY AccountsIInv, u \in People, <1>1, <1>7, <1>8, <1>9, <1>10, <1>11, <1>12, <1>13, StatementHolds

\* What happens elsewhere: in the directory, and to the settings.
LEMMA ElsewhereHolds ==
    ASSUME AccountsIInv, RowsOK',
           UNCHANGED <<user, tokens, request, alerted, guesses, eras, crossed, raced, adTook>>,
           lowered => lowered', lowered' \/ lockAfter <= lockAfter'
    PROVE  AccountsIInv'
<1>1. AbsentIsBlank' /\ TokensOfAccounts' /\ RequestsOfAccounts' /\ Alone' /\ RowsAreFresh' /\ OneChange' /\ AnotherAdmin'
  <2>1. AbsentIsBlank' /\ TokensOfAccounts'
    BY DEF AccountsIInv, AbsentIsBlank, TokensOfAccounts, TokenOfAccount, OfAccount
  <2>2. RequestsOfAccounts'
    BY DEF AccountsIInv, RequestsOfAccounts, RequestOfAccount, OfAccount, Working
  <2>3. Alone' /\ RowsAreFresh'
    BY DEF AccountsIInv, Alone, RowsAreFresh, FreshRow, Working
  <2>4. OneChange' /\ AnotherAdmin'
    BY DEF AccountsIInv, OneChange, AnotherAdmin, Changing, ActiveAdmins, Demotions
  <2> QED
    BY <2>1, <2>2, <2>3, <2>4
<1>2. AllCounted'
  <2> SUFFICES ASSUME NEW v \in People PROVE Counted(v)'
    BY DEF AllCounted
  <2>1. Failing(v)' <=> Failing(v)
    BY DEF Failing
  <2>2. RowsOK /\ Counted(v) /\ lockAfter' \in Nat
    BY AccountsAssumption DEF AccountsIInv, RowsOK, AllCounted
  <2> QED
    BY <2>1, <2>2, CountKept
<1> QED
  BY <1>1, <1>2 DEF AccountsIInv

LEMMA DirectoryChangesHolds ==
    ASSUME AccountsIInv, NEW u \in People, NEW as \in Roles \cup {"none"}, DirectoryChanges(u, as)
    PROVE  AccountsIInv'
<1>1. /\ role' = [role EXCEPT ![u] = as]
      /\ UNCHANGED <<user, directoryOn, tokens, request, lockAfter, alerted, guesses, eras, crossed, raced, adTook, lowered>>
  BY DEF DirectoryChanges
<1>2. RowsOK' /\ lockAfter \in Nat
  BY <1>1, AccountsAssumption DEF AccountsIInv, RowsOK
<1> QED
  BY <1>1, <1>2, ElsewhereHolds

LEMMA SwitchDirectoryHolds == ASSUME AccountsIInv, SwitchDirectory PROVE AccountsIInv'
<1>1. /\ directoryOn' = ~directoryOn
      /\ UNCHANGED <<user, role, tokens, request, lockAfter, alerted, guesses, eras, crossed, raced, adTook, lowered>>
  BY DEF SwitchDirectory
<1>2. RowsOK' /\ lockAfter \in Nat
  BY <1>1, AccountsAssumption DEF AccountsIInv, RowsOK
<1> QED
  BY <1>1, <1>2, ElsewhereHolds

LEMMA SetLockAfterHolds == ASSUME AccountsIInv, NEW n \in LockLimits, SetLockAfter(n) PROVE AccountsIInv'
<1>1. /\ lockAfter' = n /\ lowered' = (lowered \/ n < lockAfter)
      /\ UNCHANGED <<user, role, directoryOn, tokens, request, alerted, guesses, eras, crossed, raced, adTook>>
  BY DEF SetLockAfter
<1>2. lowered \in BOOLEAN /\ lockAfter \in Nat /\ n \in Nat
  BY AccountsAssumption DEF AccountsIInv, RowsOK
<1>3. lowered' \in BOOLEAN /\ (lowered => lowered') /\ (lowered' \/ lockAfter <= lockAfter')
  <2>1. PICK less \in BOOLEAN : less <=> n < lockAfter
    OBVIOUS
  <2>2. ~less => lockAfter <= lockAfter'
    BY <1>1, <1>2, <2>1
  <2>3. lowered' = (lowered \/ less)
    BY <1>1, <2>1
  <2> QED
    BY ONLY <1>2, <2>1, <2>2, <2>3
<1>4. RowsOK'
  BY ONLY AccountsIInv, n \in LockLimits, <1>1, <1>3 DEF AccountsIInv, RowsOK
<1> QED
  BY <1>1, <1>3, <1>4, ElsewhereHolds
-----------------------------------------------------------------------------
(***************************************************************************)
(* The invariant, and what it says of the accounts.                        *)
(***************************************************************************)
LEMMA InitHolds == AccountsInit => AccountsIInv
<1> SUFFICES ASSUME AccountsInit PROVE AccountsIInv
  OBVIOUS
<1>1. \A u \in People : /\ user[u] = NewUser("LOCAL", "ADMIN") \/ user[u] = NewUser("LOCAL", "VIEWER") \/ user[u] = Absent
                        /\ u \in LocalAdmins => user[u] = NewUser("LOCAL", "ADMIN")
  BY DEF AccountsInit
<1>2. Absent \in UserRow /\ Absent.fails = 0 /\ Absent.locked = FALSE /\ Absent.source = "none"
  BY DEF Absent, UserRow, AccountKinds, Roles
<1>3. \A as \in Roles : LET y == NewUser("LOCAL", as) IN
         y \in UserRow /\ y.fails = 0 /\ ~y.locked /\ y.source = "LOCAL" /\ y.role = as /\ y.active
  BY NewRow
<1>4. "ADMIN" \in Roles /\ "VIEWER" \in Roles
  BY DEF Roles
<1>5. \A u \in People : user[u] \in UserRow /\ user[u].fails = 0 /\ ~user[u].locked
                        /\ (user[u].source = "none" => user[u] = Absent)
  BY <1>1, <1>2, <1>3, <1>4
<1>6. user \in [People -> UserRow]
  BY <1>5 DEF AccountsInit
<1>7. RowsOK
  <2>1. request \in [Requests -> {IdleRequest} \cup BusyRequest]
    BY DEF AccountsInit
  <2> QED
    BY ONLY <1>6, <2>1, AccountsInit DEF AccountsInit, RowsOK
<1>8. \A r \in Requests : request[r].pc = "idle"
  BY DEF AccountsInit, IdleRequest
<1>9. AbsentIsBlank /\ TokensOfAccounts /\ RequestsOfAccounts /\ Alone /\ RowsAreFresh /\ OneChange
  BY <1>5, <1>8 DEF AccountsInit, AbsentIsBlank, TokensOfAccounts, RequestsOfAccounts, Alone, RowsAreFresh, OneChange,
                    Changing, Working
<1>10. AllCounted
  <2> SUFFICES ASSUME NEW u \in People PROVE Counted(u)
    BY DEF AllCounted
  <2>1. guesses[u] = 0 /\ lockAfter \in Nat \ {0} /\ user[u].fails = 0 /\ ~user[u].locked
    BY <1>5, AccountsAssumption DEF AccountsInit
  <2> QED
    BY <2>1 DEF Counted
<1>11. AnotherAdmin
  <2>1. PICK u \in LocalAdmins : u \in People
    BY AccountsAssumption
  <2>2. u \in ActiveAdmins
    BY <1>1, <1>3, <1>4, <2>1 DEF ActiveAdmins
  <2> QED
    BY <1>8, <2>2 DEF AnotherAdmin, Changing
<1> QED
  BY <1>7, <1>9, <1>10, <1>11 DEF AccountsIInv

LEMMA InvStep == AccountsIInv /\ [AccountsNext]_accountVars => AccountsIInv'
<1> SUFFICES ASSUME AccountsIInv, [AccountsNext]_accountVars PROVE AccountsIInv'
  OBVIOUS
<1>1. ASSUME NEW r \in Requests, NEW u \in People, NEW byName \in BOOLEAN, NEW pw \in {0, user[u].pw},
             LogIn(r, u, pw, byName)
      PROVE  AccountsIInv'
  BY <1>1, LogInHolds
<1>2. ASSUME NEW r \in Requests, LoginStep(r) PROVE AccountsIInv'
  <2>1. PICK u : u = request[r].u
    OBVIOUS
  <2> QED
    BY <1>2, <2>1, VerifyHolds, AskDirectoryHolds, ProvisionHolds, RecordFailureHolds, CompleteHolds DEF LoginStep
<1>3. ASSUME NEW r \in Requests, WriteStep(r) PROVE AccountsIInv'
  <2>1. PICK u : u = request[r].u
    OBVIOUS
  <2> QED
    BY <1>3, <2>1, RecheckHolds, CountAdminsHolds, UpdateUserHolds, ResetPasswordHolds, ChangePasswordHolds DEF WriteStep
<1>4. ASSUME NEW r \in Requests, ~Working(r), NEW t \in tokens, Renew(r, t) PROVE AccountsIInv'
  BY <1>4, RenewHolds
<1>5. ASSUME NEW r \in Requests, ~Working(r), NEW t \in tokens, WriteAsked(r, t) PROVE AccountsIInv'
  BY <1>5, AskChangeHolds, AskPatchHolds, CreateUserHolds, AskResetHolds, UnlockHolds, RevokeSessionsHolds DEF WriteAsked
<1>6. CASE UNCHANGED accountVars
  <2>1. RowsOK' /\ lockAfter \in Nat
    BY <1>6, AccountsAssumption DEF AccountsIInv, RowsOK, accountVars
  <2> QED
    BY <1>6, <2>1, ElsewhereHolds DEF accountVars
<1> QED
  BY <1>1, <1>2, <1>3, <1>4, <1>5, <1>6, LockEndsHolds, DirectoryChangesHolds, SwitchDirectoryHolds, SetLockAfterHolds
     DEF AccountsNext

LEMMA HoldsImplies == AccountsIInv => AccountsTypeOK /\ AccountsHold
<1> SUFFICES ASSUME AccountsIInv PROVE AccountsTypeOK /\ AccountsHold
  OBVIOUS
<1>1. \A u \in People : user[u] \in UserRow /\ user[u].sv \in Nat
  BY DEF AccountsIInv, RowsOK, UserRow
<1>2. ASSUME NEW t \in tokens
      PROVE  t.u \in People /\ t.sv \in Nat /\ t.pw \in Nat /\ t.sv <= user[t.u].sv /\ t.via = user[t.u].source
             /\ t.via # "none" /\ (t.sv = user[t.u].sv => t.pw = user[t.u].pw)
             /\ (~crossed[t.u] /\ t.sv = user[t.u].sv => t.era = eras[t.u])
  <2>1. t \in SessionToken /\ TokenOfAccount(t)
    BY DEF AccountsIInv, RowsOK, TokensOfAccounts
  <2> QED
    BY ONLY <2>1 DEF SessionToken, TokenOfAccount, OfAccount
<1>3. AccountsTypeOK
  BY <1>1, <1>2 DEF AccountsTypeOK, AccountsIInv, AbsentIsBlank, UserRow, AccountKinds
<1>4. OneAdminStays
  BY DEF AccountsIInv, AnotherAdmin, OneAdminStays
<1>5. SessionsCurrent /\ NoTakeover
  BY <1>2 DEF SessionsCurrent, NoTakeover, Authentic
<1>6. GuessesBounded /\ LockIsAlerted
  BY DEF AccountsIInv, AllCounted, Counted, GuessesBounded, LockIsAlerted
<1> QED
  BY <1>3, <1>4, <1>5, <1>6 DEF AccountsHold
-----------------------------------------------------------------------------
\* AccountsTypeOK, of the rows of User and the sessions handed out (auth.ts, users.ts):
\* an account that is not there is blank, and no session is ahead of its account.
THEOREM AccountsTypeCorrect == AccountsSpec => []AccountsTypeOK
<1>1. AccountsIInv => AccountsTypeOK
  BY HoldsImplies
<1> QED
  BY <1>1, InitHolds, InvStep, PTL DEF AccountsSpec

\* AccountsHold: sign-ins, renewals and changes of accounts (auth.ts, users.ts) that
\* overlap anyhow leave an administrator, let no session outlive the password it was
\* signed for, enter no account another way than it is kept, and cut guessing short.
THEOREM AccountsSound == AccountsSpec => []AccountsHold
<1>1. AccountsIInv => AccountsHold
  BY HoldsImplies
<1> QED
  BY <1>1, InitHolds, InvStep, PTL DEF AccountsSpec
=============================================================================
