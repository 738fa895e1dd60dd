------------------------ MODULE NotificationAuthority ------------------------
(***************************************************************************)
(* What the response-action machinery promises of notifications, without   *)
(* rows, requests or policy runs: each is authorised at most once, by an   *)
(* admin or, where the settings say so, by the policy; and it fires at     *)
(* most once, after it was authorised.  Nothing promises that it fires.    *)
(***************************************************************************)
EXTENDS Naturals

CONSTANTS Notifications, Automatic

VARIABLES by, fired

Init ==
    /\ by = [x \in Notifications |-> {}]
    /\ fired = [x \in Notifications |-> 0]

Authorise(x, who) ==
    /\ by[x] = {}
    /\ who = "policy" => x \in Automatic
    /\ by' = [by EXCEPT ![x] = {who}]
    /\ UNCHANGED fired

Fire(x) ==
    /\ by[x] # {} /\ fired[x] = 0
    /\ fired' = [fired EXCEPT ![x] = 1]
    /\ UNCHANGED by

Next == \E x \in Notifications : (\E who \in {"admin", "policy"} : Authorise(x, who)) \/ Fire(x)

Spec == Init /\ [][Next]_<<by, fired>>
=============================================================================
