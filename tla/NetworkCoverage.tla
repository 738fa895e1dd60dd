--------------------------- MODULE NetworkCoverage ---------------------------
(***************************************************************************)
(* Which machines of a network have an agent: a range that was typed is    *)
(* cut into addresses, the machines that answer there are found, and each  *)
(* is matched with the agents, by the address an agent last called in from *)
(* and else by its name.  Machines meanwhile change addresses, agents are  *)
(* installed, fall silent and are revoked.                                 *)
(*                                                                         *)
(* A name stands for its first label in lower case; a machine's address    *)
(* may have none.  An address is a number of Width bits (32 in the code).  *)
(* How a scan is asked for and reported is AgentJobs'.                     *)
(***************************************************************************)
EXTENDS Integers, FiniteSets, Bitwise

CONSTANTS
    Width, MinPrefix, MaxScanAddresses,
    Machines, HostOf, NoHost,      \* HostOf: [Machines -> names]
    Installed, InstalledOn,        \* agents: [Installed -> Machines]
    Leases,                        \* addresses the machines get
    Bases,                         \* addresses somebody types
    QuietAfter,                    \* detection.agentQuietAfterMinutes
    LastHour, MaxLeaseChanges      \* bounds of a behaviour

VARIABLES
    hour,
    lease,       \* [at, since]: each machine's address, 0 for none, and since when
    agentRow,    \* the Agent rows: [there, revoked, seen, ip]
    scan,        \* the last scan that succeeded: [base, prefix, hosts]
    leaseChanges

coverageVars == <<hour, lease, agentRow, scan, leaseChanges>>

CoverageInit ==
    /\ hour = 0 /\ leaseChanges = 0
    /\ lease \in [Machines -> [at : Leases \cup {0}, since : {0}]]
    /\ \A n, o \in Machines : n # o /\ lease[n].at # 0 => lease[n].at # lease[o].at
    /\ agentRow = [a \in Installed |-> [there |-> FALSE, revoked |-> FALSE, seen |-> 0, ip |-> 0]]
    /\ scan = [base |-> 0, prefix |-> Width, hosts |-> {}]

----------------------------------------------------------------------------
(* parseCidr *)

Modulus == 2^Width
\* The shift count is taken modulo the width, the result cut to it.
ShiftLeft(v, n) == (v * 2^(n % Width)) % Modulus

RangeSize(prefix) == 2^(Width - prefix)
Acceptable(prefix) == prefix \in MinPrefix..Width /\ RangeSize(prefix) <= MaxScanAddresses

Network(base, prefix) ==
    IF prefix = Width THEN base ELSE base & ShiftLeft(Modulus - 1, Width - prefix)

\* Without the network's own address and the broadcast, unless it is a host or a pair.
Swept[base \in 0..Modulus - 1, prefix \in 0..Width] ==
    LET size == RangeSize(prefix) IN
    {(Network(base, prefix) + i) % Modulus :
        i \in {j \in 0..size - 1 : ~(size > 2 /\ j \in {0, size - 1})}}

----------------------------------------------------------------------------
(* Machines and agents. *)

HourPasses ==
    /\ hour < LastHour /\ hour' = hour + 1
    /\ UNCHANGED <<lease, agentRow, scan, leaseChanges>>

\* A machine goes, comes or gets another address that is free.
LeaseChanges(m, to) ==
    /\ leaseChanges < MaxLeaseChanges /\ leaseChanges' = leaseChanges + 1
    /\ lease[m].at # to /\ (to # 0 => \A n \in Machines : lease[n].at # to)
    /\ lease' = [lease EXCEPT ![m] = [at |-> to, since |-> hour]]
    /\ UNCHANGED <<hour, agentRow, scan>>

\* An agent registers, or authenticates with what it was given then.
CallsIn(a) ==
    /\ lease[InstalledOn[a]].at # 0 /\ ~agentRow[a].revoked
    /\ agentRow' = [agentRow EXCEPT ![a] =
                      [@ EXCEPT !.there = TRUE, !.seen = hour, !.ip = lease[InstalledOn[a]].at]]
    /\ UNCHANGED <<hour, lease, scan, leaseChanges>>

RevokesRow(a) ==
    /\ agentRow[a].there /\ ~agentRow[a].revoked
    /\ agentRow' = [agentRow EXCEPT ![a].revoked = TRUE]
    /\ UNCHANGED <<hour, lease, scan, leaseChanges>>

\* Only what answers is found, and it may have no name.
Finds(base, prefix, named) ==
    /\ Acceptable(prefix)
    /\ LET swept == Swept[base, prefix]
           answering == {m \in Machines : lease[m].at \in swept \ {0}}
       IN  scan' = [base |-> base, prefix |-> prefix,
                    hosts |-> {[address |-> lease[m].at, host |-> IF m \in named THEN HostOf[m] ELSE NoHost] :
                                  m \in answering}]
    /\ UNCHANGED <<hour, lease, agentRow, leaseChanges>>

CoverageNext ==
    \/ HourPasses
    \/ \E m \in Machines, to \in Leases \cup {0} : LeaseChanges(m, to)
    \/ \E a \in Installed : CallsIn(a) \/ RevokesRow(a)
    \/ \E base \in Bases, prefix \in 0..Width, named \in SUBSET Machines : Finds(base, prefix, named)

CoverageSpec == CoverageInit /\ [][CoverageNext]_coverageVars

----------------------------------------------------------------------------
(* coverageFor *)

Nobody == "nobody"
\* Mutant of Seen: any of them.
SeenAny(S) == IF S = {} THEN {Nobody} ELSE S

\* Of several the one seen last; of those seen at one time, the first that was read.
Seen(S) == IF S = {} THEN {Nobody} ELSE {a \in S : \A b \in S : agentRow[b].seen <= agentRow[a].seen}

Rows == {a \in Installed : agentRow[a].there}
AtAddress(found) == {a \in Rows : agentRow[a].ip = found.address}
OfHost(found) == {a \in Rows : found.host # NoHost /\ HostOf[InstalledOn[a]] = found.host}

Matching(found) == IF AtAddress(found) # {} THEN Seen(AtAddress(found)) ELSE Seen(OfHost(found))

Quiet(a) == hour - agentRow[a].seen > QuietAfter

StateBy(a) ==
    IF a = Nobody \/ agentRow[a].revoked THEN "unprotected"
    ELSE IF Quiet(a) THEN "stale" ELSE "protected"

\* What may be shown of a machine that was found.
States(found) == {StateBy(a) : a \in Matching(found)}

----------------------------------------------------------------------------
(* Properties. *)

\* Rows are of their kind, and no scan sweeps more than it may.
CoverageTypeOK ==
    /\ \A a \in Installed : agentRow[a].ip \in Leases \cup {0} /\ agentRow[a].seen \in 0..hour
    /\ scan.base \in 0..Modulus - 1
    /\ \A found \in scan.hosts : found.host \in {HostOf[m] : m \in Machines} \cup {NoHost}
    /\ Cardinality(Swept[scan.base, scan.prefix]) <= MaxScanAddresses

\* Whatever address of it was typed, the whole range is swept and nothing else: the
\* addresses with the same first bits, without the first and the last of them.
RangeIsSwept ==
    LET size == RangeSize(scan.prefix)
        same == {v \in 0..Modulus - 1 : v \div size = scan.base \div size}
        ends == {v \in same : size > 2 /\ v % size \in {0, size - 1}}
    IN  Swept[scan.base, scan.prefix] = same \ ends

\* No machine is shown as unprotected of which an agent called in from the address
\* it still has, unless a revoked one was heard from there as late: the one mistake
\* the comment on coverageFor says must not be made.
CoveredIsFound ==
    \A found \in scan.hosts : \A a \in AtAddress(found) :
        /\ ~agentRow[a].revoked /\ lease[InstalledOn[a]].at = found.address
        /\ \A b \in AtAddress(found) : agentRow[b].revoked => agentRow[b].seen < agentRow[a].seen
        => "unprotected" \notin States(found)

\* Without that exception it does not hold.
CoveredIsAlwaysFound ==
    \A found \in scan.hosts : \A a \in AtAddress(found) \cup OfHost(found) :
        ~agentRow[a].revoked /\ lease[InstalledOn[a]].at = found.address => "unprotected" \notin States(found)

\* A machine shown as protected has an agent that was heard lately, if it has had its
\* address for as long as an agent may be quiet and shares its name with no other.
ProtectedHasAgent ==
    \A found \in scan.hosts, m \in Machines :
        /\ "protected" \in States(found) /\ lease[m].at = found.address
        /\ hour - lease[m].since > QuietAfter
        /\ found.host \in {NoHost, HostOf[m]} /\ \A n \in Machines \ {m} : HostOf[n] # HostOf[m]
        => \E a \in Rows : InstalledOn[a] = m /\ ~agentRow[a].revoked /\ ~Quiet(a)

\* The picture of a network is right: the whole range is swept, a machine with
\* an agent is not shown as unprotected, nor one without as protected.
CoverageIsTrue == RangeIsSwept /\ CoveredIsFound /\ ProtectedHasAgent
=============================================================================
