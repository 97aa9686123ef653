------------------------ MODULE WorkerRegistryProofs -------------------------
(***************************************************************************)
(* The types of WorkerRegistry for any workers and hosts, and, for one     *)
(* worker per host, that online workers are in the master's list.          *)
(*                                                                         *)
(* That no lease is renewed by two workers needs LeasesApart: rounds have  *)
(* leases of their own.  OnlineIsListed needs that an address is still     *)
(* bound to the lease of the last Put (Registered).                        *)
(***************************************************************************)
EXTENDS WorkerRegistry, TLAPS

\* Rounds of different workers have different leases, and nobody renews the
\* lease of another worker's round.
LeasesApart ==
    \A v, w \in Worker : v # w =>
        /\ lease[v] \notin keep[w]
        /\ lease[v] = lease[w] => lease[v] = NoLease

\* The key of an online worker belongs to its lease, until that expires.
Registered ==
    \A w \in Worker : pc[w] = "online" /\ lease[w] \in alive => regKey[IP[w]] = lease[w]

\* One worker per host.
OwnHosts == \A v, w \in Worker : IP[v] = IP[w] => v = w

IInv ==
    /\ TypeOK
    /\ LeasesApart
    /\ OwnHosts => Registered

USE RegistryAssumption DEF NoLease

-----------------------------------------------------------------------------

\* The inductive invariant holds initially.
LEMMA InitIInv == Init => IInv
BY DEF Init, IInv, TypeOK, PC, LeasesApart, Registered, Address

\* Granting a lease keeps the inductive invariant: the lease is new.
LEMMA GrantKeepsIInv == ASSUME IInv, NEW w \in Worker, Grant(w) PROVE IInv'
<1>1. CASE /\ lease' = [lease EXCEPT ![w] = nextLease]
           /\ nextLease' = nextLease + 1
           /\ alive' = alive \cup {nextLease}
           /\ pc' = [pc EXCEPT ![w] = "keepalive"]
           /\ UNCHANGED <<keep, regKey>>
  <2>1. TypeOK
    BY DEF IInv
  <2>2. nextLease \notin alive /\ nextLease # NoLease
    BY <2>1 DEF TypeOK
  <2>3. \A v \in Worker : lease[v] # nextLease /\ nextLease \notin keep[v]
    BY <2>1, <2>2 DEF TypeOK
  <2>4. /\ pc' \in [Worker -> PC] /\ nextLease' \in Nat \ {NoLease}
        /\ alive' \subseteq 1..(nextLease' - 1)
        /\ \A u, v \in Worker : u # v => keep'[u] \cap keep'[v] = {}
    BY <1>1, <2>1 DEF TypeOK, PC
  <2>5. lease' \in [Worker -> 0..(nextLease' - 1)]
    <3>1. \A v \in Worker : lease[v] \in 0..nextLease
      BY <2>1 DEF TypeOK
    <3>2. nextLease' - 1 = nextLease /\ nextLease \in 0..nextLease
      BY <1>1, <2>1 DEF TypeOK
    <3>3. lease \in [Worker -> 0..nextLease]
      BY <3>1, <2>1 DEF TypeOK
    <3> QED BY <1>1, <3>2, <3>3
  <2>6. keep' \in [Worker -> SUBSET alive'] /\ regKey' \in [Address -> {NoLease} \cup alive']
    <3>1. \A v \in Worker : keep[v] \subseteq alive'
      BY <1>1, <2>1 DEF TypeOK
    <3>2. \A a \in Address : regKey[a] \in {NoLease} \cup alive'
      BY <1>1, <2>1 DEF TypeOK
    <3> QED BY <1>1, <2>1, <3>1, <3>2 DEF TypeOK
  <2>7. LeasesApart'
    BY <1>1, <2>1, <2>3 DEF IInv, TypeOK, LeasesApart
  <2>8. OwnHosts => Registered'
    BY <1>1, <2>1, <2>3 DEF IInv, TypeOK, Registered
  <2> QED BY <2>4, <2>5, <2>6, <2>7, <2>8 DEF IInv, TypeOK, Address, OwnHosts
<1>2. CASE pc' = [pc EXCEPT ![w] = "retry"] /\ UNCHANGED <<lease, nextLease, alive, keep, regKey>>
  BY <1>2 DEF IInv, TypeOK, PC, LeasesApart, Registered, Address, OwnHosts
<1> QED BY <1>1, <1>2 DEF Grant, Goto

\* So does starting to renew it: it is nobody else's.
LEMMA KeepAliveKeepsIInv == ASSUME IInv, NEW w \in Worker, KeepAlive(w) PROVE IInv'
<1>1. /\ pc[w] = "keepalive"
      /\ pc' \in {[pc EXCEPT ![w] = "put"], [pc EXCEPT ![w] = "retry"]}
      /\ \/ keep' = [keep EXCEPT ![w] = @ \cup ({lease[w]} \cap alive)]
         \/ keep' = keep
      /\ UNCHANGED <<lease, nextLease, alive, regKey>>
  BY DEF KeepAlive, Goto
<1>2. TypeOK /\ LeasesApart
  BY DEF IInv
<1>3. keep' \in [Worker -> SUBSET alive]
  BY <1>1, <1>2 DEF TypeOK
<1>4. \A v \in Worker : keep'[v] \subseteq keep[v] \cup (IF v = w THEN {lease[w]} \cap alive ELSE {})
  BY <1>1, <1>2 DEF TypeOK
<1>5. NoLease \notin alive
  BY <1>2 DEF TypeOK
<1>6. \A u, v \in Worker : u # v => keep'[u] \cap keep'[v] = {}
  <2> SUFFICES ASSUME NEW u \in Worker, NEW v \in Worker, u # v
               PROVE  keep'[u] \cap keep'[v] = {}
    OBVIOUS
  <2>1. keep[u] \cap keep[v] = {} /\ lease[u] \notin keep[v] /\ lease[v] \notin keep[u]
    BY <1>2 DEF TypeOK, LeasesApart
  <2> QED BY <1>4, <2>1
<1>7. LeasesApart'
  BY <1>1, <1>2, <1>4, <1>5 DEF LeasesApart
<1>8. TypeOK'
  BY <1>1, <1>2, <1>3, <1>6 DEF TypeOK, PC, Address
<1>9. OwnHosts => Registered'
  BY <1>1, <1>2 DEF IInv, Registered, TypeOK
<1> QED BY <1>7, <1>8, <1>9 DEF IInv, OwnHosts

\* So does the Put: no other worker uses the address.
LEMMA PutKeepsIInv == ASSUME IInv, NEW w \in Worker, Put(w) PROVE IInv'
<1>1. /\ UNCHANGED <<lease, nextLease, alive, keep>>
      /\ \/ /\ lease[w] \in alive
            /\ regKey' = [regKey EXCEPT ![IP[w]] = lease[w]]
            /\ pc' \in {[pc EXCEPT ![w] = "online"], [pc EXCEPT ![w] = "retry"]}
         \/ pc' = [pc EXCEPT ![w] = "retry"] /\ regKey' = regKey
  BY DEF Put, Goto
<1>2. TypeOK
  BY DEF IInv
<1>3. IP[w] \in Address /\ \A v \in Worker : IP[v] \in Address
  BY DEF Address
<1>4. TypeOK' /\ LeasesApart'
  BY <1>1, <1>2, <1>3 DEF IInv, TypeOK, PC, Address, LeasesApart
<1>5. OwnHosts => Registered'
  BY <1>1, <1>2, <1>3 DEF IInv, TypeOK, Registered, OwnHosts
<1> QED BY <1>4, <1>5 DEF IInv, OwnHosts

\* The expiry of a lease nobody renews takes the keys of that lease only.
LEMMA ExpireKeepsIInv == ASSUME IInv, NEW l \in alive, Expire(l) PROVE IInv'
<1>1. /\ \A w \in Worker : l \notin keep[w]
      /\ alive' = alive \ {l}
      /\ regKey' = [a \in Address |-> IF regKey[a] = l THEN NoLease ELSE regKey[a]]
      /\ UNCHANGED <<pc, lease, nextLease, keep>>
  BY DEF Expire
<1>2. TypeOK /\ l # NoLease
  BY DEF IInv, TypeOK
<1>3. keep' \in [Worker -> SUBSET alive']
  BY <1>1, <1>2 DEF TypeOK
<1>4. TypeOK' /\ LeasesApart'
  BY <1>1, <1>2, <1>3 DEF IInv, TypeOK, Address, LeasesApart
<1>5. OwnHosts => Registered'
  BY <1>1, <1>2 DEF IInv, Registered, Address
<1> QED BY <1>4, <1>5 DEF IInv, OwnHosts

\* A worker that ends a round, or its life, has no lease; what it renewed
\* is still nobody else's.
LEMMA RoundEndKeepsIInv ==
    ASSUME IInv, NEW w \in Worker, Retry(w) \/ Crash(w)
    PROVE  IInv'
<1>1. /\ lease' = [lease EXCEPT ![w] = NoLease]
      /\ pc' \in {[pc EXCEPT ![w] = "grant"], [pc EXCEPT ![w] = "off"]}
      /\ keep' \in {keep, [keep EXCEPT ![w] = {}]}
      /\ UNCHANGED <<nextLease, alive, regKey>>
  BY DEF Retry, Crash, Goto
<1>2. TypeOK /\ NoLease \notin alive
  BY DEF IInv, TypeOK
<1>3. TypeOK'
  BY <1>1, <1>2 DEF TypeOK, PC, Address
<1>4. LeasesApart'
  BY <1>1, <1>2 DEF IInv, TypeOK, LeasesApart
<1>5. OwnHosts => Registered'
  BY <1>1, <1>2 DEF IInv, TypeOK, Registered
<1> QED BY <1>3, <1>4, <1>5 DEF IInv, OwnHosts

\* Every step keeps the inductive invariant.
LEMMA NextIInv == IInv /\ [Next]_vars => IInv'
<1> SUFFICES ASSUME IInv, [Next]_vars PROVE IInv'
  OBVIOUS
<1>1. ASSUME NEW w \in Worker, Start(w) \/ KeepAliveEnds(w) PROVE IInv'
  <2>1. /\ pc' \in {[pc EXCEPT ![w] = "grant"], [pc EXCEPT ![w] = "retry"]}
        /\ UNCHANGED <<lease, nextLease, alive, keep, regKey>>
    BY <1>1 DEF Start, KeepAliveEnds, Goto
  <2> QED BY <2>1 DEF IInv, TypeOK, PC, Address, LeasesApart, Registered, OwnHosts
<1>2. ASSUME NEW w \in Worker, NEW l \in keep[w], KeepAliveLost(w, l) PROVE IInv'
  <2>1. keep' = [keep EXCEPT ![w] = @ \ {l}]
        /\ UNCHANGED <<pc, lease, nextLease, alive, regKey>>
    BY <1>2 DEF KeepAliveLost
  <2> QED BY <2>1 DEF IInv, TypeOK, Address, LeasesApart, Registered, OwnHosts
<1>3. CASE UNCHANGED vars
  BY <1>3 DEF vars, IInv, TypeOK, Address, LeasesApart, Registered, OwnHosts
<1> QED BY <1>1, <1>2, <1>3, GrantKeepsIInv, KeepAliveKeepsIInv, PutKeepsIInv, ExpireKeepsIInv,
           RoundEndKeepsIInv DEF Next

-----------------------------------------------------------------------------
(* The theorems *)

\* The inductive invariant holds in every reachable state (keepOnline).
THEOREM Inductive == Spec => []IInv
<1> QED BY InitIInv, NextIInv, PTL DEF Spec

\* Type correctness; in particular the lease of a key is alive, and no lease
\* is renewed by two workers (worker_registry.go:57-71).
THEOREM TypeCorrect == Spec => []TypeOK
<1>1. IInv => TypeOK
  BY DEF IInv
<1> QED BY <1>1, Inductive, PTL

\* With one worker per host, a worker that is online with a renewed lease is
\* in the master's list, whatever rounds failed before (keepOnline).
THEOREM OnlineIsListedHolds == ASSUME OwnHosts PROVE Spec => []OnlineIsListed
<1>1. IInv => OnlineIsListed
  <2> SUFFICES ASSUME IInv, NEW w \in Worker, pc[w] = "online", lease[w] \in keep[w]
               PROVE  IP[w] \in ListWorkers
    BY DEF OnlineIsListed
  <2>1. lease[w] \in alive /\ lease[w] # NoLease
    BY DEF IInv, TypeOK
  <2>2. regKey[IP[w]] = lease[w]
    BY <2>1 DEF IInv, Registered
  <2> QED BY <2>1, <2>2 DEF ListWorkers, Address
<1> QED BY <1>1, Inductive, PTL

=============================================================================
