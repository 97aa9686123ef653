--------------------------- MODULE WorkerRegistry ----------------------------
(***************************************************************************)
(* The registration of workers, worker/core/worker_registry.go, and the    *)
(* list the master reads, master/service/worker.go.  keepOnline grants a   *)
(* lease, keeps it alive, puts /cron/workers/<IP> under it, and starts     *)
(* again whenever a step fails or the keep-alive ends.                     *)
(*                                                                         *)
(* etcd is external: a lease that nobody renews may expire at any moment,  *)
(* its keys die with it, a key belongs to the lease of its last Put, and a *)
(* request may fail before or after it took effect.                        *)
(***************************************************************************)
EXTENDS Integers, FiniteSets

CONSTANTS
    Worker,     \* the worker processes
    IP,         \* the address of each worker's host (GetLocalIP)
    MaxLease    \* bound: leases granted in a behaviour

ASSUME RegistryAssumption ==
    /\ IP \in [Worker -> STRING]
    /\ MaxLease \in Nat

VARIABLES
    pc,         \* where keepOnline is; "off": the process is not running
    lease,      \* the lease of the current round, or NoLease
    nextLease,  \* the next fresh lease ID of etcd
    alive,      \* the leases etcd considers alive
    keep,       \* the leases each worker's client keeps alive
    regKey      \* the lease the key of an address belongs to, NoLease: no key

vars == <<pc, lease, nextLease, alive, keep, regKey>>

NoLease == 0
Address == {IP[w] : w \in Worker}

PC == {"off", "grant", "keepalive", "put", "online", "retry"}

TypeOK ==
    /\ pc \in [Worker -> PC]
    /\ nextLease \in Nat \ {NoLease}
    /\ lease \in [Worker -> 0..(nextLease - 1)]
    /\ alive \subseteq 1..(nextLease - 1)
    /\ keep \in [Worker -> SUBSET alive]
    /\ \A v, w \in Worker : v # w => keep[v] \cap keep[w] = {}
    /\ regKey \in [Address -> {NoLease} \cup alive]

Init ==
    /\ pc = [w \in Worker |-> "off"]
    /\ lease = [w \in Worker |-> NoLease]
    /\ nextLease = 1
    /\ alive = {}
    /\ keep = [w \in Worker |-> {}]
    /\ regKey = [a \in Address |-> NoLease]

Goto(w, p) == pc' = [pc EXCEPT ![w] = p]

\* InitRegister starts keepOnline.
Start(w) ==
    /\ pc[w] = "off"
    /\ Goto(w, "grant")
    /\ UNCHANGED <<lease, nextLease, alive, keep, regKey>>

\* Mutant: a round may be handed the lease of an earlier one.
Grant_OldLease(w) ==
    /\ pc[w] = "grant"
    /\ nextLease <= MaxLease
    /\ lease' = [lease EXCEPT ![w] = nextLease]
    /\ alive' = alive \cup {nextLease}
    /\ Goto(w, "keepalive")
    /\ UNCHANGED <<nextLease, keep, regKey>>

\* lease.Grant; the bound leaves out rounds beyond MaxLease.
Grant(w) ==
    /\ pc[w] = "grant"
    /\ \/ /\ nextLease <= MaxLease
          /\ lease' = [lease EXCEPT ![w] = nextLease]
          /\ nextLease' = nextLease + 1
          /\ alive' = alive \cup {nextLease}
          /\ Goto(w, "keepalive")
       \/ Goto(w, "retry") /\ UNCHANGED <<lease, nextLease, alive>>
    /\ UNCHANGED <<keep, regKey>>

\* lease.KeepAlive, under a context that is never cancelled.
KeepAlive(w) ==
    /\ pc[w] = "keepalive"
    /\ \/ /\ keep' = [keep EXCEPT ![w] = @ \cup ({lease[w]} \cap alive)]
          /\ Goto(w, "put")
       \/ Goto(w, "retry") /\ UNCHANGED keep
    /\ UNCHANGED <<lease, nextLease, alive, regKey>>

\* Mutant: a key that is there is left to the lease it has.
Put_KeepsOldLease(w) ==
    /\ pc[w] = "put"
    /\ lease[w] \in alive
    /\ regKey' = [regKey EXCEPT ![IP[w]] = IF @ = NoLease THEN lease[w] ELSE @]
    /\ Goto(w, "online")
    /\ UNCHANGED <<lease, nextLease, alive, keep>>

\* kv.Put(regKey, ..., WithLease).  After an error, Put applied or not, the
\* round is over, but its keep-alive goes on.
Put(w) ==
    /\ pc[w] = "put"
    /\ \/ /\ lease[w] \in alive
          /\ regKey' = [regKey EXCEPT ![IP[w]] = lease[w]]
          /\ pc' \in {[pc EXCEPT ![w] = p] : p \in {"online", "retry"}}
       \/ Goto(w, "retry") /\ UNCHANGED regKey
    /\ UNCHANGED <<lease, nextLease, alive, keep>>

\* keepAliveResp = nil: the client has given the lease up, or lost it.
KeepAliveEnds(w) ==
    /\ pc[w] = "online"
    /\ lease[w] \notin keep[w]
    /\ Goto(w, "retry")
    /\ UNCHANGED <<lease, nextLease, alive, keep, regKey>>

\* RETRY: after 3 seconds a new round.  cancelFunc only cancels the context
\* of the Put, which has returned.
Retry(w) ==
    /\ pc[w] = "retry"
    /\ lease' = [lease EXCEPT ![w] = NoLease]
    /\ Goto(w, "grant")
    /\ UNCHANGED <<nextLease, alive, keep, regKey>>

-----------------------------------------------------------------------------
(* etcd, the network, and the end of a process *)

\* A lease that is not renewed runs out, and its keys are deleted.
Expire(l) ==
    /\ l \in alive
    /\ \A w \in Worker : l \notin keep[w]
    /\ alive' = alive \ {l}
    /\ regKey' = [a \in Address |-> IF regKey[a] = l THEN NoLease ELSE regKey[a]]
    /\ UNCHANGED <<pc, lease, nextLease, keep>>

\* The renewals of a lease stop getting through.
KeepAliveLost(w, l) ==
    /\ l \in keep[w]
    /\ keep' = [keep EXCEPT ![w] = @ \ {l}]
    /\ UNCHANGED <<pc, lease, nextLease, alive, regKey>>

\* Mutant: somebody goes on renewing the leases of a dead process.
Crash_Renewed(w) ==
    /\ pc[w] # "off"
    /\ Goto(w, "off")
    /\ lease' = [lease EXCEPT ![w] = NoLease]
    /\ UNCHANGED <<nextLease, alive, keep, regKey>>

\* The worker dies, its keep-alives with it.
Crash(w) ==
    /\ pc[w] # "off"
    /\ Goto(w, "off")
    /\ lease' = [lease EXCEPT ![w] = NoLease]
    /\ keep' = [keep EXCEPT ![w] = {}]
    /\ UNCHANGED <<nextLease, alive, regKey>>

Next ==
    \/ \E w \in Worker :
          \/ Start(w)
          \/ Grant(w)
          \/ KeepAlive(w)
          \/ Put(w)
          \/ KeepAliveEnds(w)
          \/ Retry(w)
          \/ Crash(w)
          \/ \E l \in keep[w] : KeepAliveLost(w, l)
    \/ \E l \in alive : Expire(l)

Spec == Init /\ [][Next]_vars

\* etcd expires what is not renewed; keepOnline runs.
Fairness ==
    /\ \A l \in 1..MaxLease : WF_vars(Expire(l))
    /\ \A w \in Worker :
          /\ WF_vars(Grant(w)) /\ WF_vars(KeepAlive(w)) /\ WF_vars(Put(w))
          /\ WF_vars(KeepAliveEnds(w)) /\ WF_vars(Retry(w))

FairSpec == Spec /\ Fairness

-----------------------------------------------------------------------------
(* Properties *)

\* ListWorkers of the master: the addresses that have a key.
ListWorkers == {a \in Address : regKey[a] # NoLease}

\* A worker whose registration succeeded and whose lease is renewed is in the
\* master's list, through any failures of earlier rounds.  (One worker per host.)
OnlineIsListed ==
    \A w \in Worker : pc[w] = "online" /\ lease[w] \in keep[w] => IP[w] \in ListWorkers

\* When all workers of a host are dead, the host leaves the list, "the key
\* expires by itself after a while" (line 124).
DeadIsUnlisted ==
    \A a \in Address :
        (\A w \in Worker : IP[w] = a => pc[w] = "off")
            ~> (a \notin ListWorkers \/ \E w \in Worker : IP[w] = a /\ pc[w] # "off")

=============================================================================
