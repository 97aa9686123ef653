------------------------------ MODULE MasterJob ------------------------------
(***************************************************************************)
(* The job requests of the master: JobAdd, JobDelete and JobKill           *)
(* (master/controller/job.go) over JobSer (master/service/job.go).  Each   *)
(* HTTP request is a process; its calls to MySQL and etcd are its steps,   *)
(* and the steps of different requests interleave.                         *)
(*                                                                         *)
(* MySQL and etcd are external.  A call to MySQL succeeds or fails; a call *)
(* to etcd may also fail after it took effect.  The worker appears only by *)
(* what it does at the end of a once job: it deletes the key and marks the *)
(* row (Scheduler.tla).                                                    *)
(***************************************************************************)
EXTENDS Integers, Sequences, FiniteSets

CONSTANTS
    Request,        \* the requests that may be served at the same time
    Name,           \* the names of jobs
    MayFail,        \* the calls to MySQL and etcd that may fail
    MaxRequests     \* bound: requests in a behaviour

\* The next call of a request: "check", "create", "put": JobAdd; "delete",
\* "mark": JobDelete; "grant", "kill": JobKill.
PC == {"idle", "check", "create", "put", "delete", "mark", "grant", "kill"}

ASSUME MasterAssumption == MaxRequests \in Nat

VARIABLES
    pc,         \* the next call of each request
    name,       \* the job a request is about
    serial,     \* the number of the request, also the lease of a kill
    rows,       \* the statuses of the rows of each name
    jobKey,     \* the names with a key under /cron/jobs
    killKey,    \* the lease of each name's key under /cron/killer, or NoLease
    alive,      \* the live leases
    served      \* requests started so far

vars == <<pc, name, serial, rows, jobKey, killKey, alive, served>>

NoLease == 0

\* common.StatusTyp
Waiting == 0
Done == 4
Deleted == 5

TypeOK ==
    /\ pc \in [Request -> PC]
    /\ name \in [Request -> Name]
    /\ serial \in [Request -> 0..served]
    /\ rows \in [Name -> Seq({Waiting, Done, Deleted})]
    /\ jobKey \subseteq Name
    /\ killKey \in [Name -> {NoLease} \cup alive]
    /\ alive \subseteq 1..served
    /\ served \in 0..MaxRequests

Init ==
    /\ pc = [r \in Request |-> "idle"]
    /\ name \in [Request -> Name]
    /\ serial = [r \in Request |-> 0]
    /\ rows = [n \in Name |-> << >>]
    /\ jobKey = {}
    /\ killKey = [n \in Name |-> NoLease]
    /\ alive = {}
    /\ served = 0

Goto(r, p) == pc' = [pc EXCEPT ![r] = p]

\* A request arrives at its handler.
Arrive(r) ==
    /\ pc[r] = "idle"
    /\ served < MaxRequests
    /\ served' = served + 1
    /\ serial' = [serial EXCEPT ![r] = served']
    /\ \E n \in Name : name' = [name EXCEPT ![r] = n]
    /\ \E p \in {"check", "delete", "grant"} : Goto(r, p)
    /\ UNCHANGED <<rows, jobKey, killKey, alive>>

\* UPDATE jobs SET status WHERE name = n
Marked(n, st) == [rows EXCEPT ![n] = [i \in DOMAIN @ |-> st]]

-----------------------------------------------------------------------------
(* JobAdd *)

\* Mutant: the row is created without the check.
Exists_Never(n) == FALSE

\* First(&job).RowsAffected # 0; a failed query finds nothing either.
Exists(n) == rows[n] # << >>

Check(r) ==
    /\ pc[r] = "check"
    /\ \/ Exists(name[r]) /\ Goto(r, "idle")
       \/ (~Exists(name[r]) \/ "check" \in MayFail) /\ Goto(r, "create")
    /\ UNCHANGED <<name, serial, rows, jobKey, killKey, alive, served>>

\* Mutant: the error of Create is not looked at.
CreateRow_ErrorIgnored(r) ==
    /\ pc[r] = "create"
    /\ Goto(r, "put")
    /\ \/ rows' = [rows EXCEPT ![name[r]] = Append(@, Waiting)]
       \/ "create" \in MayFail /\ UNCHANGED rows
    /\ UNCHANGED <<name, serial, jobKey, killKey, alive, served>>

\* Create(&model.Job{...}); the name is not unique in the table.
CreateRow(r) ==
    /\ pc[r] = "create"
    /\ \/ /\ rows' = [rows EXCEPT ![name[r]] = Append(@, Waiting)]
          /\ Goto(r, "put")
       \/ /\ "create" \in MayFail
          /\ Goto(r, "idle")
          /\ UNCHANGED rows
    /\ UNCHANGED <<name, serial, jobKey, killKey, alive, served>>

\* AddJob.  If it fails the row stays: "TODO mark it as deleted".
PutKey(r) ==
    /\ pc[r] = "put"
    /\ Goto(r, "idle")
    /\ \/ jobKey' = jobKey \cup {name[r]}
       \/ "put" \in MayFail /\ UNCHANGED jobKey
    /\ UNCHANGED <<name, serial, rows, killKey, alive, served>>

-----------------------------------------------------------------------------
(* JobDelete *)

\* Mutant: an error is taken for a missing key.
DeleteKey_ErrorIgnored(r) ==
    /\ pc[r] = "delete"
    /\ \/ /\ jobKey' = jobKey \ {name[r]}
          /\ Goto(r, IF name[r] \in jobKey THEN "idle" ELSE "mark")
       \/ "delete" \in MayFail /\ Goto(r, "mark") /\ UNCHANGED jobKey
    /\ UNCHANGED <<name, serial, rows, killKey, alive, served>>

\* DeleteJob; oldJob = nil when there was no key.
DeleteKey(r) ==
    /\ pc[r] = "delete"
    /\ \/ /\ jobKey' = jobKey \ {name[r]}
          /\ Goto(r, IF name[r] \in jobKey THEN "idle" ELSE "mark")
       \/ /\ "delete" \in MayFail
          /\ Goto(r, "idle")
          /\ jobKey' \in {jobKey, jobKey \ {name[r]}}
    /\ UNCHANGED <<name, serial, rows, killKey, alive, served>>

\* Without a key only MySQL is updated.
MarkDeleted(r) ==
    /\ pc[r] = "mark"
    /\ Goto(r, "idle")
    /\ \/ rows' = Marked(name[r], Deleted)
       \/ "mark" \in MayFail /\ UNCHANGED rows
    /\ UNCHANGED <<name, serial, jobKey, killKey, alive, served>>

-----------------------------------------------------------------------------
(* JobKill *)

\* KillJob grants a lease of 1 second, never renewed ...
GrantKill(r) ==
    /\ pc[r] = "grant"
    /\ \/ alive' = alive \cup {serial[r]} /\ Goto(r, "kill")
       \/ "grant" \in MayFail /\ Goto(r, "idle") /\ UNCHANGED alive
    /\ UNCHANGED <<name, serial, rows, jobKey, killKey, served>>

\* Mutant: the mark is put without a lease.
PutKillKey_NoLease(r) ==
    /\ pc[r] = "kill"
    /\ Goto(r, "idle")
    /\ killKey' = [killKey EXCEPT ![name[r]] = serial[r]]
    /\ alive' = alive \ {serial[r]}
    /\ UNCHANGED <<name, serial, rows, jobKey, served>>

\* ... and puts the mark under it: the worker sees the Put, the mark expires.
PutKillKey(r) ==
    /\ pc[r] = "kill"
    /\ Goto(r, "idle")
    /\ \/ /\ serial[r] \in alive
          /\ killKey' = [killKey EXCEPT ![name[r]] = serial[r]]
       \/ (serial[r] \notin alive \/ "kill" \in MayFail) /\ UNCHANGED killKey
    /\ UNCHANGED <<name, serial, rows, jobKey, alive, served>>

-----------------------------------------------------------------------------
(* etcd and the worker *)

\* A lease of KillJob runs out, and its key goes.
Expire(l) ==
    /\ alive' = alive \ {l}
    /\ killKey' = [n \in Name |-> IF killKey[n] = l THEN NoLease ELSE killKey[n]]
    /\ UNCHANGED <<pc, name, serial, rows, jobKey, served>>

\* The worker deletes the key of a finished once job and marks its row.
WorkerFinishes(n) ==
    /\ n \in jobKey
    /\ jobKey' = jobKey \ {n}
    /\ rows' = Marked(n, Done)
    /\ UNCHANGED <<pc, name, serial, killKey, alive, served>>

Next ==
    \/ \E r \in Request :
          \/ Arrive(r)
          \/ Check(r)
          \/ CreateRow(r)
          \/ PutKey(r)
          \/ DeleteKey(r)
          \/ MarkDeleted(r)
          \/ GrantKill(r)
          \/ PutKillKey(r)
    \/ \E l \in alive : Expire(l)
    \/ \E n \in Name : WorkerFinishes(n)

Spec == Init /\ [][Next]_vars

\* etcd expires leases.
FairSpec == Spec /\ \A l \in 1..MaxRequests : WF_vars(l \in alive /\ Expire(l))

-----------------------------------------------------------------------------
(* Properties *)

\* A worker never runs a job that MySQL does not know: there is a row before
\* there is a key, whatever calls fail (JobAdd).
KeyHasRow == \A n \in Name : n \in jobKey => rows[n] # << >>

\* JobAdd checks and creates in two calls, so that concurrent requests may
\* create several rows of one name; but never more than can be served at the
\* same time: a request that comes later finds a row, even after the job was
\* deleted.  One request at a time, one row.  (While the query succeeds.)
RowsPerName == \A n \in Name : Len(rows[n]) <= Cardinality(Request)

\* The mark of a kill does not stay: it is gone, or renewed by another kill.
KillMarkGoes == \A n \in Name : \A l \in 1..MaxRequests : killKey[n] = l ~> killKey[n] # l

=============================================================================
