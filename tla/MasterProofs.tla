---------------------------- MODULE MasterProofs ----------------------------
(***************************************************************************)
(* The master with its sessions, for any requests, users and job names.    *)
(* Behind the middleware the job requests are those of MasterJob, so that  *)
(* its theorems hold here; and a key never stands beside a row that says   *)
(* the job was deleted, unless an addition and a deletion overlapped.      *)
(*                                                                         *)
(* DeletedHasNoKey is not inductive: a deletion that found no key marks    *)
(* the row later (MarkMeansNoKey), an addition that found no row puts the  *)
(* key later (AdditionNotDeleted).                                         *)
(*                                                                         *)
(* The types need that ids have a place in Redis: the rows and the         *)
(* registrations that will create one are no more than the visits          *)
(* (IdsSuffice).  Of the sessions, a token is in one place only unless it  *)
(* was issued twice (TokensOnce), and a username has no more rows and      *)
(* registrations behind the query than requests (RegistrationsCount).      *)
(***************************************************************************)
EXTENDS Master, MasterJobProofs

-----------------------------------------------------------------------------
(* The job requests are those of MasterJob *)

\* Whoever enters a handler is one request of MasterJob.
LEMMA HandlerIsJobStep == ASSUME NEW r \in Request, Handler(r) PROVE Next
BY DEF Handler, Next

LEMMA MasterStepIsJobStep == [MasterNext]_masterVars => [Next]_vars
<1> SUFFICES ASSUME [MasterNext]_masterVars PROVE [Next]_vars
  OBVIOUS
<1>1. CASE UNCHANGED masterVars
  BY <1>1 DEF masterVars
<1>2. ASSUME NEW r \in Request, Handler(r) PROVE [Next]_vars
  BY <1>2, HandlerIsJobStep
<1>3. ASSUME NEW l \in alive, Expire(l) PROVE [Next]_vars
  BY <1>3 DEF Next
<1>4. ASSUME NEW n \in Name, WorkerFinishes(n) PROVE [Next]_vars
  BY <1>4 DEF Next
<1> QED BY <1>1, <1>2, <1>3, <1>4 DEF MasterNext

\* Behind AuthMiddleware the job requests behave as in MasterJob.
THEOREM MasterServesJobs == MasterSpec => Spec
<1>1. MasterInit => Init
  BY DEF MasterInit
<1> QED BY <1>1, MasterStepIsJobStep, PTL DEF MasterSpec, Spec

\* A job with a key has a row, whoever logs in and out meanwhile and whatever
\* calls fail.
THEOREM MasterKeyHasRow == MasterSpec => []KeyHasRow
BY MasterServesJobs, KeyHasRowHolds, PTL

-----------------------------------------------------------------------------
(* A deleted job has no key *)

HasDeletedRow(n) == \E i \in DOMAIN rows[n] : rows[n][i] = Deleted

\* Without an overlap, a key or an addition behind its check stands beside
\* rows that are not deleted, ...
AdditionNotDeleted ==
    \A n \in Name \ overlapped :
        n \in jobKey \/ (\E r \in Request : pc[r] \in {"create", "put"} /\ name[r] = n)
            => ~HasDeletedRow(n)

\* ... and a deletion that goes on to mark the row has found no key.
MarkMeansNoKey ==
    \A r \in Request : pc[r] = "mark" /\ name[r] \notin overlapped => name[r] \notin jobKey

\* A name that was ever added and deleted at once is remembered.
OverlapsNoticed == Adding \cap Deleting \subseteq overlapped

DeletionInv ==
    /\ overlapped \subseteq Name
    /\ AdditionNotDeleted
    /\ MarkMeansNoKey
    /\ OverlapsNoticed

LEMMA InitDeletionInv == MasterInit => DeletionInv
BY DEF MasterInit, Init, DeletionInv, AdditionNotDeleted, MarkMeansNoKey, OverlapsNoticed,
       HasDeletedRow, Adding

\* While nothing is marked, and keys and additions only go, it is kept.
LEMMA NothingNewIsKept ==
    ASSUME TypeOK, TypeOK', DeletionInv, overlapped' = overlapped \cup (Adding' \cap Deleting'),
           \A n \in Name : HasDeletedRow(n)' => HasDeletedRow(n),
           jobKey' \subseteq jobKey,
           \A r \in Request : pc'[r] \in {"create", "put"} =>
               pc[r] \in {"create", "put"} /\ name'[r] = name[r],
           \A r \in Request : pc'[r] = "mark" =>
               (pc[r] = "mark" \/ name[r] \notin jobKey') /\ name'[r] = name[r]
    PROVE  DeletionInv'
<1>1. overlapped' \subseteq Name
  BY DEF DeletionInv, Adding, Deleting, TypeOK
<1>2. AdditionNotDeleted'
  <2> SUFFICES ASSUME NEW n \in Name \ overlapped',
                      n \in jobKey' \/ \E r \in Request : pc'[r] \in {"create", "put"} /\ name'[r] = n
               PROVE  ~HasDeletedRow(n)'
    BY DEF AdditionNotDeleted
  <2>1. n \in jobKey \/ \E r \in Request : pc[r] \in {"create", "put"} /\ name[r] = n
    OBVIOUS
  <2> QED BY <2>1 DEF DeletionInv, AdditionNotDeleted
<1>3. MarkMeansNoKey'
  BY DEF DeletionInv, MarkMeansNoKey
<1>4. OverlapsNoticed'
  BY DEF OverlapsNoticed
<1> QED BY <1>1, <1>2, <1>3, <1>4 DEF DeletionInv

\* The check lets an addition pass only while there is no row.
LEMMA CheckKeepsDeletionInv ==
    ASSUME "check" \notin MayFail, TypeOK, TypeOK', DeletionInv, NEW r \in Request, Check(r),
           overlapped' = overlapped \cup (Adding' \cap Deleting')
    PROVE  DeletionInv'
<1>1. UNCHANGED <<name, rows, jobKey>>
  BY DEF Check
<1>2. \A n \in Name : HasDeletedRow(n)' <=> HasDeletedRow(n)
  BY <1>1 DEF HasDeletedRow
<1>3. CASE pc' = [pc EXCEPT ![r] = "idle"]
  BY <1>1, <1>2, <1>3, NothingNewIsKept DEF TypeOK
<1>4. CASE pc' = [pc EXCEPT ![r] = "create"] /\ rows[name[r]] = << >>
  <2>1. ~HasDeletedRow(name[r])
    BY <1>4, EmptySeq DEF HasDeletedRow
  <2>2. AdditionNotDeleted'
    BY <1>1, <1>2, <1>4, <2>1 DEF DeletionInv, AdditionNotDeleted, TypeOK
  <2>3. MarkMeansNoKey'
    BY <1>1, <1>4 DEF DeletionInv, MarkMeansNoKey, TypeOK
  <2> QED BY <2>2, <2>3 DEF DeletionInv, OverlapsNoticed, Adding, Deleting, TypeOK
<1> QED BY <1>3, <1>4 DEF Check, Exists, Goto

\* A new row is not deleted.
LEMMA CreateRowKeepsDeletionInv ==
    ASSUME TypeOK, TypeOK', DeletionInv, NEW r \in Request, CreateRow(r),
           overlapped' = overlapped \cup (Adding' \cap Deleting')
    PROVE  DeletionInv'
<1>1. UNCHANGED <<name, jobKey>> /\ pc[r] = "create"
  BY DEF CreateRow
<1>2. \A n \in Name : HasDeletedRow(n)' => HasDeletedRow(n)
  <2>1. rows' = rows \/ rows' = [rows EXCEPT ![name[r]] = Append(@, Waiting)]
    BY DEF CreateRow
  <2>2. ASSUME NEW n \in Name, NEW i \in DOMAIN Append(rows[n], Waiting),
               Append(rows[n], Waiting)[i] = Deleted
        PROVE  i \in DOMAIN rows[n] /\ rows[n][i] = Deleted
    <3>1. rows[n] \in Seq({Waiting, Done, Deleted}) /\ Waiting \in {Waiting, Done, Deleted}
      BY DEF TypeOK
    <3> QED BY <2>2, <3>1, AppendProperties, LenProperties DEF Waiting, Deleted
  <2> QED BY <2>1, <2>2 DEF HasDeletedRow, TypeOK
<1>3. PICK p \in {"put", "idle"} : pc' = [pc EXCEPT ![r] = p]
  BY DEF CreateRow, Goto
<1> QED BY <1>1, <1>2, <1>3, NothingNewIsKept DEF TypeOK

\* The key is put for an addition behind its check; no deletion is about to
\* mark the row, or both are remembered as overlapping.
LEMMA PutKeyKeepsDeletionInv ==
    ASSUME TypeOK, TypeOK', DeletionInv, NEW r \in Request, PutKey(r),
           overlapped' = overlapped \cup (Adding' \cap Deleting')
    PROVE  DeletionInv'
<1>1. /\ UNCHANGED <<name, rows>> /\ pc[r] = "put" /\ pc' = [pc EXCEPT ![r] = "idle"]
      /\ jobKey' \subseteq jobKey \cup {name[r]}
  BY DEF PutKey, Goto
<1>2. \A n \in Name : HasDeletedRow(n)' <=> HasDeletedRow(n)
  BY <1>1 DEF HasDeletedRow
<1>3. AdditionNotDeleted'
  BY <1>1, <1>2 DEF DeletionInv, AdditionNotDeleted, TypeOK
<1>4. MarkMeansNoKey'
  <2> SUFFICES ASSUME NEW q \in Request, pc'[q] = "mark", name[q] \notin overlapped'
               PROVE  name[q] \notin jobKey'
    BY <1>1 DEF MarkMeansNoKey
  <2>1. pc[q] = "mark" /\ name[q] \notin overlapped
    BY <1>1 DEF TypeOK
  <2>2. name[q] # name[r]
    BY <1>1, <2>1 DEF DeletionInv, OverlapsNoticed, Adding, Deleting
  <2> QED BY <1>1, <2>1, <2>2 DEF DeletionInv, MarkMeansNoKey
<1> QED BY <1>3, <1>4 DEF DeletionInv, OverlapsNoticed, Adding, Deleting, TypeOK

\* Rows are marked as deleted for a deletion that found no key, while no
\* addition is under way, or both are remembered.
LEMMA MarkKeepsDeletionInv ==
    ASSUME TypeOK, TypeOK', DeletionInv, NEW r \in Request, MarkDeleted(r),
           overlapped' = overlapped \cup (Adding' \cap Deleting')
    PROVE  DeletionInv'
<1>1. /\ UNCHANGED <<name, jobKey>> /\ pc[r] = "mark" /\ pc' = [pc EXCEPT ![r] = "idle"]
      /\ \A n \in Name \ {name[r]} : rows'[n] = rows[n]
  BY DEF MarkDeleted, Goto, Marked, TypeOK
<1>2. AdditionNotDeleted'
  <2> SUFFICES ASSUME NEW n \in Name \ overlapped',
                      n \in jobKey \/ \E q \in Request : pc'[q] \in {"create", "put"} /\ name[q] = n
               PROVE  ~HasDeletedRow(n)'
    BY <1>1 DEF AdditionNotDeleted
  <2>1. n \notin overlapped
    OBVIOUS
  <2>2. n \in jobKey \/ \E q \in Request : pc[q] \in {"create", "put"} /\ name[q] = n
    BY <1>1 DEF TypeOK
  <2>3. n # name[r]
    BY <1>1, <2>1, <2>2 DEF DeletionInv, MarkMeansNoKey, OverlapsNoticed, Adding, Deleting
  <2> QED BY <1>1, <2>1, <2>2, <2>3 DEF DeletionInv, AdditionNotDeleted, HasDeletedRow
<1>3. MarkMeansNoKey'
  BY <1>1 DEF DeletionInv, MarkMeansNoKey, TypeOK
<1> QED BY <1>2, <1>3 DEF DeletionInv, OverlapsNoticed, Adding, Deleting, TypeOK

\* The other steps of requests, and the worker at the end of a job.
LEMMA OthersKeepDeletionInv ==
    ASSUME TypeOK, TypeOK', DeletionInv, overlapped' = overlapped \cup (Adding' \cap Deleting'),
           \/ \E r \in Request : Arrive(r) \/ DeleteKey(r) \/ GrantKill(r) \/ PutKillKey(r)
           \/ \E n \in Name : WorkerFinishes(n)
           \/ \E l \in alive : Expire(l)
           \/ UNCHANGED vars
    PROVE  DeletionInv'
<1>1. \A n \in Name : HasDeletedRow(n)' => HasDeletedRow(n)
  <2>1. CASE rows' = rows
    BY <2>1 DEF HasDeletedRow
  <2>2. ASSUME NEW n \in Name, WorkerFinishes(n)
        PROVE  \A k \in Name : HasDeletedRow(k)' => HasDeletedRow(k)
    <3>1. rows' = [rows EXCEPT ![n] = [i \in DOMAIN @ |-> Done]]
      BY <2>2 DEF WorkerFinishes, Marked
    <3> QED BY <3>1 DEF HasDeletedRow, TypeOK, Done, Deleted
  <2> QED BY <2>1, <2>2 DEF Arrive, DeleteKey, GrantKill, PutKillKey, Expire, vars
<1>2. jobKey' \subseteq jobKey
  BY DEF Arrive, DeleteKey, GrantKill, PutKillKey, WorkerFinishes, Expire, vars
<1>3. \A r \in Request : pc'[r] \in {"create", "put"} =>
          pc[r] \in {"create", "put"} /\ name'[r] = name[r]
  BY DEF Arrive, DeleteKey, GrantKill, PutKillKey, WorkerFinishes, Expire, vars, Goto, TypeOK
<1>4. \A r \in Request : pc'[r] = "mark" =>
          (pc[r] = "mark" \/ name[r] \notin jobKey') /\ name'[r] = name[r]
  BY DEF Arrive, DeleteKey, GrantKill, PutKillKey, WorkerFinishes, Expire, vars, Goto, TypeOK
<1> QED BY <1>1, <1>2, <1>3, <1>4, NothingNewIsKept

LEMMA NextDeletionInv ==
    ASSUME "check" \notin MayFail
    PROVE  TypeOK /\ TypeOK' /\ DeletionInv /\ [MasterNext]_masterVars => DeletionInv'
<1> SUFFICES ASSUME TypeOK, TypeOK', DeletionInv, [MasterNext]_masterVars PROVE DeletionInv'
  OBVIOUS
<1>1. CASE UNCHANGED masterVars
  BY <1>1 DEF masterVars, vars, DeletionInv, AdditionNotDeleted, MarkMeansNoKey,
              OverlapsNoticed, HasDeletedRow, Adding, Deleting
<1>2. CASE MasterNext
  <2>1. overlapped' = overlapped \cup (Adding' \cap Deleting')
    BY <1>2 DEF MasterNext
  <2>2. ASSUME NEW r \in Request, Handler(r) PROVE DeletionInv'
    BY <2>1, <2>2, CheckKeepsDeletionInv, CreateRowKeepsDeletionInv, PutKeyKeepsDeletionInv,
       MarkKeepsDeletionInv, OthersKeepDeletionInv DEF Handler
  <2>3. CASE UNCHANGED vars
    BY <2>1, <2>3, OthersKeepDeletionInv
  <2>4. CASE (\E l \in alive : Expire(l)) \/ (\E n \in Name : WorkerFinishes(n))
    BY <2>1, <2>4, OthersKeepDeletionInv
  <2> QED BY <1>2, <2>2, <2>3, <2>4 DEF MasterNext
<1> QED BY <1>1, <1>2

\* A job whose row says it was deleted from etcd has no key there, whatever
\* calls fail after the check and however many requests are served, unless an
\* addition and a deletion of the name overlapped (JobAdd, JobDelete).
THEOREM DeletedHasNoKeyHolds ==
    ASSUME "check" \notin MayFail PROVE MasterSpec => []DeletedHasNoKey
<1>1. MasterSpec => []TypeOK
  BY MasterServesJobs, TypeCorrect, PTL
<1>2. TypeOK /\ TypeOK' /\ DeletionInv /\ [MasterNext]_masterVars => DeletionInv'
  BY NextDeletionInv
<1>3. DeletionInv => DeletedHasNoKey
  BY DEF DeletionInv, AdditionNotDeleted, HasDeletedRow, DeletedHasNoKey
<1> QED BY <1>1, <1>2, <1>3, InitDeletionInv, PTL DEF MasterSpec

-----------------------------------------------------------------------------
(* The types of users and sessions *)

\* The registrations that have found their name free.
Inserting == {r \in Request : step[r] = "insert"}

\* Rows of users, and registrations that will create one, are no more than
\* the users at the start and the requests since.
IdsSuffice ==
    /\ IsFiniteSet(Inserting)
    /\ Len(users) + Cardinality(Inserting) <= Len(Existing) + visits

\* The token of a request that is about to store it is a user's, or has id 0.
IssuedToUsers ==
    \A r \in Request : step[r] \in {"keep", "set"} => token[r].id \in {0} \cup DOMAIN users

\* What the types say without the job requests.
SessionTypes ==
    /\ step \in [Request -> Step]
    /\ form \in [Request -> {""} \cup Username]
    /\ token \in [Request -> Token]
    /\ users \in Seq(Username)
    /\ redis \in [{RedisKey(id) : id \in Id} -> Token]
    /\ cookies \cup revoked \subseteq Token
    /\ \A t \in cookies : t.id \in {0} \cup DOMAIN users
    /\ second \in 1..MaxSecond
    /\ visits \in 0..MaxVisits
    /\ logins \subseteq Id \X (1..MaxSecond)
    /\ twice \subseteq logins

\* A registration that found its name free has one.
FormsFilled == \A r \in Request : step[r] = "insert" => form[r] \in Username

SessionInv == SessionTypes /\ IdsSuffice /\ IssuedToUsers /\ FormsFilled

LEMMA Counters ==
    ASSUME SessionInv
    PROVE  /\ visits \in Nat /\ visits <= MaxVisits /\ MaxVisits \in Nat
           /\ second \in 1..MaxSecond /\ second \in 0..MaxSecond /\ 0 \in 0..MaxSecond
<1>1. visits \in 0..MaxVisits /\ second \in 1..MaxSecond
  BY DEF SessionInv, SessionTypes
<1>2. MaxVisits \in Nat /\ MaxSecond \in Nat \ {0}
  BY UsersAssumption
<1> QED BY <1>1, <1>2

\* The ids of rows are ids, and there is room for one more while a
\* registration is under way.
LEMMA IdsOfRows ==
    ASSUME SessionInv
    PROVE  /\ Len(users) \in Nat /\ DOMAIN users = 1..Len(users)
           /\ {0} \cup DOMAIN users \subseteq Id
           /\ \A r \in Inserting : Len(users) + 1 \in Id
           /\ Len(Existing) \in Nat /\ DOMAIN Existing = 1..Len(Existing)
<1>1. /\ Len(users) \in Nat /\ DOMAIN users = 1..Len(users)
      /\ Len(Existing) \in Nat /\ DOMAIN Existing = 1..Len(Existing)
  BY LenProperties, UsersAssumption DEF SessionInv, SessionTypes
<1>2. Cardinality(Inserting) \in Nat /\ (Inserting # {} => Cardinality(Inserting) # 0)
  BY FS_CardinalityType, FS_EmptySet DEF SessionInv, IdsSuffice
<1>3. visits \in Nat /\ visits <= MaxVisits /\ MaxVisits \in Nat
  <2>1. visits \in 0..MaxVisits
    BY DEF SessionInv, SessionTypes
  <2>2. MaxVisits \in Nat
    BY UsersAssumption
  <2> QED BY <2>1, <2>2
<1>4. Len(users) + Cardinality(Inserting) <= Len(Existing) + visits
  BY DEF SessionInv, IdsSuffice
<1> QED BY <1>1, <1>2, <1>3, <1>4 DEF Id

\* One element more, one element less.
LEMMA AddOne ==
    ASSUME NEW S, IsFiniteSet(S), NEW x
    PROVE  /\ IsFiniteSet(S \cup {x}) /\ Cardinality(S) \in Nat
           /\ Cardinality(S \cup {x}) \in Nat
           /\ Cardinality(S \cup {x}) <= Cardinality(S) + 1
<1>1. Cardinality(S) \in Nat
  BY FS_CardinalityType
<1>2. IsFiniteSet(S \cup {x})
  BY FS_AddElement
<1>3. Cardinality(S \cup {x}) \in {Cardinality(S), Cardinality(S) + 1}
  BY FS_AddElement, Zenon
<1> QED BY <1>1, <1>2, <1>3

LEMMA RemoveOne ==
    ASSUME NEW S, IsFiniteSet(S), NEW x
    PROVE  /\ IsFiniteSet(S \ {x}) /\ Cardinality(S) \in Nat
           /\ Cardinality(S \ {x}) \in Nat
           /\ Cardinality(S \ {x}) <= Cardinality(S)
           /\ x \in S => Cardinality(S \ {x}) = Cardinality(S) - 1
<1>1. Cardinality(S) \in Nat
  BY FS_CardinalityType
<1>2. IsFiniteSet(S \ {x})
  BY FS_RemoveElement
<1>3. /\ x \in S => Cardinality(S \ {x}) = Cardinality(S) - 1
      /\ x \notin S => Cardinality(S \ {x}) = Cardinality(S)
  BY FS_RemoveElement, Zenon
<1>4. Cardinality(S \ {x}) \in Nat
  BY <1>2, FS_CardinalityType
<1> QED BY <1>1, <1>2, <1>3, <1>4

\* A request that comes to "insert" or leaves it changes their number by one.
LEMMA InsertingChanges ==
    ASSUME SessionInv, NEW r \in Request, NEW s \in Step, step' = [step EXCEPT ![r] = s]
    PROVE  /\ IsFiniteSet(Inserting') /\ Cardinality(Inserting) \in Nat
           /\ Cardinality(Inserting') <= Cardinality(Inserting) + 1
           /\ s # "insert" => Cardinality(Inserting') <= Cardinality(Inserting)
           /\ s # "insert" /\ step[r] = "insert"
                 => Cardinality(Inserting') = Cardinality(Inserting) - 1
<1>1. IsFiniteSet(Inserting) /\ Cardinality(Inserting) \in Nat
  BY FS_CardinalityType DEF SessionInv, IdsSuffice
<1>2. step \in [Request -> Step]
  BY DEF SessionInv, SessionTypes
<1>3. CASE s = "insert"
  <2>1. Inserting' = Inserting \cup {r}
    BY <1>2, <1>3 DEF Inserting
  <2>2. /\ IsFiniteSet(Inserting \cup {r})
        /\ Cardinality(Inserting \cup {r}) <= Cardinality(Inserting) + 1
    BY <1>1, AddOne
  <2> QED BY <1>1, <1>3, <2>1, <2>2
<1>4. CASE s # "insert"
  <2>1. Inserting' = Inserting \ {r} /\ (r \in Inserting <=> step[r] = "insert")
    BY <1>2, <1>4 DEF Inserting
  <2>2. /\ IsFiniteSet(Inserting \ {r})
        /\ Cardinality(Inserting \ {r}) \in Nat
        /\ Cardinality(Inserting \ {r}) <= Cardinality(Inserting)
        /\ r \in Inserting => Cardinality(Inserting \ {r}) = Cardinality(Inserting) - 1
    BY <1>1, RemoveOne
  <2> QED BY <1>1, <2>1, <2>2
<1> QED BY <1>3, <1>4

\* Room for one more id remains room, and is made by one more visit.
LEMMA RoomStays ==
    ASSUME NEW rws \in Nat, NEW ins \in Nat, NEW ins2 \in Nat, NEW start \in Nat,
           NEW vis \in Nat, rws + ins <= start + vis
    PROVE  /\ ins2 <= ins => rws + ins2 <= start + vis
           /\ ins2 <= ins + 1 => rws + ins2 <= start + (vis + 1)
OBVIOUS

LEMMA CountsUp ==
    ASSUME NEW v \in Nat, NEW m \in Nat, v < m PROVE v + 1 \in 0..m
OBVIOUS

LEMMA ClockGoesOn ==
    ASSUME NEW m \in Nat, NEW v \in 1..m, v < m PROVE v + 1 \in 1..m
OBVIOUS

\* The arrival of a request keeps the types and makes room for one more id.
LEMMA VisitKeeps ==
    ASSUME SessionInv, NEW r \in Request, NEW s \in {"insert", "set", "auth"},
           NEW u \in {""} \cup Username, NEW t \in Token, Visit(r, s, u, t),
           s = "set" => t.id \in {0} \cup DOMAIN users, s = "insert" => u \in Username,
           UNCHANGED <<store, second, revoked>>,
           logins' \subseteq Id \X (1..MaxSecond), twice' \subseteq logins'
    PROVE  SessionInv'
<1>1. s \in Step
  BY DEF Step
<1>2. /\ UNCHANGED <<users, redis, cookies, second, revoked>>
      /\ step' = [step EXCEPT ![r] = s] /\ token' = [token EXCEPT ![r] = t]
      /\ form' = [form EXCEPT ![r] = u] /\ visits' = visits + 1 /\ visits < MaxVisits
  BY DEF Visit, store
<1>3. visits' \in 0..MaxVisits /\ visits \in Nat
  <2>1. visits \in Nat /\ MaxVisits \in Nat
    BY Counters
  <2>2. visits + 1 \in 0..MaxVisits
    BY <1>2, <2>1, CountsUp
  <2> QED BY <1>2, <2>1, <2>2
<1>4. SessionTypes'
  BY <1>1, <1>2, <1>3 DEF SessionInv, SessionTypes
<1>5. IdsSuffice'
  <2>1. /\ IsFiniteSet(Inserting') /\ Cardinality(Inserting) \in Nat
        /\ Cardinality(Inserting') <= Cardinality(Inserting) + 1
    BY <1>1, <1>2, InsertingChanges
  <2>2. Cardinality(Inserting') \in Nat
    BY <2>1, FS_CardinalityType
  <2>3. Len(users) + Cardinality(Inserting) <= Len(Existing) + visits
    BY DEF SessionInv, IdsSuffice
  <2>4. users' = users /\ visits' = visits + 1
    BY <1>2
  <2>5. Len(users) \in Nat /\ Len(Existing) \in Nat
    BY IdsOfRows
  <2>6. Len(users) + Cardinality(Inserting') <= Len(Existing) + (visits + 1)
    BY <1>3, <2>1, <2>2, <2>3, <2>5, RoomStays
  <2> QED BY <2>1, <2>4, <2>6 DEF IdsSuffice
<1>6. IssuedToUsers'
  BY <1>2 DEF SessionInv, SessionTypes, IssuedToUsers
<1>7. FormsFilled'
  BY <1>2 DEF SessionInv, SessionTypes, FormsFilled
<1> QED BY <1>4, <1>5, <1>6, <1>7 DEF SessionInv

\* The end of a request, or its way into a handler, keeps the types.
LEMMA MoveKeeps ==
    ASSUME SessionInv, NEW r \in Request, NEW s \in Step \ {"insert", "keep", "set"},
           step' = [step EXCEPT ![r] = s],
           form' \in {form, [form EXCEPT ![r] = ""]},
           token' \in {token, [token EXCEPT ![r] = NoToken]},
           UNCHANGED <<users, second, logins, twice>>,
           visits' \in {visits, visits + 1}, visits' \in 0..MaxVisits,
           redis' \in [{RedisKey(id) : id \in Id} -> Token],
           cookies' \cup revoked' \subseteq Token,
           \A t \in cookies' : t.id \in {0} \cup DOMAIN users
    PROVE  SessionInv'
<1>1. NoToken \in Token
  <2>1. 0 \in Id /\ 0 \in 0..MaxSecond
    BY IdsOfRows, Counters
  <2> QED BY <2>1 DEF NoToken, Token
<1>2. SessionTypes'
  BY <1>1 DEF SessionInv, SessionTypes
<1>3. IdsSuffice'
  <2>1. /\ IsFiniteSet(Inserting') /\ Cardinality(Inserting) \in Nat
        /\ Cardinality(Inserting') <= Cardinality(Inserting)
    BY InsertingChanges
  <2>2. Cardinality(Inserting') \in Nat
    BY <2>1, FS_CardinalityType
  <2>3. Len(users) + Cardinality(Inserting) <= Len(Existing) + visits
    BY DEF SessionInv, IdsSuffice
  <2>4. Len(users) \in Nat /\ Len(Existing) \in Nat
    BY IdsOfRows
  <2>5. \A v \in {visits, visits + 1} :
            Len(users) + Cardinality(Inserting') <= Len(Existing) + v
    <3>1. visits \in Nat
      BY Counters
    <3>2. Cardinality(Inserting') <= Cardinality(Inserting) + 1
      BY InsertingChanges
    <3>3. /\ Len(users) + Cardinality(Inserting') <= Len(Existing) + visits
          /\ Len(users) + Cardinality(Inserting') <= Len(Existing) + (visits + 1)
      BY <2>1, <2>2, <2>3, <2>4, <3>1, <3>2, RoomStays
    <3> QED BY <3>3
  <2> QED BY <2>1, <2>5 DEF IdsSuffice
<1>4. IssuedToUsers'
  BY DEF SessionInv, SessionTypes, IssuedToUsers
<1>5. FormsFilled'
  BY DEF SessionInv, SessionTypes, FormsFilled
<1> QED BY <1>2, <1>3, <1>4, <1>5 DEF SessionInv

\* What is stored is a token, and what it replaces was one.
LEMMA StoreType ==
    ASSUME SessionInv, NEW id \in Id, NEW t \in Token, Store(RedisKey(id), t)
    PROVE  /\ redis' \in [{RedisKey(i) : i \in Id} -> Token]
           /\ revoked' \subseteq Token
BY DEF SessionInv, SessionTypes, Store

\* An answer ends a request at any step but the insert.
LEMMA AnswerMoves ==
    ASSUME NEW r, NEW s, Answer(r, s)
    PROVE  /\ step[r] = s /\ step' = [step EXCEPT ![r] = "idle"]
           /\ form' = [form EXCEPT ![r] = ""] /\ token' = [token EXCEPT ![r] = NoToken]
           /\ visits' = visits
           /\ "idle" \in Step \ {"insert", "keep", "set"}
BY DEF Answer, Step

\* A login issues a token to the user whose row it found.
LEMMA LoginKeeps == ASSUME SessionInv, NEW r \in Request, Login(r) PROVE SessionInv'
<1>1. PICK i \in DOMAIN users : Visit(r, "set", "", ReleaseToken(i)) /\ Issue(i)
  BY DEF Login
<1>2. i \in Id /\ second \in 1..MaxSecond
  BY IdsOfRows DEF SessionInv, SessionTypes
<1>3. ReleaseToken(i) \in Token /\ ReleaseToken(i).id = i
  BY <1>2 DEF ReleaseToken, Token
<1>4. <<i, second>> \in Id \X (1..MaxSecond)
  BY <1>2
<1>5. logins' \subseteq Id \X (1..MaxSecond) /\ twice' \subseteq logins'
  BY <1>1, <1>4 DEF Issue, SessionInv, SessionTypes
<1>6. UNCHANGED <<store, second, revoked>>
  BY DEF Login
<1> QED BY <1>1, <1>3, <1>5, <1>6, VisitKeeps

\* A registration adds a row or none, and its id, or 0, has a place.
LEMMA InsertIssuesId ==
    ASSUME SessionInv, NEW r \in Request, Insert(r)
    PROVE  /\ users' \in Seq(Username) /\ Len(users') \in {Len(users), Len(users) + 1}
           /\ DOMAIN users \subseteq DOMAIN users' /\ DOMAIN users' = 1..Len(users')
           /\ NewId(users') \in Id /\ NewId(users') \in {0} \cup DOMAIN users'
<1> DEFINE id == NewId(users')
<1>1. step[r] = "insert" /\ (users' = Append(users, form[r]) \/ users' = users)
  BY DEF Insert
<1>2. form[r] \in Username
  BY <1>1 DEF SessionInv, FormsFilled
<1>3. users' \in Seq(Username) /\ Len(users') \in {Len(users), Len(users) + 1}
      /\ DOMAIN users \subseteq DOMAIN users' /\ DOMAIN users' = 1..Len(users')
  <2>1. users \in Seq(Username) /\ Len(users) \in Nat /\ DOMAIN users = 1..Len(users)
    BY IdsOfRows DEF SessionInv, SessionTypes
  <2>2. /\ Append(users, form[r]) \in Seq(Username)
        /\ Len(Append(users, form[r])) = Len(users) + 1
        /\ DOMAIN Append(users, form[r]) = 1..(Len(users) + 1)
    BY <1>2, <2>1, AppendProperties, LenProperties
  <2> QED BY <1>1, <2>1, <2>2
<1>4. id \in Id /\ id \in {0} \cup DOMAIN users'
  <2>1. CASE users' = users
    BY <2>1, IdsOfRows DEF NewId
  <2>2. CASE users' = Append(users, form[r]) /\ users' # users
    <3>1. Len(users') = Len(users) + 1
      BY <1>2, <2>2, AppendProperties DEF SessionInv, SessionTypes
    <3>2. r \in Inserting
      BY <1>1 DEF Inserting
    <3>3. id = Len(users) + 1
      BY <2>2, <3>1 DEF NewId
    <3> QED BY <3>1, <3>2, <3>3, <1>3, IdsOfRows
  <2> QED BY <1>1, <2>1, <2>2
<1> QED BY <1>3, <1>4

\* A registration creates its row, or fails to, and issues a token.
LEMMA InsertKeeps == ASSUME SessionInv, NEW r \in Request, Insert(r) PROVE SessionInv'
<1> DEFINE id == NewId(users')
<1>1. /\ step[r] = "insert" /\ step' = [step EXCEPT ![r] = "keep"]
      /\ users' = Append(users, form[r]) \/ users' = users
      /\ Issue(id) /\ token' = [token EXCEPT ![r] = ReleaseToken(id)]
      /\ UNCHANGED <<form, redis, cookies, second, visits, revoked>>
  BY DEF Insert
<1>2. form[r] \in Username
  BY <1>1 DEF SessionInv, FormsFilled
<1>3. users' \in Seq(Username) /\ Len(users') \in {Len(users), Len(users) + 1}
      /\ DOMAIN users \subseteq DOMAIN users' /\ DOMAIN users' = 1..Len(users')
  BY InsertIssuesId
<1>4. id \in Id /\ id \in {0} \cup DOMAIN users'
  BY InsertIssuesId
<1> HIDE DEF id
<1>5. second \in 1..MaxSecond /\ ReleaseToken(id) \in Token /\ ReleaseToken(id).id = id
  <2>1. second \in 1..MaxSecond /\ second \in 0..MaxSecond
    BY Counters
  <2> QED BY <1>4, <2>1 DEF ReleaseToken, Token
<1>6. logins' \subseteq Id \X (1..MaxSecond) /\ twice' \subseteq logins'
  <2>1. <<id, second>> \in Id \X (1..MaxSecond)
    BY <1>4, <1>5
  <2> QED BY <1>1, <2>1 DEF Issue, SessionInv, SessionTypes
<1>7. SessionTypes'
  <2>1. step' \in [Request -> Step] /\ token' \in [Request -> Token]
    BY <1>1, <1>5 DEF SessionInv, SessionTypes, Step
  <2> QED BY <1>1, <1>3, <1>6, <2>1 DEF SessionInv, SessionTypes
<1>8. IdsSuffice'
  <2>1. /\ IsFiniteSet(Inserting') /\ Cardinality(Inserting) \in Nat
        /\ Cardinality(Inserting') = Cardinality(Inserting) - 1
    <3>1. "keep" \in Step
      BY DEF Step
    <3> QED BY <1>1, <3>1, InsertingChanges
  <2>2. Len(users) + Cardinality(Inserting) <= Len(Existing) + visits
    BY DEF SessionInv, IdsSuffice
  <2>3. Len(users) \in Nat /\ Len(Existing) \in Nat
    BY IdsOfRows
  <2>4. \A k \in {Len(users), Len(users) + 1} :
            k + (Cardinality(Inserting) - 1) <= Len(Existing) + visits
    BY <2>1, <2>2, <2>3, Counters
  <2>5. Len(users') + Cardinality(Inserting') <= Len(Existing) + visits'
    BY <1>1, <1>3, <2>1, <2>4
  <2> QED BY <2>1, <2>5 DEF IdsSuffice
<1>9. IssuedToUsers'
  BY <1>1, <1>3, <1>4, <1>5 DEF SessionInv, SessionTypes, IssuedToUsers
<1>10. FormsFilled'
  BY <1>1 DEF SessionInv, SessionTypes, FormsFilled
<1> QED BY <1>7, <1>8, <1>9, <1>10 DEF SessionInv

\* The other steps of Session: a registration and a cookie arrive, tokens are
\* stored or deleted, the middleware decides.
LEMMA OtherSessionKeeps ==
    ASSUME SessionInv, NEW r \in Request,
           \/ Register(r) \/ Keep(r) \/ SetToken(r) \/ ArriveWithCookie(r) \/ Refuse(r)
           \/ EnterLogout(r) \/ Logout(r)
    PROVE  SessionInv'
<1>0. /\ NoToken \in Token /\ 0 \in Id /\ token[r] \in Token
      /\ visits \in 0..MaxVisits
      /\ redis \in [{RedisKey(id) : id \in Id} -> Token]
      /\ cookies \cup revoked \subseteq Token
      /\ \A t \in cookies : t.id \in {0} \cup DOMAIN users
      /\ logins \subseteq Id \X (1..MaxSecond) /\ twice \subseteq logins
  <2>1. 0 \in Id /\ 0 \in 0..MaxSecond
    BY IdsOfRows, Counters
  <2> QED BY <2>1 DEF SessionInv, SessionTypes, NoToken, Token
<1>1. CASE Register(r)
  <2>1. PICK u \in Username : Visit(r, "insert", u, NoToken)
    BY <1>1 DEF Register
  <2>2. UNCHANGED <<store, second, revoked, logins, twice>>
    BY <1>1 DEF Register, history
  <2> QED BY <1>0, <2>1, <2>2, VisitKeeps
<1>2. CASE ArriveWithCookie(r)
  <2>1. PICK t \in cookies : Visit(r, "auth", "", t)
    BY <1>2 DEF ArriveWithCookie
  <2>2. UNCHANGED <<store, second, revoked, logins, twice>>
    BY <1>2 DEF ArriveWithCookie, history
  <2>3. t \in Token
    BY <1>0
  <2> QED BY <1>0, <2>1, <2>2, <2>3, VisitKeeps
<1>3. CASE Keep(r)
  <2>1. /\ Answer(r, "keep") /\ UNCHANGED <<users, second, logins, twice>>
        /\ \/ Store(RedisKey(0), token[r]) /\ cookies' = cookies \cup {token[r]}
           \/ UNCHANGED <<redis, revoked, cookies>>
    BY <1>3 DEF Keep
  <2>2. step[r] = "keep"
    BY <2>1, AnswerMoves
  <2>3. token[r].id \in {0} \cup DOMAIN users
    BY <2>2 DEF SessionInv, IssuedToUsers
  <2>4. redis' \in [{RedisKey(id) : id \in Id} -> Token] /\ revoked' \subseteq Token
    BY <1>0, <2>1, StoreType
  <2>5. /\ cookies' \cup revoked' \subseteq Token
        /\ \A t \in cookies' : t.id \in {0} \cup DOMAIN users
    BY <1>0, <2>1, <2>3, <2>4
  <2> QED BY <1>0, <2>1, <2>4, <2>5, AnswerMoves, MoveKeeps
<1>4. CASE SetToken(r)
  <2>1. /\ Answer(r, "set") /\ UNCHANGED <<users, second, logins, twice>>
        /\ \/ Store(RedisKey(token[r].id), token[r]) /\ cookies' = cookies \cup {token[r]}
           \/ UNCHANGED <<redis, revoked, cookies>>
    BY <1>4 DEF SetToken
  <2>2. step[r] = "set"
    BY <2>1, AnswerMoves
  <2>3. token[r].id \in {0} \cup DOMAIN users /\ token[r].id \in Id
    BY <2>2, IdsOfRows DEF SessionInv, IssuedToUsers
  <2>4. redis' \in [{RedisKey(id) : id \in Id} -> Token] /\ revoked' \subseteq Token
    BY <1>0, <2>1, <2>3, StoreType
  <2>5. /\ cookies' \cup revoked' \subseteq Token
        /\ \A t \in cookies' : t.id \in {0} \cup DOMAIN users
    BY <1>0, <2>1, <2>3, <2>4
  <2> QED BY <1>0, <2>1, <2>4, <2>5, AnswerMoves, MoveKeeps
<1>5. CASE Refuse(r)
  <2>1. Answer(r, "auth") /\ UNCHANGED <<store, second, history>>
    BY <1>5 DEF Refuse
  <2> QED BY <1>0, <2>1, AnswerMoves, MoveKeeps DEF store, history
<1>6. CASE EnterLogout(r)
  <2>1. /\ step' = [step EXCEPT ![r] = "del"] /\ "del" \in Step \ {"insert", "keep", "set"}
        /\ UNCHANGED <<form, token, store, second, visits, history>>
    BY <1>6 DEF EnterLogout, Step
  <2> QED BY <1>0, <2>1, MoveKeeps DEF store, history
<1>7. CASE Logout(r)
  <2>1. /\ Answer(r, "del") /\ UNCHANGED <<users, cookies, second, logins, twice>>
        /\ \/ Store(RedisKey(token[r].id), NoToken)
           \/ UNCHANGED <<redis, revoked>>
    BY <1>7 DEF Logout
  <2>2. token[r].id \in Id
    BY <1>0 DEF Token
  <2>3. redis' \in [{RedisKey(id) : id \in Id} -> Token] /\ revoked' \subseteq Token
    BY <1>0, <2>1, <2>2, StoreType
  <2> QED BY <1>0, <2>1, <2>3, AnswerMoves, MoveKeeps
<1> QED BY <1>1, <1>2, <1>3, <1>4, <1>5, <1>6, <1>7

\* A step of a job request leaves the stores of users and sessions alone.
LEMMA HandlerMoves ==
    ASSUME NEW r \in Request, Handler(r)
    PROVE  /\ UNCHANGED <<users, redis, cookies, second, revoked, logins, twice>>
           /\ \/ Arrive(r) /\ EnterJob(r)
              \/ /\ pc'[r] = "idle"
                 /\ Answer(r, "job")
              \/ /\ pc[r] # "idle"
                 /\ UNCHANGED <<step, form, token, visits>>
BY DEF Handler, EnterJob, request, store, history, Check, CreateRow, PutKey, DeleteKey,
       MarkDeleted, GrantKill, PutKillKey

LEMMA HandlerKeepsSession == ASSUME SessionInv, NEW r \in Request, Handler(r) PROVE SessionInv'
<1>0. /\ visits \in 0..MaxVisits
      /\ redis \in [{RedisKey(id) : id \in Id} -> Token]
      /\ cookies \cup revoked \subseteq Token
      /\ \A t \in cookies : t.id \in {0} \cup DOMAIN users
  BY DEF SessionInv, SessionTypes
<1>1. UNCHANGED <<users, redis, cookies, second, revoked, logins, twice>>
  BY HandlerMoves
<1>2. CASE EnterJob(r)
  <2>1. /\ step' = [step EXCEPT ![r] = "job"] /\ "job" \in Step \ {"insert", "keep", "set"}
        /\ UNCHANGED <<form, token, visits>>
    BY <1>2 DEF EnterJob, Step
  <2> QED BY <1>0, <1>1, <2>1, MoveKeeps
<1>3. CASE Answer(r, "job")
  BY <1>0, <1>1, <1>3, AnswerMoves, MoveKeeps
<1>4. CASE UNCHANGED <<step, form, token, visits>>
  BY <1>1, <1>4 DEF SessionInv, SessionTypes, IdsSuffice, Inserting, IssuedToUsers, FormsFilled
<1> QED BY <1>2, <1>3, <1>4, HandlerMoves

LEMMA InitSessionInv == MasterInit => SessionInv
<1> SUFFICES ASSUME MasterInit PROVE SessionInv
  OBVIOUS
<1>1. /\ Existing \in Seq(Username) /\ Len(Existing) \in Nat
      /\ DOMAIN Existing = 1..Len(Existing)
      /\ MaxVisits \in Nat /\ MaxSecond \in Nat \ {0}
  BY UsersAssumption, LenProperties
<1>2. {0} \cup DOMAIN Existing \subseteq Id /\ 0 \in 0..MaxSecond
  BY <1>1 DEF Id
<1>3. \A id \in Id : EarlierToken(id) \in Token
  BY <1>2 DEF EarlierToken, NoToken, Token
<1>4. redis \in [{RedisKey(id) : id \in Id} -> Token]
  BY <1>3 DEF MasterInit
<1>5. cookies \cup revoked \subseteq Token /\ \A t \in cookies : t.id \in {0} \cup DOMAIN users
  <2>1. /\ cookies = {EarlierToken(id) : id \in DOMAIN Existing}
        /\ users = Existing /\ revoked = {}
    BY DEF MasterInit
  <2>2. \A id \in DOMAIN Existing : EarlierToken(id).id = id
    BY DEF EarlierToken
  <2> QED BY <1>2, <1>3, <2>1, <2>2
<1>6. NoToken \in Token /\ "idle" \in Step
  BY <1>2 DEF NoToken, Token, Step
<1>7. SessionTypes
  <2>1. second \in 1..MaxSecond /\ visits \in 0..MaxVisits
    <3>1. 1 \in 1..MaxSecond /\ 0 \in 0..MaxVisits
      BY <1>1
    <3> QED BY <3>1 DEF MasterInit
  <2>2. /\ step \in [Request -> Step] /\ token \in [Request -> Token]
        /\ form \in [Request -> {""} \cup Username]
    BY <1>6 DEF MasterInit
  <2>3. users \in Seq(Username) /\ logins = {} /\ twice = {}
    BY <1>1 DEF MasterInit
  <2> QED BY <1>4, <1>5, <2>1, <2>2, <2>3 DEF SessionTypes
<1>8. IdsSuffice
  <2>1. Inserting = {}
    BY DEF MasterInit, Inserting
  <2>2. IsFiniteSet(Inserting) /\ Cardinality(Inserting) = 0
    BY <2>1, FS_EmptySet
  <2>3. Len(users) = Len(Existing) /\ visits = 0
    BY DEF MasterInit
  <2> QED BY <1>1, <2>2, <2>3 DEF IdsSuffice
<1> QED BY <1>7, <1>8 DEF MasterInit, SessionInv, IssuedToUsers, FormsFilled

LEMMA NextSessionInv == SessionInv /\ [MasterNext]_masterVars => SessionInv'
<1> SUFFICES ASSUME SessionInv, [MasterNext]_masterVars PROVE SessionInv'
  OBVIOUS
<1> USE DEF SessionInv, SessionTypes, IdsSuffice, Inserting, IssuedToUsers, FormsFilled
<1>1. CASE UNCHANGED session
  BY <1>1 DEF session, request, store, history
<1>2. CASE Tick
  <2>1. second' \in 1..MaxSecond
    <3>1. second \in 1..MaxSecond /\ second' = second + 1 /\ second < MaxSecond
      BY <1>2 DEF Tick
    <3>2. MaxSecond \in Nat
      BY UsersAssumption
    <3> QED BY <3>1, <3>2, ClockGoesOn
  <2> QED BY <1>2, <2>1 DEF Tick, request, store, history
<1>3. ASSUME NEW r \in Request, Session(r) PROVE SessionInv'
  BY <1>3, LoginKeeps, InsertKeeps, OtherSessionKeeps DEF Session
<1>4. ASSUME NEW r \in Request, Handler(r) PROVE SessionInv'
  BY <1>4, HandlerKeepsSession
<1> QED BY <1>1, <1>2, <1>3, <1>4 DEF MasterNext, masterVars

\* Whoever is in a handler of a job request is at step "job".
InHandler == \A r \in Request : pc[r] # "idle" => step[r] = "job"

LEMMA NextInHandler ==
    TypeOK /\ SessionInv /\ InHandler /\ [MasterNext]_masterVars => InHandler'
<1> SUFFICES ASSUME TypeOK, SessionInv, InHandler, [MasterNext]_masterVars PROVE InHandler'
  OBVIOUS
<1>0. step \in [Request -> Step] /\ pc \in [Request -> PC]
  BY DEF SessionInv, SessionTypes, TypeOK
<1>1. CASE UNCHANGED <<pc, step>>
  BY <1>1 DEF InHandler
<1>2. ASSUME NEW r \in Request, Session(r), UNCHANGED vars PROVE InHandler'
  <2>1. step[r] # "job" /\ \E s \in Step : step' = [step EXCEPT ![r] = s]
    BY <1>2 DEF Session, Register, Insert, Keep, Login, SetToken, ArriveWithCookie, Refuse,
                EnterLogout, Logout, Visit, Answer, Step
  <2>2. pc' = pc /\ pc[r] = "idle"
    BY <1>2, <2>1 DEF InHandler, vars
  <2>3. \A q \in Request \ {r} : step'[q] = step[q]
    BY <1>0, <2>1
  <2> QED BY <2>2, <2>3 DEF InHandler
<1>3. ASSUME NEW r \in Request, Handler(r) PROVE InHandler'
  <2>1. \A q \in Request \ {r} : pc'[q] = pc[q]
    BY <1>0, <1>3 DEF Handler, Arrive, Check, CreateRow, PutKey, DeleteKey, MarkDeleted,
                GrantKill, PutKillKey, Goto
  <2>2. CASE EnterJob(r)
    BY <1>0, <2>1, <2>2 DEF EnterJob, InHandler
  <2>3. CASE Answer(r, "job") /\ pc'[r] = "idle"
    BY <1>0, <2>1, <2>3 DEF Answer, InHandler
  <2>4. CASE pc[r] # "idle" /\ UNCHANGED <<step, form, token, visits>>
    BY <2>1, <2>4 DEF InHandler
  <2> QED BY <1>3, <2>2, <2>3, <2>4, HandlerMoves
<1>4. CASE \/ Tick /\ UNCHANGED vars
           \/ \E l \in alive : Expire(l) /\ UNCHANGED session
           \/ \E n \in Name : WorkerFinishes(n) /\ UNCHANGED session
           \/ UNCHANGED masterVars
  BY <1>1, <1>4 DEF Tick, Expire, WorkerFinishes, vars, masterVars, session, request
<1> QED BY <1>2, <1>3, <1>4 DEF MasterNext

\* The types of the whole API, for any users, requests and bounds: ids have a
\* place in the model, and cookies were issued to users.
THEOREM MasterTypeCorrect == MasterSpec => []MasterTypeOK
<1>1. MasterSpec => []TypeOK
  BY MasterServesJobs, TypeCorrect, PTL
<1> DEFINE Named_ == overlapped \subseteq Name
<1>2. MasterInit => SessionInv /\ InHandler /\ Named_
  BY InitSessionInv DEF MasterInit, Init, InHandler
<1>3. TypeOK /\ TypeOK' /\ Named_ /\ [MasterNext]_masterVars => Named_'
  BY DEF MasterNext, masterVars, Adding, Deleting, TypeOK
<1>4. SessionInv /\ InHandler /\ Named_ => MasterTypeOK
  BY DEF SessionInv, SessionTypes, InHandler, MasterTypeOK
<1> HIDE DEF Named_
<1> QED BY <1>1, <1>2, <1>3, <1>4, NextSessionInv, NextInHandler, PTL DEF MasterSpec

-----------------------------------------------------------------------------
(* Sessions *)

\* The steps that touch Redis, the tokens issued or the requests that hold
\* one, as far as sessions are concerned.
LEMMA SessionMoves ==
    ASSUME SessionInv, [MasterNext]_masterVars
    PROVE  \/ UNCHANGED <<redis, revoked, logins, twice>>
              /\ \A q \in Request : step'[q] \in {"keep", "set"}
                    => step[q] = step'[q] /\ token'[q] = token[q]
           \/ \E r \in Request : Insert(r) \/ Login(r) \/ Keep(r) \/ SetToken(r) \/ Logout(r)
<1>1. step \in [Request -> Step] /\ token \in [Request -> Token]
  BY DEF SessionInv, SessionTypes
<1>2. CASE UNCHANGED session
  BY <1>2 DEF session, request, store, history
<1>3. CASE Tick
  BY <1>3 DEF Tick, request, store, history
<1>4. ASSUME NEW r \in Request, NEW s \in Step \ {"keep", "set"},
             step' = [step EXCEPT ![r] = s], \A q \in Request \ {r} : token'[q] = token[q],
             UNCHANGED <<redis, revoked, logins, twice>>
      PROVE  UNCHANGED <<redis, revoked, logins, twice>>
             /\ \A q \in Request : step'[q] \in {"keep", "set"}
                   => step[q] = step'[q] /\ token'[q] = token[q]
  BY <1>1, <1>4
<1>5. ASSUME NEW r \in Request,
             Register(r) \/ ArriveWithCookie(r) \/ Refuse(r) \/ EnterLogout(r)
      PROVE  UNCHANGED <<redis, revoked, logins, twice>>
             /\ \A q \in Request : step'[q] \in {"keep", "set"}
                   => step[q] = step'[q] /\ token'[q] = token[q]
  <2>1. /\ UNCHANGED <<redis, revoked, logins, twice>>
        /\ \A q \in Request \ {r} : token'[q] = token[q]
    BY <1>1, <1>5 DEF Register, ArriveWithCookie, Refuse, EnterLogout, Visit, Answer, store,
                      history
  <2>2. \E s \in Step \ {"keep", "set"} : step' = [step EXCEPT ![r] = s]
    BY <1>5 DEF Register, ArriveWithCookie, Refuse, EnterLogout, Visit, Answer, Step
  <2> QED BY <2>1, <2>2, <1>4
<1>6. ASSUME NEW r \in Request, Handler(r)
      PROVE  UNCHANGED <<redis, revoked, logins, twice>>
             /\ \A q \in Request : step'[q] \in {"keep", "set"}
                   => step[q] = step'[q] /\ token'[q] = token[q]
  <2>1. UNCHANGED <<redis, revoked, logins, twice>>
    BY <1>6, HandlerMoves
  <2>2. CASE EnterJob(r)
    <3>1. step' = [step EXCEPT ![r] = "job"] /\ token' = token /\ "job" \in Step \ {"keep", "set"}
      BY <2>2 DEF EnterJob, Step
    <3> QED BY <2>1, <3>1, <1>4
  <2>3. CASE Answer(r, "job")
    <3>1. /\ step' = [step EXCEPT ![r] = "idle"] /\ "idle" \in Step \ {"keep", "set"}
          /\ token' = [token EXCEPT ![r] = NoToken]
      BY <2>3 DEF Answer, Step
    <3>2. \A q \in Request \ {r} : token'[q] = token[q]
      BY <1>1, <3>1
    <3> QED BY <2>1, <3>1, <3>2, <1>4
  <2>4. CASE UNCHANGED <<step, form, token, visits>>
    BY <2>1, <2>4
  <2> QED BY <1>6, <2>2, <2>3, <2>4, HandlerMoves
<1> QED BY <1>2, <1>3, <1>5, <1>6 DEF MasterNext, Session, masterVars

-----------------------------------------------------------------------------
(* Whose session a key holds *)

\* As many ids as there are characters without the gap of the surrogates.
SmallIds == Len(Existing) + MaxVisits < 55296

LEMMA KeysAreIds == ASSUME SmallIds, NEW id \in Id PROVE RedisKey(id) = id
<1>1. Len(Existing) \in Nat /\ MaxVisits \in Nat
  BY UsersAssumption, LenProperties
<1> QED BY <1>1 DEF SmallIds, Id, RedisKey

OwnSessions ==
    \A id \in Id \ {0} : redis[RedisKey(id)] # NoToken => redis[RedisKey(id)].id = id

LEMMA StoreKeepsOwn ==
    ASSUME SmallIds, SessionInv, OwnSessions, NEW k \in Id, NEW t,
           t = NoToken \/ t.id = k \/ k = 0, Store(RedisKey(k), t)
    PROVE  OwnSessions'
<1>1. redis' = [redis EXCEPT ![RedisKey(k)] = t] /\ redis \in [{RedisKey(id) : id \in Id} -> Token]
  BY DEF Store, SessionInv, SessionTypes
<1>2. SUFFICES ASSUME NEW id \in Id \ {0}, redis'[RedisKey(id)] # NoToken
               PROVE  redis'[RedisKey(id)].id = id
  BY DEF OwnSessions
<1>3. CASE id = k
  BY <1>1, <1>2, <1>3
<1>4. CASE id # k
  <2>1. RedisKey(id) # RedisKey(k)
    BY <1>4, KeysAreIds
  <2> QED BY <1>1, <1>2, <2>1 DEF OwnSessions
<1> QED BY <1>3, <1>4

LEMMA NextOwnSessions ==
    ASSUME SmallIds
    PROVE  SessionInv /\ OwnSessions /\ [MasterNext]_masterVars => OwnSessions'
<1> SUFFICES ASSUME SessionInv, OwnSessions, [MasterNext]_masterVars PROVE OwnSessions'
  OBVIOUS
<1>1. CASE redis' = redis
  BY <1>1 DEF OwnSessions
<1>2. ASSUME NEW r \in Request, token[r].id \in Id PROVE Keep(r) \/ SetToken(r) \/ Logout(r) => OwnSessions'
  <2>1. 0 \in Id
    BY IdsOfRows
  <2>2. Keep(r) => OwnSessions'
    BY <1>1, <2>1, StoreKeepsOwn DEF Keep
  <2>3. SetToken(r) => OwnSessions'
    BY <1>1, <1>2, StoreKeepsOwn DEF SetToken
  <2>4. Logout(r) => OwnSessions'
    BY <1>1, <1>2, StoreKeepsOwn DEF Logout
  <2> QED BY <2>2, <2>3, <2>4
<1>3. ASSUME NEW r \in Request PROVE token[r].id \in Id
  BY DEF SessionInv, SessionTypes, Token
<1>4. ASSUME NEW r \in Request, Insert(r) \/ Login(r) PROVE redis' = redis
  BY <1>4 DEF Insert, Login, store
<1> QED BY <1>1, <1>2, <1>3, <1>4, SessionMoves

LEMMA InitOwnSessions == ASSUME SmallIds PROVE MasterInit => OwnSessions
<1> SUFFICES ASSUME MasterInit, NEW id \in Id PROVE redis[RedisKey(id)] # NoToken => redis[RedisKey(id)].id = id
  BY DEF OwnSessions
<1> DEFINE i == CHOOSE j \in Id : RedisKey(j) = RedisKey(id)
<1>1. i \in Id /\ RedisKey(i) = RedisKey(id)
  OBVIOUS
<1>2. i = id
  BY <1>1, KeysAreIds
<1>3. redis[RedisKey(id)] = EarlierToken(i)
  BY DEF MasterInit
<1> HIDE DEF i
<1> QED BY <1>2, <1>3 DEF EarlierToken

\* The entry of a user in Redis is a token of that user, whoever registers and
\* logs in at the same time: for any number of users whose ids are characters
\* of their own.
THEOREM SessionIsOwnHolds == ASSUME SmallIds PROVE MasterSpec => []SessionIsOwn
<1>1. SessionInv /\ OwnSessions => SessionIsOwn
  <2> SUFFICES ASSUME SessionInv, OwnSessions, NEW i \in DOMAIN users,
                      redis[RedisKey(i)] # NoToken
               PROVE  redis[RedisKey(i)].id = i
    BY DEF SessionIsOwn
  <2>1. i \in Id /\ i # 0
    <3>1. DOMAIN users = 1..Len(users) /\ Len(users) \in Nat /\ DOMAIN users \subseteq Id
      BY IdsOfRows
    <3> QED BY <3>1
  <2> QED BY <2>1 DEF OwnSessions
<1> QED BY <1>1, InitSessionInv, NextSessionInv, InitOwnSessions, NextOwnSessions, PTL DEF MasterSpec

\* From the middleware only an authentic token leads on.
LEMMA AuthenticOnly ==
    ASSUME SessionInv, [MasterNext]_masterVars, NEW r \in Request,
           step[r] = "auth", step'[r] \in {"del", "job"}
    PROVE  Authentic(token[r])
<1>1. step \in [Request -> Step]
  BY DEF SessionInv, SessionTypes
<1>2. step' # step
  OBVIOUS
<1>3. ASSUME NEW q \in Request, Session(q) PROVE Authentic(token[r])
  <2>1. CASE EnterLogout(q)
    BY <1>1, <2>1 DEF EnterLogout
  <2>2. \E s \in {"idle", "insert", "keep", "set", "auth"} : step' = [step EXCEPT ![q] = s]
        \/ EnterLogout(q)
    BY <1>3 DEF Session, Register, Insert, Keep, Login, SetToken, ArriveWithCookie, Refuse,
                Logout, Visit, Answer
  <2> QED BY <1>1, <2>1, <2>2
<1>4. ASSUME NEW q \in Request, Handler(q) PROVE Authentic(token[r])
  <2>1. CASE EnterJob(q)
    BY <1>1, <2>1 DEF EnterJob
  <2>2. CASE Answer(q, "job")
    BY <1>1, <2>2 DEF Answer
  <2> QED BY <1>2, <1>4, <2>1, <2>2, HandlerMoves
<1> QED BY <1>2, <1>3, <1>4 DEF MasterNext, Tick, session, request, masterVars

-----------------------------------------------------------------------------
(* Revoked tokens *)

Keys == {RedisKey(id) : id \in Id}
Pending == {r \in Request : step[r] \in {"keep", "set"}}
Repeated(t) == <<t.id, t.at>> \in twice

\* Where a token is, its issue was recorded, except for the tokens of before.
IssuesRecorded ==
    /\ \A r \in Pending : <<token[r].id, token[r].at>> \in logins
    /\ \A k \in Keys : redis[k].at # 0 => <<redis[k].id, redis[k].at>> \in logins
    /\ \A t \in revoked : t.at # 0 => <<t.id, t.at>> \in logins

\* A token is at one place only, a request, a key, or among the revoked ones,
\* unless it was issued twice.
TokensOnce ==
    /\ NoToken \notin revoked
    /\ \A r \in Pending : token[r] \in revoked => Repeated(token[r])
    /\ \A r \in Pending, k \in Keys : token[r] = redis[k] => Repeated(token[r])
    /\ \A r, q \in Pending : r # q /\ token[r] = token[q] => Repeated(token[r])
    /\ \A k \in Keys : redis[k] \in revoked => Repeated(redis[k])
    /\ \A k, l \in Keys : k # l /\ redis[k] = redis[l] /\ redis[k] # NoToken => Repeated(redis[k])

\* A token that is stored, or NoToken, leaves the request that had it.
LEMMA StoreKeepsOnce ==
    ASSUME SessionInv, IssuesRecorded, TokensOnce, NEW r \in Request, NEW k \in Keys, NEW t,
           \/ t = NoToken
           \/ r \in Pending /\ t = token[r],
           Store(k, t), UNCHANGED <<logins, twice>>,
           Pending' \subseteq Pending \ {r},
           \A q \in Pending' : token'[q] = token[q]
    PROVE  IssuesRecorded' /\ TokensOnce'
<1>1. /\ redis' = [redis EXCEPT ![k] = t]
      /\ revoked' = revoked \cup ({redis[k]} \ {t, NoToken})
      /\ redis \in [Keys -> Token] /\ Keys' = Keys
  BY DEF Store, SessionInv, SessionTypes, Keys
<1>2. redis'[k] = t /\ \A l \in Keys \ {k} : redis'[l] = redis[l]
  BY <1>1
<1>3. \A x : Repeated(x) => Repeated(x)'
  BY DEF Repeated
<1>4. IssuesRecorded'
  <2>1. t.at # 0 => <<t.id, t.at>> \in logins
    BY DEF NoToken, IssuesRecorded
  <2> QED BY <1>1, <1>2, <2>1 DEF IssuesRecorded
<1>5. NoToken \notin revoked'
  BY <1>1 DEF TokensOnce
<1>6. \A q \in Pending' : token'[q] \in revoked' => Repeated(token[q])
  BY <1>1 DEF TokensOnce
<1>7. \A q \in Pending', l \in Keys : token'[q] = redis'[l] => Repeated(token[q])
  <2> SUFFICES ASSUME NEW q \in Pending', NEW l \in Keys, token[q] = redis'[l]
               PROVE  Repeated(token[q])
    OBVIOUS
  <2>1. CASE l # k
    BY <1>2, <2>1 DEF TokensOnce
  <2>2. CASE l = k /\ t = NoToken
    <3>1. <<token[q].id, token[q].at>> \in logins /\ token[q].at = 0
      BY <1>2, <2>2 DEF IssuesRecorded, NoToken
    <3>2. logins \subseteq Id \X (1..MaxSecond)
      BY DEF SessionInv, SessionTypes
    <3> QED BY <3>1, <3>2
  <2>3. CASE l = k /\ r \in Pending /\ t = token[r]
    BY <1>2, <2>3 DEF TokensOnce
  <2> QED BY <2>1, <2>2, <2>3
<1>8. \A p, q \in Pending' : p # q /\ token'[p] = token'[q] => Repeated(token[p])
  BY DEF TokensOnce
<1>9. \A l \in Keys : redis'[l] \in revoked' => Repeated(redis'[l])
  <2> SUFFICES ASSUME NEW l \in Keys, redis'[l] \in revoked' PROVE Repeated(redis'[l])
    OBVIOUS
  <2>1. CASE l = k
    <3>1. t \in revoked
      BY <1>1, <1>2, <2>1
    <3>2. r \in Pending /\ t = token[r]
      BY <3>1 DEF TokensOnce
    <3> QED BY <1>2, <2>1, <3>1, <3>2 DEF TokensOnce
  <2>2. CASE l # k /\ redis[l] \in revoked
    BY <1>2, <2>2 DEF TokensOnce
  <2>3. CASE l # k /\ redis[l] = redis[k] /\ redis[k] # NoToken
    BY <1>2, <2>3 DEF TokensOnce
  <2> QED BY <1>1, <1>2, <2>1, <2>2, <2>3
<1>10. \A l, m \in Keys : l # m /\ redis'[l] = redis'[m] /\ redis'[l] # NoToken => Repeated(redis'[l])
  <2> SUFFICES ASSUME NEW l \in Keys, NEW m \in Keys, l # m, redis'[l] = redis'[m],
                      redis'[l] # NoToken
               PROVE  Repeated(redis'[l])
    OBVIOUS
  <2>1. CASE l # k /\ m # k
    BY <1>2, <2>1 DEF TokensOnce
  <2>2. CASE l = k \/ m = k
    <3>1. r \in Pending /\ redis'[l] = token[r] /\ \E n \in Keys : token[r] = redis[n]
      BY <1>2, <2>2
    <3> QED BY <3>1 DEF TokensOnce
  <2> QED BY <2>1, <2>2
<1>11. TokensOnce'
  BY <1>1, <1>3, <1>5, <1>6, <1>7, <1>8, <1>9, <1>10 DEF TokensOnce, Repeated
<1> QED BY <1>4, <1>11

\* A token of this second is new, or its issue is recorded as a repetition.
LEMMA IssueKeepsOnce ==
    ASSUME SessionInv, IssuesRecorded, TokensOnce, NEW r \in Request, NEW id \in Id,
           r \notin Pending, Issue(id), token'[r] = ReleaseToken(id),
           Pending' = Pending \cup {r}, \A q \in Pending : token'[q] = token[q],
           UNCHANGED <<redis, revoked>>
    PROVE  IssuesRecorded' /\ TokensOnce'
<1>1. /\ token'[r].id = id /\ token'[r].at = second /\ token'[r] # NoToken /\ second # 0
      /\ Keys' = Keys
  <2>1. second # 0
    <3>1. second \in 1..MaxSecond
      BY DEF SessionInv, SessionTypes
    <3> QED BY <3>1
  <2> QED BY <2>1 DEF ReleaseToken, NoToken, Keys
<1>2. /\ logins' = logins \cup {<<id, second>>}
      /\ twice' = twice \cup (logins \cap {<<id, second>>})
  BY DEF Issue
<1>3. IssuesRecorded'
  BY <1>1, <1>2 DEF IssuesRecorded
<1>4. \A t : <<t.id, t.at>> \in logins /\ t = token'[r] => <<t.id, t.at>> \in twice'
  BY <1>1, <1>2
<1>5. \A t : Repeated(t) => <<t.id, t.at>> \in twice'
  BY <1>2 DEF Repeated
<1>6. \A t \in revoked : t = token'[r] => <<t.id, t.at>> \in twice'
  BY <1>1, <1>4 DEF IssuesRecorded
<1>7. \A k \in Keys : redis[k] = token'[r] => <<token'[r].id, token'[r].at>> \in twice'
  BY <1>1, <1>4 DEF IssuesRecorded
<1>8. \A q \in Pending : token[q] = token'[r] => <<token'[r].id, token'[r].at>> \in twice'
  BY <1>4 DEF IssuesRecorded
<1>9. /\ \A q \in Pending' : token'[q] \in revoked' => Repeated(token[q])' 
      /\ \A q \in Pending', k \in Keys : token'[q] = redis'[k] => Repeated(token[q])'
  BY <1>5, <1>6, <1>7 DEF TokensOnce, Repeated
<1>10. \A p, q \in Pending' : p # q /\ token'[p] = token'[q] => Repeated(token[p])'
  BY <1>5, <1>8 DEF TokensOnce, Repeated
<1>11. /\ \A k \in Keys : redis'[k] \in revoked' => Repeated(redis[k])'
       /\ \A k, l \in Keys : k # l /\ redis'[k] = redis'[l] /\ redis'[k] # NoToken
             => Repeated(redis[k])'
  BY <1>5 DEF TokensOnce, Repeated
<1>12. NoToken \notin revoked'
  BY DEF TokensOnce
<1> QED BY <1>1, <1>3, <1>9, <1>10, <1>11, <1>12 DEF TokensOnce

LEMMA NextTokensOnce ==
    SessionInv /\ IssuesRecorded /\ TokensOnce /\ [MasterNext]_masterVars
        => IssuesRecorded' /\ TokensOnce'
<1> SUFFICES ASSUME SessionInv, IssuesRecorded, TokensOnce, [MasterNext]_masterVars
             PROVE  IssuesRecorded' /\ TokensOnce'
  OBVIOUS
<1>0. step \in [Request -> Step] /\ token \in [Request -> Token]
  BY DEF SessionInv, SessionTypes
<1>1. ASSUME UNCHANGED <<redis, revoked, logins, twice>>, Pending' \subseteq Pending,
             \A q \in Pending' : token'[q] = token[q]
      PROVE  IssuesRecorded' /\ TokensOnce'
  <2>1. Keys' = Keys
    BY DEF Keys
  <2>2. \A x : Repeated(x)' <=> Repeated(x)
    BY <1>1 DEF Repeated
  <2>3. IssuesRecorded'
    BY <1>1, <2>1 DEF IssuesRecorded
  <2>4. TokensOnce'
    BY <1>1, <2>1 DEF TokensOnce, Repeated
  <2> QED BY <2>3, <2>4
<1>2. CASE UNCHANGED <<redis, revoked, logins, twice>>
           /\ \A q \in Request : step'[q] \in {"keep", "set"}
                 => step[q] = step'[q] /\ token'[q] = token[q]
  BY <1>1, <1>2 DEF Pending
<1>3. ASSUME NEW r \in Request, NEW s \in {"keep", "set", "del"}, Answer(r, s)
      PROVE  /\ Pending' \subseteq Pending \ {r} /\ \A q \in Pending' : token'[q] = token[q]
             /\ s # "del" => r \in Pending
  BY <1>0, <1>3 DEF Answer, Pending
<1>4. ASSUME NEW r \in Request, Keep(r) PROVE IssuesRecorded' /\ TokensOnce'
  <2>1. /\ Answer(r, "keep") /\ UNCHANGED <<logins, twice>> /\ RedisKey(0) \in Keys
        /\ \/ Store(RedisKey(0), token[r])
           \/ UNCHANGED <<redis, revoked>>
    BY <1>4, IdsOfRows DEF Keep, Keys
  <2> QED BY <1>1, <1>3, <2>1, StoreKeepsOnce
<1>5. ASSUME NEW r \in Request PROVE RedisKey(token[r].id) \in Keys
  BY <1>0 DEF Keys, Token
<1>6. ASSUME NEW r \in Request, SetToken(r) PROVE IssuesRecorded' /\ TokensOnce'
  <2>1. /\ Answer(r, "set") /\ UNCHANGED <<logins, twice>>
        /\ \/ Store(RedisKey(token[r].id), token[r])
           \/ UNCHANGED <<redis, revoked>>
    BY <1>6 DEF SetToken
  <2> QED BY <1>1, <1>3, <1>5, <2>1, StoreKeepsOnce
<1>7. ASSUME NEW r \in Request, Logout(r) PROVE IssuesRecorded' /\ TokensOnce'
  <2>1. /\ Answer(r, "del") /\ UNCHANGED <<logins, twice>>
        /\ \/ Store(RedisKey(token[r].id), NoToken)
           \/ UNCHANGED <<redis, revoked>>
    BY <1>7 DEF Logout
  <2> QED BY <1>1, <1>3, <1>5, <2>1, StoreKeepsOnce
<1>8. ASSUME NEW r \in Request, NEW s \in {"keep", "set"}, step[r] \in {"idle", "insert"},
             step' = [step EXCEPT ![r] = s], NEW id \in Id, Issue(id),
             token' = [token EXCEPT ![r] = ReleaseToken(id)], UNCHANGED <<redis, revoked>>
      PROVE  IssuesRecorded' /\ TokensOnce'
  <2>1. r \notin Pending /\ Pending' = Pending \cup {r}
    BY <1>0, <1>8 DEF Pending
  <2>2. token'[r] = ReleaseToken(id) /\ \A q \in Pending : token'[q] = token[q]
    BY <1>0, <1>8, <2>1 DEF Pending
  <2> QED BY <1>8, <2>1, <2>2, IssueKeepsOnce
<1>9. ASSUME NEW r \in Request, Insert(r) PROVE IssuesRecorded' /\ TokensOnce'
  <2>1. NewId(users') \in Id
    BY <1>9, InsertIssuesId
  <2> QED BY <1>8, <1>9, <2>1 DEF Insert
<1>10. ASSUME NEW r \in Request, Login(r) PROVE IssuesRecorded' /\ TokensOnce'
  <2>1. PICK i \in DOMAIN users : Visit(r, "set", "", ReleaseToken(i)) /\ Issue(i)
    BY <1>10 DEF Login
  <2>2. i \in Id
    BY IdsOfRows
  <2> QED BY <1>8, <1>10, <2>1, <2>2 DEF Login, Visit, store
<1> QED BY <1>2, <1>4, <1>6, <1>7, <1>9, <1>10, SessionMoves

LEMMA InitTokensOnce == MasterInit => IssuesRecorded /\ TokensOnce
<1> SUFFICES ASSUME MasterInit PROVE IssuesRecorded /\ TokensOnce
  OBVIOUS
<1> DEFINE Of(k) == CHOOSE id \in Id : RedisKey(id) = k
<1>1. \A k \in Keys : redis[k] = EarlierToken(Of(k))
  BY DEF MasterInit, Keys
<1>2. \A k \in Keys : RedisKey(Of(k)) = k
  BY DEF Keys
<1> HIDE DEF Of
<1>3. Pending = {} /\ revoked = {}
  BY DEF MasterInit, Pending
<1>4. ASSUME NEW k \in Keys
      PROVE  /\ redis[k].at = 0
             /\ redis[k] # NoToken => redis[k].id = Of(k)
  <2>1. redis[k] = IF Of(k) \in DOMAIN Existing THEN [id |-> Of(k), at |-> 0] ELSE NoToken
    BY <1>1 DEF EarlierToken
  <2>2. NoToken.at = 0
    BY DEF NoToken
  <2>3. CASE Of(k) \in DOMAIN Existing
    BY <2>1, <2>3
  <2>4. CASE Of(k) \notin DOMAIN Existing
    BY <2>1, <2>2, <2>4
  <2> QED BY <2>3, <2>4
<1>5. \A k, l \in Keys : redis[k] = redis[l] /\ redis[k] # NoToken => k = l
  <2> SUFFICES ASSUME NEW k \in Keys, NEW l \in Keys, redis[k] = redis[l], redis[k] # NoToken
               PROVE  k = l
    OBVIOUS
  <2>1. redis[k].id = Of(k) /\ redis[l].id = Of(l)
    BY <1>4
  <2> QED BY <1>2, <2>1
<1>6. \A k \in Keys : redis[k].at = 0
  BY <1>4
<1> QED BY <1>3, <1>5, <1>6 DEF IssuesRecorded, TokensOnce

\* A token that was replaced or deleted opens no handler again, unless two
\* logins of the user in one second got it: for any number of concurrent
\* requests and users.
THEOREM RevokedIsRefusedHolds == MasterSpec => RevokedIsRefused
<1> DEFINE Refused ==
      \A r \in Request :
          step[r] = "auth" /\ step'[r] \in {"del", "job"}
          => token[r] \notin {t \in revoked : <<t.id, t.at>> \notin twice}
<1>1. SessionInv /\ TokensOnce /\ [MasterNext]_masterVars => [Refused]_masterVars
  <2> SUFFICES ASSUME SessionInv, TokensOnce, [MasterNext]_masterVars, NEW r \in Request,
                      step[r] = "auth", step'[r] \in {"del", "job"}
               PROVE  token[r] \notin {t \in revoked : <<t.id, t.at>> \notin twice}
    OBVIOUS
  <2>1. Authentic(token[r])
    BY AuthenticOnly
  <2>2. token[r].id \in Id
    BY DEF SessionInv, SessionTypes, Token
  <2> QED BY <2>1, <2>2 DEF Authentic, TokensOnce, Keys, Repeated
<1>2. [][Refused]_masterVars => RevokedIsRefused
  BY PTL DEF RevokedIsRefused
<1> HIDE DEF Refused
<1> QED BY <1>1, <1>2, InitSessionInv, NextSessionInv, InitTokensOnce, NextTokensOnce, PTL
        DEF MasterSpec

-----------------------------------------------------------------------------
(* Rows of a username *)

\* Requests are finitely many, and the rows of the start were registered by
\* them, too.
RegisteredBefore ==
    /\ IsFiniteSet(Request)
    /\ \A u \in Username :
          Cardinality({i \in DOMAIN Existing : Existing[i] = u}) <= Cardinality(Request)

RowsOf(u) == {i \in DOMAIN users : users[i] = u}
Registering(u) == {r \in Request : step[r] = "insert" /\ form[r] = u}

\* The query of a registration that is on its way to the row found none.
RegistrationsCount ==
    \A u \in Username : Cardinality(RowsOf(u)) + Cardinality(Registering(u)) <= Cardinality(Request)

LEMMA CountsFinite ==
    ASSUME RegisteredBefore, SessionInv, NEW u
    PROVE  /\ IsFiniteSet(RowsOf(u)) /\ Cardinality(RowsOf(u)) \in Nat
           /\ IsFiniteSet(Registering(u)) /\ Cardinality(Registering(u)) \in Nat
           /\ Cardinality(Registering(u)) <= Cardinality(Request)
           /\ Cardinality(Request) \in Nat
<1>1. IsFiniteSet(1..Len(users)) /\ DOMAIN users = 1..Len(users)
  BY IdsOfRows, FS_Interval
<1>2. RowsOf(u) \subseteq 1..Len(users) /\ Registering(u) \subseteq Request
  BY <1>1 DEF RowsOf, Registering
<1>3. IsFiniteSet(RowsOf(u)) /\ IsFiniteSet(Registering(u))
      /\ Cardinality(Registering(u)) <= Cardinality(Request)
  BY <1>1, <1>2, FS_Subset DEF RegisteredBefore
<1> QED BY <1>3, FS_CardinalityType DEF RegisteredBefore

\* Fewer registrations with the same rows keep the count.
LEMMA FewerRegistering ==
    ASSUME RegisteredBefore, SessionInv, SessionInv', RegistrationsCount, NEW u \in Username,
           users' = users, Registering(u)' \subseteq Registering(u)
    PROVE  Cardinality(RowsOf(u)') + Cardinality(Registering(u)') <= Cardinality(Request)
<1>1. RowsOf(u)' = RowsOf(u)
  BY DEF RowsOf
<1>2. /\ Cardinality(Registering(u)') <= Cardinality(Registering(u))
      /\ IsFiniteSet(Registering(u)')
  BY CountsFinite, FS_Subset
<1>3. Cardinality(Registering(u)') \in Nat
  BY <1>2, FS_CardinalityType
<1>4. Cardinality(RowsOf(u)) + Cardinality(Registering(u)) <= Cardinality(Request)
  BY DEF RegistrationsCount
<1> QED BY <1>1, <1>2, <1>3, <1>4, CountsFinite

LEMMA RegisterKeepsCount ==
    ASSUME "check" \notin MayFail, RegisteredBefore, SessionInv, SessionInv', RegistrationsCount,
           NEW r \in Request, Register(r)
    PROVE  RegistrationsCount'
<1>1. PICK v \in Username : ~Taken(v) /\ Visit(r, "insert", v, NoToken)
  BY DEF Register
<1>2. users' = users
  BY DEF Register, store
<1>3. SUFFICES ASSUME NEW u \in Username
               PROVE  Cardinality(RowsOf(u)') + Cardinality(Registering(u)') <= Cardinality(Request)
  BY DEF RegistrationsCount
<1>4. CASE u = v
  <2>1. RowsOf(u)' = {}
    BY <1>1, <1>2, <1>4 DEF Taken, RowsOf
  <2>2. Cardinality(RowsOf(u)') = 0
    BY <2>1, FS_EmptySet
  <2>3. Registering(u)' \subseteq Request
    BY DEF Registering
  <2>4. /\ IsFiniteSet(Registering(u)')
        /\ Cardinality(Registering(u)') <= Cardinality(Request)
    BY <2>3, FS_Subset DEF RegisteredBefore
  <2>5. Cardinality(Registering(u)') \in Nat
    BY <2>4, FS_CardinalityType
  <2> QED BY <2>2, <2>4, <2>5, CountsFinite
<1>5. CASE u # v
  <2>1. Registering(u)' \subseteq Registering(u)
    BY <1>1, <1>5 DEF Visit, Registering, SessionInv, SessionTypes
  <2> QED BY <1>2, <2>1, FewerRegistering
<1> QED BY <1>4, <1>5

\* A row that is created takes the place of its registration.
LEMMA InsertKeepsCount ==
    ASSUME RegisteredBefore, SessionInv, SessionInv', RegistrationsCount,
           NEW r \in Request, Insert(r)
    PROVE  RegistrationsCount'
<1>1. /\ step[r] = "insert" /\ step' = [step EXCEPT ![r] = "keep"] /\ form' = form
      /\ users' = users \/ users' = Append(users, form[r])
  BY DEF Insert
<1>2. SUFFICES ASSUME NEW u \in Username
               PROVE  Cardinality(RowsOf(u)') + Cardinality(Registering(u)') <= Cardinality(Request)
  BY DEF RegistrationsCount
<1>3. Registering(u)' = Registering(u) \ {r}
  BY <1>1 DEF Registering, SessionInv, SessionTypes
<1>4. CASE users' = users
  BY <1>3, <1>4, FewerRegistering
<1>5. CASE users' = Append(users, form[r])
  <2>1. /\ Len(users) \in Nat /\ DOMAIN users = 1..Len(users) /\ users \in Seq(Username)
        /\ form[r] \in Username
    BY <1>1, IdsOfRows DEF SessionInv, SessionTypes, FormsFilled
  <2>2. /\ DOMAIN users' = 1..(Len(users) + 1)
        /\ \A i \in 1..Len(users) : users'[i] = users[i]
        /\ users'[Len(users) + 1] = form[r]
    BY <1>5, <2>1, AppendProperties, LenProperties
  <2>3. DOMAIN users' = DOMAIN users \cup {Len(users) + 1} /\ Len(users) + 1 \notin DOMAIN users
    BY <2>1, <2>2
  <2>4. Cardinality(RowsOf(u)) + Cardinality(Registering(u)) <= Cardinality(Request)
    BY DEF RegistrationsCount
  <2>5. CASE form[r] = u
    <3>1. RowsOf(u)' = RowsOf(u) \cup {Len(users) + 1} /\ Len(users) + 1 \notin RowsOf(u)
      BY <2>1, <2>2, <2>3, <2>5 DEF RowsOf
    <3>2. Cardinality(RowsOf(u)') = Cardinality(RowsOf(u)) + 1
      BY <3>1, CountsFinite, FS_AddElement
    <3>3. r \in Registering(u)
      BY <1>1, <2>5 DEF Registering
    <3>4. Cardinality(Registering(u)') = Cardinality(Registering(u)) - 1
      BY <1>3, <3>3, CountsFinite, FS_RemoveElement
    <3> QED BY <2>4, <3>2, <3>4, CountsFinite
  <2>6. CASE form[r] # u
    <3>1. RowsOf(u)' = RowsOf(u)
      BY <2>1, <2>2, <2>3, <2>6 DEF RowsOf
    <3>2. Registering(u)' = Registering(u)
      BY <1>3, <2>6 DEF Registering
    <3> QED BY <2>4, <3>1, <3>2
  <2> QED BY <2>5, <2>6
<1> QED BY <1>1, <1>4, <1>5

LEMMA NextRegistrationsCount ==
    ASSUME "check" \notin MayFail, RegisteredBefore
    PROVE  SessionInv /\ SessionInv' /\ RegistrationsCount /\ [MasterNext]_masterVars
               => RegistrationsCount'
<1> SUFFICES ASSUME SessionInv, SessionInv', RegistrationsCount, [MasterNext]_masterVars
             PROVE  RegistrationsCount'
  OBVIOUS
<1>0. step \in [Request -> Step] /\ form \in [Request -> {""} \cup Username]
  BY DEF SessionInv, SessionTypes
<1>1. ASSUME users' = users, NEW r \in Request, NEW s \in Step \ {"insert"}, NEW f \in {"", form[r]},
             step' = [step EXCEPT ![r] = s], form' \in {form, [form EXCEPT ![r] = f]}
      PROVE  RegistrationsCount'
  <2>1. \A u \in Username : Registering(u)' \subseteq Registering(u)
    BY <1>0, <1>1 DEF Registering
  <2> QED BY <1>1, <2>1, FewerRegistering DEF RegistrationsCount
<1>2. ASSUME UNCHANGED <<users, step, form>> PROVE RegistrationsCount'
  BY <1>2 DEF RegistrationsCount, Registering, RowsOf
<1>3. CASE UNCHANGED session \/ Tick
  BY <1>2, <1>3 DEF session, request, store, Tick
<1>4. ASSUME NEW r \in Request, Session(r) PROVE RegistrationsCount'
  <2>1. CASE Keep(r) \/ SetToken(r) \/ Refuse(r) \/ Logout(r)
    <3>1. /\ users' = users /\ step' = [step EXCEPT ![r] = "idle"]
          /\ form' = [form EXCEPT ![r] = ""] /\ "idle" \in Step \ {"insert"}
      BY <2>1 DEF Keep, SetToken, Refuse, Logout, Answer, store, Step
    <3> QED BY <1>1, <3>1
  <2>2. CASE EnterLogout(r)
    <3>1. /\ users' = users /\ step' = [step EXCEPT ![r] = "del"]
          /\ form' = form /\ "del" \in Step \ {"insert"}
      BY <2>2 DEF EnterLogout, store, Step
    <3> QED BY <1>1, <3>1
  <2>3. CASE Login(r) \/ ArriveWithCookie(r)
    <3>1. /\ users' = users /\ form' = [form EXCEPT ![r] = ""]
          /\ \E s \in Step \ {"insert"} : step' = [step EXCEPT ![r] = s]
      BY <2>3 DEF Login, ArriveWithCookie, Visit, store, Step
    <3> QED BY <1>1, <3>1
  <2> QED BY <1>4, <2>1, <2>2, <2>3, RegisterKeepsCount, InsertKeepsCount DEF Session
<1>5. ASSUME NEW r \in Request, Handler(r) PROVE RegistrationsCount'
  <2>1. CASE EnterJob(r)
    <3>1. /\ users' = users /\ step' = [step EXCEPT ![r] = "job"]
          /\ form' = form /\ "job" \in Step \ {"insert"}
      BY <2>1 DEF EnterJob, store, Step
    <3> QED BY <1>1, <3>1
  <2>2. CASE Answer(r, "job")
    <3>1. /\ users' = users /\ step' = [step EXCEPT ![r] = "idle"]
          /\ form' = [form EXCEPT ![r] = ""] /\ "idle" \in Step \ {"insert"}
      BY <1>5, <2>2, HandlerMoves DEF Answer, Step
    <3> QED BY <1>1, <3>1
  <2>3. CASE UNCHANGED <<step, form, token, visits>>
    BY <1>2, <1>5, <2>3, HandlerMoves
  <2> QED BY <1>5, <2>1, <2>2, <2>3, HandlerMoves
<1> QED BY <1>3, <1>4, <1>5 DEF MasterNext, session, masterVars

LEMMA InitRegistrationsCount == ASSUME RegisteredBefore PROVE MasterInit => RegistrationsCount
<1> SUFFICES ASSUME MasterInit, NEW u \in Username
             PROVE  Cardinality(RowsOf(u)) + Cardinality(Registering(u)) <= Cardinality(Request)
  BY DEF RegistrationsCount
<1>1. /\ RowsOf(u) = {i \in DOMAIN Existing : Existing[i] = u}
      /\ Registering(u) = {}
  BY DEF MasterInit, RowsOf, Registering
<1>2. Cardinality(Registering(u)) = 0
  BY <1>1, FS_EmptySet
<1>3. Cardinality(RowsOf(u)) <= Cardinality(Request)
  BY <1>1 DEF RegisteredBefore
<1>4. Cardinality(RowsOf(u)) \in Nat
  BY InitSessionInv, CountsFinite
<1> QED BY <1>2, <1>3, <1>4, CountsFinite, InitSessionInv

\* While the query for the row of the name succeeds, a username has no more
\* rows than requests can be on the way at a time, whatever inserts fail.
THEOREM RowsPerUserHolds ==
    ASSUME "check" \notin MayFail, RegisteredBefore
    PROVE  MasterSpec => []RowsPerUser
<1>1. SessionInv /\ RegistrationsCount => RowsPerUser
  <2> SUFFICES ASSUME SessionInv, RegistrationsCount, NEW u \in Username
               PROVE  Cardinality(RowsOf(u)) <= Cardinality(Request)
    BY DEF RowsPerUser, RowsOf
  <2>1. Cardinality(RowsOf(u)) + Cardinality(Registering(u)) <= Cardinality(Request)
    BY DEF RegistrationsCount
  <2> QED BY <2>1, CountsFinite
<1> QED BY <1>1, InitSessionInv, NextSessionInv, InitRegistrationsCount, NextRegistrationsCount,
        PTL DEF MasterSpec

=============================================================================
