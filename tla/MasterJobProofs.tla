-------------------------- MODULE MasterJobProofs ----------------------------
(***************************************************************************)
(* The job requests of the master, for any number of requests and names    *)
(* and whatever calls fail: types, a row before a key, and at most as many *)
(* rows of a name as there are concurrent requests.                        *)
(*                                                                         *)
(* KeyHasRow needs that a request that is about to put the key has created *)
(* a row (RowBeforePut).  RowsPerName needs that the rows and the requests *)
(* that are about to create one are together not too many: a request gets  *)
(* there only while there is no row (CreatorsFit).                         *)
(***************************************************************************)
EXTENDS MasterJob, TLAPS, FiniteSetTheorems, SequenceTheorems

\* A request that is under way has its number.
Numbered == \A r \in Request : pc[r] # "idle" => serial[r] # NoLease

\* The row is created before the key is put, and stays.
RowBeforePut == \A r \in Request : pc[r] = "put" => rows[name[r]] # << >>

\* The requests that have found no row of a name and are about to create one.
Creators(n) == {r \in Request : pc[r] = "create" /\ name[r] = n}

\* Rows, and requests that will create one, are not more than the requests.
CreatorsFit == \A n \in Name : Len(rows[n]) + Cardinality(Creators(n)) <= Cardinality(Request)

\* The premises of RowsPerName: finitely many requests at a time, and the
\* query for an existing row does not fail.
ChecksWork == IsFiniteSet(Request) /\ "check" \notin MayFail

IInv ==
    /\ TypeOK
    /\ Numbered
    /\ RowBeforePut
    /\ KeyHasRow
    /\ ChecksWork => CreatorsFit

USE MasterAssumption DEF NoLease

-----------------------------------------------------------------------------
(* Helpers *)

\* Creators in numbers: leaving makes them one fewer.
LEMMA FewerCreators ==
    ASSUME NEW S, IsFiniteSet(S), NEW x \in S
    PROVE  Cardinality(S \ {x}) = Cardinality(S) - 1 /\ Cardinality(S) \in Nat
BY FS_RemoveElement, FS_CardinalityType

\* Marking rows changes no number of rows.
LEMMA MarkedRows ==
    ASSUME TypeOK, NEW n \in Name, NEW st \in {Waiting, Done, Deleted}
    PROVE  /\ Marked(n, st) \in [Name -> Seq({Waiting, Done, Deleted})]
           /\ \A k \in Name : Len(Marked(n, st)[k]) = Len(rows[k])
           /\ \A k \in Name : rows[k] # << >> => Marked(n, st)[k] # << >>
<1> DEFINE T == {Waiting, Done, Deleted}
           new == [i \in DOMAIN rows[n] |-> st]
<1>1. rows[n] \in Seq(T) /\ Len(rows[n]) \in Nat /\ DOMAIN rows[n] = 1..Len(rows[n])
  BY LenProperties DEF TypeOK
<1>2. new \in Seq(T) /\ Len(new) = Len(rows[n])
  BY <1>1, IsASeq, LenProperties
<1>3. Marked(n, st) = [rows EXCEPT ![n] = new]
  BY DEF Marked
<1> HIDE DEF new
<1>4. \A k \in Name : Marked(n, st)[k] = IF k = n THEN new ELSE rows[k]
  BY <1>3 DEF TypeOK
<1>5. rows[n] # << >> => new # << >>
  BY <1>1, <1>2, EmptySeq
<1> QED BY <1>2, <1>3, <1>4, <1>5 DEF TypeOK

\* While the check works, requests are finitely many, hence so are creators.
LEMMA CreatorsFinite ==
    ASSUME IsFiniteSet(Request), NEW n
    PROVE  /\ IsFiniteSet(Creators(n)) /\ Cardinality(Creators(n)) \in Nat
           /\ Cardinality(Creators(n)) <= Cardinality(Request) /\ Cardinality(Request) \in Nat
BY FS_Subset, FS_CardinalityType DEF Creators

-----------------------------------------------------------------------------
(* The inductive invariant *)

\* The inductive invariant holds initially.
LEMMA InitIInv == Init => IInv
<1> SUFFICES ASSUME Init PROVE IInv
  OBVIOUS
<1>1. << >> \in Seq({Waiting, Done, Deleted}) /\ Len(<< >>) = 0
  BY EmptySeq
<1>2. TypeOK /\ Numbered /\ RowBeforePut /\ KeyHasRow
  BY <1>1 DEF Init, TypeOK, PC, Numbered, RowBeforePut, KeyHasRow
<1>3. ASSUME ChecksWork PROVE CreatorsFit
  BY <1>1, <1>3, CreatorsFinite DEF Init, CreatorsFit, ChecksWork
<1> QED BY <1>2, <1>3 DEF IInv

\* A step that leaves the rows alone, brings nobody to "create" or "put" and
\* adds no key keeps the parts about rows.
LEMMA RowsUntouched ==
    ASSUME IInv, NEW r \in Request, rows' = rows, jobKey' \subseteq jobKey,
           NEW p \in PC \ {"create", "put"}, pc' = [pc EXCEPT ![r] = p],
           name' = name \/ (pc[r] = "idle" /\ \E n \in Name : name' = [name EXCEPT ![r] = n])
    PROVE  RowBeforePut' /\ KeyHasRow' /\ (ChecksWork => CreatorsFit')
<1>1. TypeOK
  BY DEF IInv
<1>2. RowBeforePut'
  BY <1>1 DEF IInv, RowBeforePut, TypeOK
<1>3. KeyHasRow'
  BY <1>1 DEF IInv, KeyHasRow
<1>4. ASSUME ChecksWork PROVE CreatorsFit'
  <2> SUFFICES ASSUME NEW n \in Name
               PROVE  Len(rows[n]) + Cardinality(Creators(n)') <= Cardinality(Request)
    BY DEF CreatorsFit
  <2>1. Creators(n)' \subseteq Creators(n)
    BY <1>1 DEF Creators, TypeOK
  <2>2. /\ Cardinality(Creators(n)') <= Cardinality(Creators(n))
        /\ Cardinality(Creators(n)') \in Nat
    BY <1>4, <2>1, CreatorsFinite, FS_Subset, FS_CardinalityType DEF ChecksWork
  <2>3. Len(rows[n]) \in Nat
    BY <1>1, LenProperties DEF TypeOK
  <2> QED BY <1>4, <2>2, <2>3, CreatorsFinite DEF IInv, CreatorsFit, ChecksWork
<1> QED BY <1>2, <1>3, <1>4

\* The arrival of a request.
LEMMA ArriveKeepsIInv == ASSUME IInv, NEW r \in Request, Arrive(r) PROVE IInv'
<1>1. /\ pc[r] = "idle" /\ served < MaxRequests /\ served' = served + 1
      /\ serial' = [serial EXCEPT ![r] = served']
      /\ UNCHANGED <<rows, jobKey, killKey, alive>>
  BY DEF Arrive
<1>2. PICK n \in Name : name' = [name EXCEPT ![r] = n]
  BY DEF Arrive
<1>3. PICK p \in {"check", "delete", "grant"} : pc' = [pc EXCEPT ![r] = p]
  BY DEF Arrive, Goto
<1>4. TypeOK
  BY DEF IInv
<1>5. served \in Nat /\ served' \in 0..MaxRequests /\ served' # 0
  BY <1>1, <1>4 DEF TypeOK
<1>6. serial' \in [Request -> 0..served']
  <2>1. \A q \in Request : serial[q] \in 0..served'
    BY <1>1, <1>4, <1>5 DEF TypeOK
  <2>2. serial \in [Request -> 0..served']
    BY <1>4, <2>1 DEF TypeOK
  <2> QED BY <1>1, <1>5, <2>2
<1>7. TypeOK'
  BY <1>1, <1>2, <1>3, <1>4, <1>5, <1>6 DEF TypeOK, PC
<1>8. Numbered'
  BY <1>1, <1>3, <1>4, <1>5 DEF IInv, Numbered, TypeOK
<1>9. RowBeforePut' /\ KeyHasRow' /\ (ChecksWork => CreatorsFit')
  <2>1. p \in PC \ {"create", "put"}
    BY DEF PC
  <2> QED BY <2>1, <1>1, <1>2, <1>3, RowsUntouched
<1> QED BY <1>7, <1>8, <1>9 DEF IInv, ChecksWork

\* The check: it lets a request pass only while there is no row, unless the
\* query fails.
LEMMA CheckKeepsIInv == ASSUME IInv, NEW r \in Request, Check(r) PROVE IInv'
<1>1. /\ pc[r] = "check"
      /\ UNCHANGED <<name, serial, rows, jobKey, killKey, alive, served>>
      /\ \/ pc' = [pc EXCEPT ![r] = "idle"]
         \/ /\ rows[name[r]] = << >> \/ "check" \in MayFail
            /\ pc' = [pc EXCEPT ![r] = "create"]
  BY DEF Check, Exists, Goto
<1>2. TypeOK
  BY DEF IInv
<1>3. TypeOK' /\ Numbered' /\ RowBeforePut' /\ KeyHasRow'
  BY <1>1, <1>2 DEF IInv, TypeOK, PC, Numbered, RowBeforePut, KeyHasRow
<1>4. ASSUME ChecksWork PROVE CreatorsFit'
  <2>1. CASE pc' = [pc EXCEPT ![r] = "idle"]
    <3>1. "idle" \in PC \ {"create", "put"}
      BY DEF PC
    <3> QED BY <1>1, <1>4, <2>1, <3>1, RowsUntouched
  <2>2. CASE rows[name[r]] = << >> /\ pc' = [pc EXCEPT ![r] = "create"]
    <3> SUFFICES ASSUME NEW n \in Name
                 PROVE  Len(rows[n]) + Cardinality(Creators(n)') <= Cardinality(Request)
      BY <1>1 DEF CreatorsFit
    <3>1. CASE n = name[r]
      <4>1. Creators(n)' \subseteq Request
        BY DEF Creators
      <4>2. Cardinality(Creators(n)') <= Cardinality(Request)
        BY <1>4, <4>1, FS_Subset DEF ChecksWork
      <4>3. Cardinality(Creators(n)') \in Nat
        BY <1>4, <4>1, FS_Subset, FS_CardinalityType DEF ChecksWork
      <4>4. Len(rows[n]) = 0
        BY <2>2, <3>1, EmptySeq
      <4> QED BY <4>2, <4>3, <4>4
    <3>2. CASE n # name[r]
      <4>1. Creators(n)' = Creators(n)
        BY <1>1, <1>2, <2>2, <3>2 DEF Creators, TypeOK
      <4> QED BY <1>4, <4>1 DEF IInv, CreatorsFit
    <3> QED BY <3>1, <3>2
  <2> QED BY <1>1, <1>4, <2>1, <2>2 DEF ChecksWork
<1> QED BY <1>3, <1>4 DEF IInv, ChecksWork

\* The creation of a row: one row more, one creator less.
LEMMA CreateRowKeepsIInv == ASSUME IInv, NEW r \in Request, CreateRow(r) PROVE IInv'
<1>1. /\ pc[r] = "create"
      /\ UNCHANGED <<name, serial, jobKey, killKey, alive, served>>
      /\ \/ /\ rows' = [rows EXCEPT ![name[r]] = Append(@, Waiting)]
            /\ pc' = [pc EXCEPT ![r] = "put"]
         \/ pc' = [pc EXCEPT ![r] = "idle"] /\ rows' = rows
  BY DEF CreateRow, Goto
<1>2. TypeOK /\ name[r] \in Name
  BY DEF IInv, TypeOK
<1>3. CASE pc' = [pc EXCEPT ![r] = "idle"] /\ rows' = rows
  <2>1. "idle" \in PC \ {"create", "put"}
    BY DEF PC
  <2>2. RowBeforePut' /\ KeyHasRow' /\ (ChecksWork => CreatorsFit')
    BY <1>1, <1>3, <2>1, RowsUntouched
  <2>3. TypeOK' /\ Numbered'
    BY <1>1, <1>2, <1>3 DEF IInv, TypeOK, PC, Numbered
  <2> QED BY <2>2, <2>3 DEF IInv, ChecksWork
<1>4. CASE /\ rows' = [rows EXCEPT ![name[r]] = Append(@, Waiting)]
           /\ pc' = [pc EXCEPT ![r] = "put"]
  <2> DEFINE n == name[r]
             new == Append(rows[n], Waiting)
             T == {Waiting, Done, Deleted}
  <2>1. rows[n] \in Seq(T) /\ Len(rows[n]) \in Nat
    BY <1>2, LenProperties DEF TypeOK
  <2>2. new \in Seq(T) /\ Len(new) = Len(rows[n]) + 1 /\ new # << >>
    BY <2>1, AppendProperties
  <2>3. rows' = [rows EXCEPT ![n] = new]
    BY <1>4
  <2> HIDE DEF new
  <2>4. rows' \in [Name -> Seq(T)] /\ \A k \in Name : rows'[k] = IF k = n THEN new ELSE rows[k]
    BY <1>2, <2>2, <2>3 DEF TypeOK
  <2>5. TypeOK' /\ Numbered'
    BY <1>1, <1>2, <1>4, <2>4 DEF IInv, TypeOK, PC, Numbered
  <2>6. RowBeforePut' /\ KeyHasRow'
    BY <1>1, <1>2, <1>4, <2>2, <2>4 DEF IInv, TypeOK, RowBeforePut, KeyHasRow
  <2>7. ASSUME ChecksWork PROVE CreatorsFit'
    <3> SUFFICES ASSUME NEW k \in Name
                 PROVE  Len(rows'[k]) + Cardinality(Creators(k)') <= Cardinality(Request)
      BY DEF CreatorsFit
    <3>1. Len(rows[k]) + Cardinality(Creators(k)) <= Cardinality(Request)
      BY <2>7 DEF IInv, CreatorsFit
    <3>2. CASE k = n
      <4>1. Creators(k)' = Creators(k) \ {r} /\ r \in Creators(k)
        BY <1>1, <1>2, <1>4, <3>2 DEF Creators, TypeOK
      <4>2. IsFiniteSet(Creators(k)) /\ Cardinality(Request) \in Nat
        BY <2>7, CreatorsFinite DEF ChecksWork
      <4>3. Cardinality(Creators(k)') = Cardinality(Creators(k)) - 1
            /\ Cardinality(Creators(k)) \in Nat
        BY <4>1, <4>2, FewerCreators
      <4> QED BY <2>1, <2>2, <2>4, <3>1, <3>2, <4>2, <4>3
    <3>3. CASE k # n
      <4>1. Creators(k)' = Creators(k)
        BY <1>1, <1>2, <1>4, <3>3 DEF Creators, TypeOK
      <4> QED BY <2>4, <3>1, <3>3, <4>1
    <3> QED BY <3>2, <3>3
  <2> QED BY <2>5, <2>6, <2>7 DEF IInv, ChecksWork
<1> QED BY <1>1, <1>3, <1>4

\* The key is put for a request that has created a row.
LEMMA PutKeyKeepsIInv == ASSUME IInv, NEW r \in Request, PutKey(r) PROVE IInv'
<1>1. /\ pc[r] = "put" /\ pc' = [pc EXCEPT ![r] = "idle"]
      /\ jobKey' \in {jobKey, jobKey \cup {name[r]}}
      /\ UNCHANGED <<name, serial, rows, killKey, alive, served>>
  BY DEF PutKey, Goto
<1>2. TypeOK
  BY DEF IInv
<1>3. TypeOK' /\ Numbered' /\ RowBeforePut' /\ KeyHasRow'
  BY <1>1, <1>2 DEF IInv, TypeOK, PC, Numbered, RowBeforePut, KeyHasRow
<1>4. ASSUME ChecksWork PROVE CreatorsFit'
  <2>1. \A n \in Name : Creators(n)' = Creators(n)
    BY <1>1, <1>2 DEF Creators, TypeOK
  <2> QED BY <1>1, <1>4, <2>1 DEF IInv, CreatorsFit
<1> QED BY <1>3, <1>4 DEF IInv, ChecksWork

\* A kill, and the deletion of a key, do not touch the rows.
LEMMA KillKeepsIInv ==
    ASSUME IInv, NEW r \in Request, DeleteKey(r) \/ GrantKill(r) \/ PutKillKey(r)
    PROVE  IInv'
<1>1. TypeOK /\ Numbered
  BY DEF IInv
<1>2. UNCHANGED <<name, serial, rows, served>> /\ pc[r] # "idle"
  BY DEF DeleteKey, GrantKill, PutKillKey
<1>3. PICK p \in {"idle", "mark", "kill"} : pc' = [pc EXCEPT ![r] = p]
  BY DEF DeleteKey, GrantKill, PutKillKey, Goto
<1>4. jobKey' \subseteq jobKey
  BY DEF DeleteKey, GrantKill, PutKillKey
<1>5. serial[r] \in 1..served
  BY <1>1, <1>2 DEF TypeOK, Numbered
<1>6. alive \subseteq alive' /\ alive' \subseteq 1..served
  BY <1>1, <1>5 DEF DeleteKey, GrantKill, PutKillKey, TypeOK
<1>7. killKey' \in [Name -> {NoLease} \cup alive']
  <2>1. killKey \in [Name -> {NoLease} \cup alive']
    BY <1>1, <1>6 DEF TypeOK
  <2>2. killKey' = killKey \/ (serial[r] \in alive /\ killKey' = [killKey EXCEPT ![name[r]] = serial[r]])
    BY DEF DeleteKey, GrantKill, PutKillKey
  <2> QED BY <1>6, <2>1, <2>2
<1>8. TypeOK' /\ Numbered'
  BY <1>1, <1>2, <1>3, <1>4, <1>6, <1>7 DEF TypeOK, PC, Numbered
<1>9. RowBeforePut' /\ KeyHasRow' /\ (ChecksWork => CreatorsFit')
  <2>1. p \in PC \ {"create", "put"}
    BY DEF PC
  <2> QED BY <2>1, <1>2, <1>3, <1>4, RowsUntouched
<1> QED BY <1>8, <1>9 DEF IInv, ChecksWork

\* A marked row stays a row: MarkDeleted, and the worker at the end of a job.
LEMMA MarkKeepsIInv ==
    ASSUME IInv,
           NEW n \in Name, NEW st \in {Waiting, Done, Deleted}, rows' \in {rows, Marked(n, st)},
           pc' = pc \/ \E r \in Request : pc' = [pc EXCEPT ![r] = "idle"],
           jobKey' \subseteq jobKey,
           UNCHANGED <<name, serial, killKey, alive, served>>
    PROVE  IInv'
<1>1. TypeOK
  BY DEF IInv
<1>2. /\ rows' \in [Name -> Seq({Waiting, Done, Deleted})]
      /\ \A k \in Name : Len(rows'[k]) = Len(rows[k])
      /\ \A k \in Name : rows[k] # << >> => rows'[k] # << >>
  <2>1. CASE rows' = rows
    BY <1>1, <2>1 DEF TypeOK
  <2>2. CASE rows' = Marked(n, st)
    BY <1>1, <2>2, MarkedRows
  <2> QED BY <2>1, <2>2
<1>3. TypeOK' /\ Numbered'
  BY <1>1, <1>2 DEF IInv, TypeOK, PC, Numbered
<1>4. RowBeforePut' /\ KeyHasRow'
  BY <1>1, <1>2 DEF IInv, TypeOK, RowBeforePut, KeyHasRow
<1>5. ASSUME ChecksWork, NEW k \in Name
      PROVE  Len(rows'[k]) + Cardinality(Creators(k)') <= Cardinality(Request)
  <2>1. Creators(k)' \subseteq Creators(k)
    BY <1>1 DEF Creators, TypeOK
  <2>2. /\ Cardinality(Creators(k)') <= Cardinality(Creators(k))
        /\ Cardinality(Creators(k)') \in Nat
    BY <1>5, <2>1, CreatorsFinite, FS_Subset, FS_CardinalityType DEF ChecksWork
  <2>3. Len(rows[k]) \in Nat
    BY <1>1, LenProperties DEF TypeOK
  <2> QED BY <1>2, <1>5, <2>2, <2>3, CreatorsFinite DEF IInv, CreatorsFit, ChecksWork
<1> QED BY <1>3, <1>4, <1>5 DEF IInv, CreatorsFit, ChecksWork

\* Every step keeps the inductive invariant.
LEMMA NextIInv == IInv /\ [Next]_vars => IInv'
<1> SUFFICES ASSUME IInv, [Next]_vars PROVE IInv'
  OBVIOUS
<1>1. ASSUME NEW r \in Request, MarkDeleted(r) PROVE IInv'
  <2>1. /\ pc' = [pc EXCEPT ![r] = "idle"] /\ jobKey' = jobKey
        /\ rows' \in {rows, Marked(name[r], Deleted)}
        /\ UNCHANGED <<name, serial, killKey, alive, served>>
    BY <1>1 DEF MarkDeleted, Goto
  <2>2. name[r] \in Name
    BY DEF IInv, TypeOK
  <2> QED BY <2>1, <2>2, MarkKeepsIInv
<1>2. ASSUME NEW n \in Name, WorkerFinishes(n) PROVE IInv'
  <2>1. /\ pc' = pc /\ jobKey' \subseteq jobKey /\ rows' \in {rows, Marked(n, Done)}
        /\ UNCHANGED <<name, serial, killKey, alive, served>>
    BY <1>2 DEF WorkerFinishes
  <2> QED BY <2>1, MarkKeepsIInv
<1>3. ASSUME NEW l \in alive, Expire(l) PROVE IInv'
  <2>1. /\ alive' = alive \ {l}
        /\ killKey' = [n \in Name |-> IF killKey[n] = l THEN NoLease ELSE killKey[n]]
        /\ UNCHANGED <<pc, name, serial, rows, jobKey, served>>
    BY <1>3 DEF Expire
  <2>2. \A n \in Name : Creators(n)' = Creators(n)
    BY <2>1 DEF Creators
  <2> QED BY <2>1, <2>2
          DEF IInv, TypeOK, Numbered, RowBeforePut, KeyHasRow, CreatorsFit, ChecksWork
<1>4. CASE UNCHANGED vars
  <2>1. \A n \in Name : Creators(n)' = Creators(n)
    BY <1>4 DEF Creators, vars
  <2> QED BY <1>4, <2>1
          DEF vars, IInv, TypeOK, Numbered, RowBeforePut, KeyHasRow, CreatorsFit, ChecksWork
<1> QED BY <1>1, <1>2, <1>3, <1>4, ArriveKeepsIInv, CheckKeepsIInv, CreateRowKeepsIInv,
           PutKeyKeepsIInv, KillKeepsIInv DEF Next

-----------------------------------------------------------------------------
(* The theorems *)

\* The inductive invariant holds in every reachable state (all handlers).
THEOREM Inductive == Spec => []IInv
<1> QED BY InitIInv, NextIInv, PTL DEF Spec

\* Type correctness of the requests, MySQL and etcd.
THEOREM TypeCorrect == Spec => []TypeOK
<1>1. IInv => TypeOK
  BY DEF IInv
<1> QED BY <1>1, Inductive, PTL

\* A job with a key has a row, whatever calls fail (JobAdd, controller/job.go).
THEOREM KeyHasRowHolds == Spec => []KeyHasRow
<1>1. IInv => KeyHasRow
  BY DEF IInv
<1> QED BY <1>1, Inductive, PTL

\* While the query for an existing row succeeds, a name gets no more rows
\* than there are concurrent requests (JobAdd, controller/job.go).
THEOREM RowsPerNameHolds == ASSUME ChecksWork PROVE Spec => []RowsPerName
<1>1. IInv => RowsPerName
  <2> SUFFICES ASSUME IInv, NEW n \in Name PROVE Len(rows[n]) <= Cardinality(Request)
    BY DEF RowsPerName
  <2>1. Len(rows[n]) + Cardinality(Creators(n)) <= Cardinality(Request)
    BY DEF IInv, CreatorsFit
  <2>2. Len(rows[n]) \in Nat
    BY LenProperties DEF IInv, TypeOK
  <2> QED BY <2>1, <2>2, CreatorsFinite DEF ChecksWork
<1> QED BY <1>1, Inductive, PTL

=============================================================================
