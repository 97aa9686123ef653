---------------------------- MODULE LogMgrProofs -----------------------------
(***************************************************************************)
(* What the run of LogMgr shows on seven logs, proved for any sizes of the *)
(* batches and channels and any number of logs: the types, that the        *)
(* current batch always has a commit ahead of it, and that only full       *)
(* batches lose logs while inserts succeed.                                *)
(*                                                                         *)
(* PartialBatchesKept is not inductive: that the commit of a batch is not  *)
(* refused for its primary keys needs that none of its logs is stored yet, *)
(* hence that queued logs are new (QueueFresh).                            *)
(***************************************************************************)
EXTENDS LogMgr, TLAPS, SequenceTheorems

\* The current batch has room.
CurrentOpen == logBatch # Nil => Len(batches[logBatch]) < LogBatchSize

\* The logs that were ever put into a batch.
BatchedLogs == UNION {LogsOf(b) : b \in Batch}

\* A queued log is in the queue once, and nowhere else.
QueueFresh ==
    /\ \A i \in DOMAIN logChan : logChan[i] \notin stored \cup BatchedLogs
    /\ \A i, j \in DOMAIN logChan : logChan[i] = logChan[j] => i = j

\* No log of the current batch is stored.
CurrentNotStored == CurrentLogs \cap stored = {}

IInv ==
    /\ TypeOK
    /\ CurrentOpen
    /\ QueueFresh
    /\ CurrentNotStored
    /\ CurrentBatchTimed
    /\ OneCommitPerBatch
    /\ ~InsertMayFail => PartialBatchesKept

USE LogAssumption DEF Nil

-----------------------------------------------------------------------------
(* The helpers of writeLoop *)

\* The head of the log queue is a log, and the rest are the other ones.
LEMMA QueueHead ==
    ASSUME TypeOK, logChan # << >>
    PROVE  /\ Head(logChan) = logChan[1] /\ 1 \in DOMAIN logChan
           /\ Head(logChan) \in Log
           /\ Tail(logChan) \in Seq(Log)
           /\ Len(Tail(logChan)) = Len(logChan) - 1
           /\ Len(logChan) \in Nat \ {0}
           /\ DOMAIN logChan = 1..Len(logChan)
           /\ DOMAIN Tail(logChan) = 1..(Len(logChan) - 1)
           /\ \A i \in 1..(Len(logChan) - 1) : Tail(logChan)[i] = logChan[i + 1]
BY HeadTailProperties, LenProperties, EmptySeq DEF TypeOK

\* The batches and timers are indexed alike, and logBatch is one of them.
LEMMA BatchTypes ==
    ASSUME TypeOK
    PROVE  /\ Len(batches) \in Nat
           /\ Batch = 1..Len(batches)
           /\ \A b \in Batch : /\ batches[b] \in Seq(Log)
                               /\ Len(batches[b]) \in Nat
                               /\ DOMAIN batches[b] = 1..Len(batches[b])
           /\ timers \in Seq(TimerState) /\ Len(timers) = Len(batches)
           /\ logBatch # Nil => logBatch \in 1..Len(batches)
<1>1. Len(batches) \in Nat /\ Batch = 1..Len(batches)
  BY LenProperties DEF TypeOK, Batch
<1>2. \A b \in Batch : batches[b] \in Seq(Log)
  BY <1>1, ElementOfSeq DEF TypeOK
<1>3. \A b \in Batch : Len(batches[b]) \in Nat /\ DOMAIN batches[b] = 1..Len(batches[b])
  BY <1>2, LenProperties
<1>4. timers \in Seq(TimerState) /\ Len(timers) = Len(batches)
  BY DEF TypeOK
<1>5. logBatch # Nil => logBatch \in 1..Len(batches)
  BY <1>1 DEF TypeOK
<1> QED BY <1>1, <1>2, <1>3, <1>4, <1>5

\* The batches after a log was taken: only the current one has changed, by
\* that log, and it is not overfull.
LEMMA CollectedBatches ==
    ASSUME TypeOK, CurrentOpen, NEW l \in Log
    PROVE  /\ Collected(l) \in Seq(Seq(Log))
           /\ Len(Collected(l)) \in Nat /\ Len(Collected(l)) >= Len(batches)
           /\ DOMAIN Collected(l) = 1..Len(Collected(l))
           /\ CurrentBatch \in 1..Len(Collected(l))
           /\ \A c \in 1..Len(Collected(l)) :
                 c # CurrentBatch => c \in Batch /\ Collected(l)[c] = batches[c]
           /\ Len(Collected(l)[CurrentBatch]) \in 1..LogBatchSize
           /\ {Collected(l)[CurrentBatch][i] : i \in DOMAIN Collected(l)[CurrentBatch]}
                 = CurrentLogs \cup {l}
<1> DEFINE bs == Collected(l)
           b  == CurrentBatch
<1>1. CASE logBatch = Nil
  <2>1. bs = Append(batches, <<l>>) /\ b = Len(batches) + 1
    BY <1>1 DEF Collected, CurrentBatch
  <2>2. <<l>> \in Seq(Log) /\ Len(<<l>>) = 1 /\ DOMAIN <<l>> = 1..1 /\ <<l>>[1] = l
    OBVIOUS
  <2>3. /\ bs \in Seq(Seq(Log)) /\ Len(bs) = Len(batches) + 1
        /\ bs[b] = <<l>>
        /\ \A c \in 1..Len(batches) : bs[c] = batches[c]
    BY <2>1, <2>2, AppendProperties, BatchTypes DEF TypeOK
  <2>4. DOMAIN bs = 1..Len(bs)
    BY <2>3, LenProperties
  <2>5. {bs[b][i] : i \in DOMAIN bs[b]} = CurrentLogs \cup {l}
    BY <1>1, <2>2, <2>3 DEF CurrentLogs
  <2> HIDE DEF bs, b
  <2>6. b \in 1..Len(bs) /\ Len(bs) >= Len(batches) /\ Len(bs) \in Nat
    BY <2>1, <2>3, BatchTypes
  <2>7. \A c \in 1..Len(bs) : c # b => c \in Batch /\ bs[c] = batches[c]
    BY <2>1, <2>3, BatchTypes
  <2>8. Len(bs[b]) \in 1..LogBatchSize
    BY <2>2, <2>3
  <2> QED BY <2>3, <2>4, <2>5, <2>6, <2>7, <2>8 DEF bs, b
<1>2. CASE logBatch # Nil
  <2>1. bs = [batches EXCEPT ![logBatch] = Append(@, l)] /\ b = logBatch
    BY <1>2 DEF Collected, CurrentBatch
  <2>2. /\ logBatch \in 1..Len(batches)
        /\ batches[logBatch] \in Seq(Log)
        /\ Len(batches[logBatch]) \in Nat /\ Len(batches[logBatch]) < LogBatchSize
        /\ DOMAIN batches[logBatch] = 1..Len(batches[logBatch])
    BY <1>2, BatchTypes DEF CurrentOpen
  <2> DEFINE new == Append(batches[logBatch], l)
  <2>3. /\ new \in Seq(Log) /\ Len(new) = Len(batches[logBatch]) + 1
        /\ DOMAIN new = 1..(Len(batches[logBatch]) + 1)
        /\ new[Len(batches[logBatch]) + 1] = l
        /\ \A i \in 1..Len(batches[logBatch]) : new[i] = batches[logBatch][i]
    BY <2>2, AppendProperties, LenProperties
  <2> HIDE DEF new
  <2>4. bs = [batches EXCEPT ![logBatch] = new]
    BY <2>1 DEF new
  <2>5. /\ bs \in Seq(Seq(Log)) /\ Len(bs) = Len(batches)
        /\ \A c \in 1..Len(batches) : bs[c] = IF c = logBatch THEN new ELSE batches[c]
    BY <2>2, <2>3, <2>4, ExceptSeq DEF TypeOK
  <2>6. DOMAIN bs = 1..Len(bs)
    BY <2>5, LenProperties
  <2>7. bs[b] = new
    BY <2>1, <2>2, <2>5
  <2>8. {new[i] : i \in DOMAIN new} = CurrentLogs \cup {l}
    BY <1>2, <2>2, <2>3 DEF CurrentLogs, LogsOf
  <2> HIDE DEF bs, b
  <2>9. Len(bs[b]) \in 1..LogBatchSize
    BY <2>2, <2>3, <2>7
  <2>10. \A c \in 1..Len(bs) : c # b => c \in Batch /\ bs[c] = batches[c]
    BY <2>1, <2>5, BatchTypes
  <2> QED BY <2>1, <2>2, <2>5, <2>6, <2>7, <2>8, <2>9, <2>10, BatchTypes DEF bs, b
<1> QED BY <1>1, <1>2

\* The timers after a log was taken: a new batch has a running timer, the
\* others keep theirs.
LEMMA ArmedTimers ==
    ASSUME TypeOK, NEW l \in Log
    PROVE  /\ Armed \in Seq(TimerState)
           /\ Len(Armed) = Len(Collected(l))
           /\ CurrentBatch \in 1..Len(Armed)
           /\ Armed[CurrentBatch] = IF logBatch = Nil THEN "armed" ELSE timers[logBatch]
           /\ \A c \in Batch : Armed[c] = timers[c]
<1>1. CASE logBatch = Nil
  <2>1. "armed" \in TimerState
    BY DEF TimerState
  <2>2. Armed = Append(timers, "armed") /\ CurrentBatch = Len(batches) + 1
    BY <1>1 DEF Armed, CurrentBatch
  <2>3. /\ Armed \in Seq(TimerState) /\ Len(Armed) = Len(timers) + 1
        /\ Armed[Len(timers) + 1] = "armed"
        /\ \A c \in 1..Len(timers) : Armed[c] = timers[c]
    BY <2>1, <2>2, AppendProperties DEF TypeOK
  <2>4. Collected(l) = Append(batches, <<l>>) /\ <<l>> \in Seq(Log)
    BY <1>1 DEF Collected
  <2>5. Len(Collected(l)) = Len(batches) + 1
    BY <2>4, AppendProperties DEF TypeOK
  <2> QED BY <1>1, <2>2, <2>3, <2>5, BatchTypes
<1>2. CASE logBatch # Nil
  <2>1. Armed = timers /\ CurrentBatch = logBatch
    BY <1>2 DEF Armed, CurrentBatch
  <2>2. Len(Collected(l)) = Len(batches)
    BY <1>2, ExceptSeq, BatchTypes, AppendProperties DEF Collected, TypeOK
  <2> QED BY <1>2, <2>1, <2>2, BatchTypes
<1> QED BY <1>1, <1>2

\* An insert stores all of its logs or none; all of them if none is stored
\* and MySQL does not fail.
LEMMA InsertStores ==
    ASSUME NEW b, NEW logs, Insert(b, logs), panicked \in BOOLEAN
    PROVE  /\ stored' \in {stored, stored \cup logs}
           /\ panicked' \in BOOLEAN
           /\ b # Nil /\ logs \cap stored = {} /\ ~InsertMayFail => stored' = stored \cup logs
BY DEF Insert

-----------------------------------------------------------------------------
(* The inductive invariant *)

\* The inductive invariant holds initially.
LEMMA InitIInv == Init => IInv
<1> SUFFICES ASSUME Init PROVE IInv
  OBVIOUS
<1>1. TypeOK
  <2>1. Len(<< >>) = 0 /\ << >> \in Seq(Log) /\ << >> \in Seq(Seq(Log))
        /\ << >> \in Seq(TimerState) /\ << >> \in Seq(Batch)
    BY EmptySeq
  <2>2. Batch = {}
    BY DEF Init, Batch
  <2>3. /\ logChan \in Seq(Log) /\ Len(logChan) <= LogChanCap
        /\ autoCommitChan \in Seq(Batch) /\ Len(autoCommitChan) <= AutoCommitCap
        /\ batches \in Seq(Seq(Log))
        /\ timers \in Seq(TimerState) /\ Len(timers) = Len(batches)
    BY <2>1 DEF Init
  <2>4. /\ dropped \subseteq Log /\ stored \subseteq Log
        /\ panicked \in BOOLEAN
    BY DEF Init
  <2>6. appended \in 0..MaxLogs
    BY DEF Init, LogAssumption
  <2>5. {logBatch, timeoutBatch} \subseteq {Nil} \cup Batch
    BY DEF Init
  <2> QED BY <2>2, <2>3, <2>4, <2>5, <2>6 DEF TypeOK
<1>2. DOMAIN logChan = {}
  BY DEF Init
<1>3. Log = {} /\ CurrentLogs = {}
  BY DEF Init, Log, CurrentLogs
<1> QED BY <1>1, <1>2, <1>3
        DEF Init, IInv, CurrentOpen, QueueFresh, CurrentNotStored, CurrentBatchTimed,
            OneCommitPerBatch, PartialBatchesKept

\* Append keeps the inductive invariant: a log that was not there before is
\* queued or dropped.
LEMMA EnqueueKeepsIInv == ASSUME IInv, Enqueue PROVE IInv'
<1>0. /\ appended' = appended + 1 /\ appended < MaxLogs
      /\ UNCHANGED <<batches, timers, logBatch, timeoutBatch, autoCommitChan, stored, panicked>>
      /\ \/ Len(logChan) < LogChanCap /\ logChan' = Append(logChan, appended') /\ dropped' = dropped
         \/ /\ Len(logChan) = LogChanCap
            /\ logChan' = logChan /\ dropped' = dropped \cup {appended'}
  BY DEF Enqueue
<1>1. TypeOK
  BY DEF IInv
<1>2. appended \in Nat /\ appended' = appended + 1 /\ appended' <= MaxLogs
  BY <1>0, <1>1 DEF TypeOK
<1>3. Log \subseteq Log' /\ Log' = Log \cup {appended'} /\ appended' \notin Log
  BY <1>2 DEF Log
<1>4. /\ Len(logChan) \in Nat /\ DOMAIN logChan = 1..Len(logChan)
      /\ logChan \in Seq(Log')
      /\ \A i \in 1..Len(logChan) : logChan[i] \in Log
  BY <1>1, <1>3, LenProperties, ElementOfSeq, SeqMonotonic DEF TypeOK
<1>5. /\ logChan' \in Seq(Log') /\ Len(logChan') <= LogChanCap
      /\ \/ logChan' = logChan /\ dropped' = dropped \cup {appended'}
         \/ /\ dropped' = dropped
            /\ DOMAIN logChan' = 1..(Len(logChan) + 1)
            /\ logChan'[Len(logChan) + 1] = appended'
            /\ \A i \in 1..Len(logChan) : logChan'[i] = logChan[i]
  <2>1. CASE Len(logChan) < LogChanCap /\ logChan' = Append(logChan, appended')
             /\ dropped' = dropped
    <3>1. appended' \in Log'
      BY <1>3
    <3>2. /\ logChan' \in Seq(Log') /\ Len(logChan') = Len(logChan) + 1
          /\ logChan'[Len(logChan) + 1] = appended'
          /\ \A i \in 1..Len(logChan) : logChan'[i] = logChan[i]
      BY <2>1, <3>1, <1>4, AppendProperties
    <3>3. DOMAIN logChan' = 1..(Len(logChan) + 1)
      BY <3>2, LenProperties
    <3> QED BY <2>1, <3>2, <3>3, <1>4
  <2>2. CASE Len(logChan) = LogChanCap /\ dropped' = dropped \cup {appended'}
             /\ logChan' = logChan
    BY <2>2, <1>4
  <2> QED BY <1>0, <2>1, <2>2
<1>6. Batch' = Batch /\ BatchedLogs' = BatchedLogs /\ BatchedLogs \subseteq Log
  <2>1. \A b \in Batch : \A i \in DOMAIN batches[b] : batches[b][i] \in Log
    BY <1>1, BatchTypes, ElementOfSeq
  <2> QED BY <2>1, <1>0 DEF Batch, LogsOf, BatchedLogs
<1>7. TypeOK'
  <2>1. batches \in Seq(Seq(Log'))
    <3>1. Seq(Log) \subseteq Seq(Log')
      BY <1>3, SeqMonotonic
    <3> QED BY <1>0, <3>1, <1>1, SeqMonotonic DEF TypeOK
  <2>2. dropped' \subseteq Log' /\ stored' \subseteq Log'
    BY <1>0, <1>1, <1>3, <1>5 DEF TypeOK
  <2> QED BY <2>1, <2>2, <1>0, <1>1, <1>2, <1>3, <1>5, <1>6 DEF TypeOK
<1>8. QueueFresh'
  <2>1. appended' \notin stored \cup BatchedLogs
    BY <1>1, <1>3, <1>6 DEF TypeOK
  <2>2. \A i \in 1..Len(logChan) : logChan[i] # appended'
    BY <1>3, <1>4
  <2>3. CASE logChan' = logChan
    BY <2>3, <1>0, <1>6 DEF IInv, QueueFresh
  <2>4. CASE /\ DOMAIN logChan' = 1..(Len(logChan) + 1)
             /\ logChan'[Len(logChan) + 1] = appended'
             /\ \A i \in 1..Len(logChan) : logChan'[i] = logChan[i]
    <3> DEFINE n == Len(logChan)
               q == logChan'
    <3>1. DOMAIN q = 1..n \cup {n + 1} /\ n \in Nat
      BY <2>4, <1>4
    <3>2. \A i \in 1..n : logChan[i] \notin stored \cup BatchedLogs
      BY <1>4 DEF IInv, QueueFresh
    <3>6. \A i, j \in 1..n : logChan[i] = logChan[j] => i = j
      BY <1>4 DEF IInv, QueueFresh
    <3>3. /\ q[n + 1] = appended'
          /\ \A i \in 1..n : q[i] = logChan[i] /\ logChan[i] # appended'
      BY <2>2, <2>4
    <3> HIDE DEF n, q
    <3>4. \A i \in DOMAIN q : q[i] \notin stored \cup BatchedLogs
      BY <2>1, <3>1, <3>2, <3>3
    <3>5. \A i, j \in DOMAIN q : q[i] = q[j] => i = j
      BY <3>1, <3>6, <3>3
    <3> QED BY <3>4, <3>5, <1>0, <1>6 DEF QueueFresh, q
  <2> QED BY <2>3, <2>4, <1>5
<1>9. /\ CurrentOpen' /\ CurrentBatchTimed' /\ OneCommitPerBatch'
      /\ CurrentLogs' = CurrentLogs /\ CurrentNotStored'
  BY <1>0, <1>1, <1>6 DEF IInv, TypeOK, CurrentOpen, CurrentBatchTimed, Pending, CurrentLogs, LogsOf,
                    CurrentNotStored, OneCommitPerBatch
<1>10. ~InsertMayFail => PartialBatchesKept'
  <2>1. FullLogs' = FullLogs
    BY <1>0 DEF FullLogs, Batch, LogsOf
  <2>2. QueuedLogs \subseteq QueuedLogs'
    BY <1>4, <1>5 DEF QueuedLogs
  <2>3. appended' \in dropped' \cup QueuedLogs'
    <3>1. Len(logChan) + 1 \in 1..(Len(logChan) + 1)
      BY <1>4
    <3> QED BY <3>1, <1>5 DEF QueuedLogs
  <2> QED BY <2>1, <2>2, <2>3, <1>0, <1>3, <1>5, <1>9 DEF IInv, PartialBatchesKept
<1> QED BY <1>7, <1>8, <1>9, <1>10 DEF IInv

\* A timer that goes off, or sends its batch, keeps the inductive invariant:
\* the batch is still on its way to its commit.
LEMMA TimerStepKeepsIInv ==
    ASSUME IInv, NEW b \in Batch, TimerFires(b) \/ SendBatch(b)
    PROVE  IInv'
<1>1. /\ UNCHANGED <<appended, dropped, logChan, batches, logBatch, timeoutBatch, stored, panicked>>
      /\ timers[b] # "over"
      /\ \/ timers' = [timers EXCEPT ![b] = "firing"] /\ autoCommitChan' = autoCommitChan
         \/ /\ timers' = [timers EXCEPT ![b] = "over"]
            /\ Len(autoCommitChan) < AutoCommitCap
            /\ autoCommitChan' = Append(autoCommitChan, b)
  BY DEF TimerFires, SendBatch
<1>2. TypeOK /\ b \in 1..Len(timers) /\ Len(timers) = Len(batches)
  BY BatchTypes DEF IInv
<1>3. /\ timers' \in Seq(TimerState) /\ Len(timers') = Len(timers)
      /\ \A c \in 1..Len(timers) : c # b => timers'[c] = timers[c]
      /\ timers'[b] \in {"firing", "over"}
  <2>1. {"firing", "over"} \subseteq TimerState
    BY DEF TimerState
  <2>2. CASE timers' = [timers EXCEPT ![b] = "firing"]
    BY <1>2, <2>1, <2>2, ExceptSeq DEF TypeOK
  <2>3. CASE timers' = [timers EXCEPT ![b] = "over"]
    BY <1>2, <2>1, <2>3, ExceptSeq DEF TypeOK
  <2> QED BY <1>1, <2>2, <2>3
<1>4. /\ autoCommitChan' \in Seq(Batch) /\ Len(autoCommitChan') <= AutoCommitCap
      /\ \A i \in DOMAIN autoCommitChan :
            i \in DOMAIN autoCommitChan' /\ autoCommitChan'[i] = autoCommitChan[i]
      /\ \A i, j \in DOMAIN autoCommitChan' :
            i \notin DOMAIN autoCommitChan /\ j \notin DOMAIN autoCommitChan => i = j
      /\ \A i \in DOMAIN autoCommitChan' :
            i \notin DOMAIN autoCommitChan => autoCommitChan'[i] = b /\ timers'[b] = "over"
      /\ timers'[b] = "over" => \E i \in DOMAIN autoCommitChan' : autoCommitChan'[i] = b
  <2>1. /\ autoCommitChan \in Seq(Batch) /\ Len(autoCommitChan) \in Nat
        /\ DOMAIN autoCommitChan = 1..Len(autoCommitChan)
    BY <1>2, LenProperties DEF TypeOK
  <2>2. CASE timers' = [timers EXCEPT ![b] = "firing"] /\ autoCommitChan' = autoCommitChan
    <3>1. timers'[b] = "firing"
      BY <1>2, <2>2, ExceptSeq DEF TypeOK, TimerState
    <3> QED BY <1>2, <2>2, <3>1 DEF TypeOK
  <2>3. CASE /\ timers' = [timers EXCEPT ![b] = "over"]
             /\ Len(autoCommitChan) < AutoCommitCap
             /\ autoCommitChan' = Append(autoCommitChan, b)
    <3>1. /\ autoCommitChan' \in Seq(Batch) /\ Len(autoCommitChan') = Len(autoCommitChan) + 1
          /\ autoCommitChan'[Len(autoCommitChan) + 1] = b
          /\ \A i \in 1..Len(autoCommitChan) : autoCommitChan'[i] = autoCommitChan[i]
      BY <2>1, <2>3, AppendProperties
    <3>2. DOMAIN autoCommitChan' = 1..(Len(autoCommitChan) + 1)
      BY <3>1, LenProperties
    <3>3. Len(autoCommitChan) + 1 \in DOMAIN autoCommitChan'
      BY <2>1, <3>2
    <3>4. \A i \in DOMAIN autoCommitChan : i \in DOMAIN autoCommitChan'
      BY <2>1, <3>2
    <3>5. Len(autoCommitChan') <= AutoCommitCap
      BY <2>1, <2>3, <3>1
    <3>6. \A i \in DOMAIN autoCommitChan' :
            i \notin DOMAIN autoCommitChan => i = Len(autoCommitChan) + 1
      BY <2>1, <3>2
    <3>7. timers'[b] = "over"
      BY <1>2, <2>3, ExceptSeq DEF TypeOK, TimerState
    <3> QED BY <2>1, <3>1, <3>3, <3>4, <3>5, <3>6, <3>7
  <2> QED BY <1>1, <2>2, <2>3
<1>5. TypeOK'
  BY <1>1, <1>2, <1>3, <1>4 DEF TypeOK, Batch, Log
<1>6. CurrentBatchTimed'
  <2> SUFFICES ASSUME logBatch # Nil PROVE Pending(logBatch)'
    BY <1>1 DEF CurrentBatchTimed
  <2>1. Pending(logBatch) /\ logBatch \in 1..Len(timers)
    BY <1>2, BatchTypes DEF IInv, CurrentBatchTimed
  <2>2. CASE logBatch = b
    BY <1>1, <1>3, <1>4, <2>2 DEF Pending
  <2>3. CASE logBatch # b
    BY <1>1, <1>3, <1>4, <2>1, <2>3 DEF Pending
  <2> QED BY <2>2, <2>3
<1>7. /\ QueueFresh' /\ CurrentOpen' /\ CurrentNotStored'
      /\ ~InsertMayFail => PartialBatchesKept'
  BY <1>1 DEF IInv, QueueFresh, BatchedLogs, CurrentOpen, CurrentNotStored, PartialBatchesKept, Batch, LogsOf,
              CurrentLogs, FullLogs, QueuedLogs, Log
<1>8. OneCommitPerBatch'
  <2>1. /\ \A i \in DOMAIN autoCommitChan :
              autoCommitChan[i] \in 1..Len(timers) /\ autoCommitChan[i] # b
        /\ timeoutBatch # b
        /\ timeoutBatch # Nil => timeoutBatch \in 1..Len(timers)
    <3>1. \A i \in DOMAIN autoCommitChan : autoCommitChan[i] \in Batch
      BY <1>2, ElementOfSeq, LenProperties DEF TypeOK
    <3>2. b # Nil
      BY <1>2
    <3> QED BY <1>1, <1>2, <3>1, <3>2, BatchTypes DEF IInv, OneCommitPerBatch, TypeOK
  <2>2. \A i, j \in DOMAIN autoCommitChan' : autoCommitChan'[i] = autoCommitChan'[j] => i = j
    BY <1>4, <2>1 DEF IInv, OneCommitPerBatch
  <2>3. \A i \in DOMAIN autoCommitChan' :
          timers'[autoCommitChan'[i]] = "over" /\ autoCommitChan'[i] # timeoutBatch
    BY <1>3, <1>4, <2>1 DEF IInv, OneCommitPerBatch
  <2>4. timeoutBatch # Nil => timers'[timeoutBatch] = "over"
    BY <1>3, <2>1 DEF IInv, OneCommitPerBatch
  <2> QED BY <1>1, <2>2, <2>3, <2>4 DEF OneCommitPerBatch
<1> QED BY <1>5, <1>6, <1>7, <1>8 DEF IInv

\* A step that only takes the head of logChan leaves the other logs fresh, as
\* long as nothing but that head went to the batches, and no queued log to
\* MySQL.
LEMMA RestStaysFresh ==
    ASSUME IInv, logChan # << >>, logChan' = Tail(logChan),
           BatchedLogs' \subseteq BatchedLogs \cup {Head(logChan)},
           stored' \subseteq stored \cup BatchedLogs
    PROVE  QueueFresh'
<1>1. TypeOK
  BY DEF IInv
<1> DEFINE n == Len(logChan)
           q == logChan'
<1>2. /\ n \in Nat \ {0} /\ DOMAIN q = 1..(n - 1) /\ DOMAIN logChan = 1..n
      /\ Head(logChan) = logChan[1]
      /\ \A i \in 1..(n - 1) : q[i] = logChan[i + 1]
  BY <1>1, QueueHead
<1>3. \A i \in 1..n : logChan[i] \notin stored \cup BatchedLogs
  BY <1>2 DEF IInv, QueueFresh
<1>4. \A i, j \in 1..n : logChan[i] = logChan[j] => i = j
  BY <1>2 DEF IInv, QueueFresh
<1> HIDE DEF n, q
<1>5. ASSUME NEW i \in 1..(n - 1)
      PROVE  q[i] \notin stored' \cup BatchedLogs'
  <2>1. i + 1 \in 1..n /\ 1 \in 1..n /\ i + 1 # 1 /\ q[i] = logChan[i + 1]
    BY <1>2
  <2>2. q[i] # Head(logChan)
    BY <1>2, <1>4, <2>1
  <2>3. q[i] \notin stored \cup BatchedLogs
    BY <1>3, <2>1
  <2> QED BY <2>2, <2>3
<1>6. ASSUME NEW i \in 1..(n - 1), NEW j \in 1..(n - 1), q[i] = q[j]
      PROVE  i = j
  <2>1. i + 1 \in 1..n /\ j + 1 \in 1..n
    BY <1>2
  <2>2. logChan[i + 1] = logChan[j + 1]
    BY <1>2, <1>6
  <2>3. i + 1 = j + 1
    BY <1>4, <2>1, <2>2
  <2> QED BY <1>2, <2>3
<1> QED BY <1>2, <1>5, <1>6 DEF QueueFresh, q

\* What the taking of a log does to the batches and the queue, full or not.
LEMMA LogTaken ==
    ASSUME IInv, NEW l, logChan # << >>, l = Head(logChan),
           logChan' = Tail(logChan), batches' = Collected(l)
    PROVE  /\ l \in Log /\ l \notin stored
           /\ BatchedLogs' = BatchedLogs \cup {l}
           /\ CurrentLogs \subseteq BatchedLogs
           /\ FullLogs \subseteq FullLogs'
           /\ Len(batches'[CurrentBatch]) = LogBatchSize =>
                  CurrentLogs \cup {l} \subseteq FullLogs'
           /\ QueuedLogs \subseteq QueuedLogs' \cup {l}
<1> DEFINE b == CurrentBatch
           bs == batches'
<1>1. TypeOK /\ CurrentOpen
  BY DEF IInv
<1>2. l \in Log /\ l \notin stored
  BY <1>1, QueueHead DEF IInv, QueueFresh
<1>3. /\ DOMAIN bs = 1..Len(bs) /\ b \in DOMAIN bs
      /\ \A c \in DOMAIN bs : c # b => c \in Batch /\ bs[c] = batches[c]
      /\ {bs[b][i] : i \in DOMAIN bs[b]} = CurrentLogs \cup {l}
      /\ Batch \subseteq DOMAIN bs
  <2> DEFINE C == Collected(l)
  <2>1. /\ DOMAIN C = 1..Len(C) /\ Len(C) \in Nat /\ Len(C) >= Len(batches)
        /\ b \in 1..Len(C)
        /\ \A c \in 1..Len(C) : c # b => c \in Batch /\ C[c] = batches[c]
        /\ {C[b][i] : i \in DOMAIN C[b]} = CurrentLogs \cup {l}
    BY <1>1, <1>2, CollectedBatches
  <2>5. bs = C
    OBVIOUS
  <2> HIDE DEF bs, C, b
  <2>2. /\ DOMAIN bs = 1..Len(bs) /\ b \in DOMAIN bs
        /\ \A c \in DOMAIN bs : c # b => c \in Batch /\ bs[c] = batches[c]
        /\ {bs[b][i] : i \in DOMAIN bs[b]} = CurrentLogs \cup {l}
    BY <2>1, <2>5
  <2>3. Len(bs) \in Nat /\ Len(bs) >= Len(batches)
    BY <2>1, <2>5
  <2>4. Batch \subseteq DOMAIN bs
    BY <1>1, <2>2, <2>3, BatchTypes
  <2> QED BY <2>2, <2>4
<1>4. CurrentLogs \subseteq BatchedLogs
  BY <1>1, BatchTypes DEF CurrentLogs, BatchedLogs
<1>5. b \in Batch => b = logBatch /\ logBatch # Nil
  BY <1>1, BatchTypes DEF CurrentBatch
<1> DEFINE logs(c) == {bs[c][i] : i \in DOMAIN bs[c]}
<1>6. \A c \in DOMAIN bs : c # b => logs(c) = LogsOf(c)
  BY <1>3 DEF LogsOf
<1>7. BatchedLogs' = UNION {logs(c) : c \in DOMAIN bs}
  BY DEF BatchedLogs, LogsOf, Batch
<1>8. b \in Batch => LogsOf(b) = CurrentLogs
  BY <1>5 DEF CurrentLogs
<1>9. FullLogs' = UNION {logs(c) : c \in {d \in DOMAIN bs : Len(bs[d]) = LogBatchSize}}
  BY DEF FullLogs, LogsOf, Batch
<1>10. \A c \in Batch : Len(batches[c]) = LogBatchSize => c # b /\ bs[c] = batches[c]
  BY <1>1, <1>3, <1>5 DEF CurrentOpen
<1>11. QueuedLogs \subseteq QueuedLogs' \cup {l}
  <2> SUFFICES ASSUME NEW i \in DOMAIN logChan PROVE logChan[i] \in QueuedLogs' \cup {l}
    BY DEF QueuedLogs
  <2>1. CASE i = 1
    BY <1>1, <2>1, QueueHead
  <2>2. CASE i # 1
    <3>1. i - 1 \in 1..(Len(logChan) - 1) /\ i = (i - 1) + 1
      BY <1>1, <2>2, QueueHead
    <3>2. i - 1 \in DOMAIN logChan' /\ logChan'[i - 1] = logChan[i]
      BY <1>1, <3>1, QueueHead
    <3> QED BY <3>2 DEF QueuedLogs
  <2> QED BY <2>1, <2>2
<1> HIDE DEF b, bs, logs
<1>12. logs(b) = CurrentLogs \cup {l}
  BY <1>3 DEF logs
<1>13. BatchedLogs' = BatchedLogs \cup {l}
  <2>1. BatchedLogs' \subseteq BatchedLogs \cup {l}
    <3> SUFFICES ASSUME NEW c \in DOMAIN bs PROVE logs(c) \subseteq BatchedLogs \cup {l}
      BY <1>7
    <3>1. CASE c = b
      BY <1>4, <1>12, <3>1
    <3>2. CASE c # b
      BY <1>3, <1>6, <3>2 DEF BatchedLogs
    <3> QED BY <3>1, <3>2
  <2>2. BatchedLogs \subseteq BatchedLogs'
    <3> SUFFICES ASSUME NEW c \in Batch PROVE LogsOf(c) \subseteq BatchedLogs'
      BY DEF BatchedLogs
    <3>1. c \in DOMAIN bs /\ LogsOf(c) \subseteq logs(c)
      BY <1>3, <1>6, <1>8, <1>12
    <3> QED BY <3>1, <1>7
  <2>3. l \in BatchedLogs'
    BY <1>3, <1>7, <1>12
  <2> QED BY <2>1, <2>2, <2>3
<1>14. FullLogs \subseteq FullLogs'
  <2> SUFFICES ASSUME NEW c \in Batch, Len(batches[c]) = LogBatchSize
               PROVE  LogsOf(c) \subseteq FullLogs'
    BY DEF FullLogs
  <2>1. c \in DOMAIN bs /\ Len(bs[c]) = LogBatchSize /\ logs(c) = LogsOf(c)
    BY <1>3, <1>6, <1>10
  <2> QED BY <2>1, <1>9
<1>15. Len(bs[b]) = LogBatchSize => CurrentLogs \cup {l} \subseteq FullLogs'
  BY <1>3, <1>9, <1>12
<1> QED BY <1>2, <1>4, <1>11, <1>13, <1>14, <1>15 DEF b, bs

\* The taking of a log keeps the inductive invariant: the log goes to the
\* current batch, which is stored by its timer, or is full.
LEMMA OnLogKeepsIInv == ASSUME IInv, OnLog PROVE IInv'
<1> DEFINE l == Head(logChan)
           b == CurrentBatch
           bs == Collected(l)
           late == IF timeoutBatch = Nil THEN {} ELSE LogsOf(timeoutBatch)
<1>1. /\ logChan # << >> /\ logChan' = Tail(logChan)
      /\ batches' = bs
      /\ UNCHANGED <<appended, dropped, timeoutBatch, autoCommitChan>>
      /\ IF Len(bs[b]) < LogBatchSize
         THEN logBatch' = b /\ timers' = Armed /\ UNCHANGED <<stored, panicked>>
         ELSE logBatch' = Nil /\ timers' = Stopped(Armed, b) /\ Insert(timeoutBatch, late)
  BY DEF OnLog, BatchAfterFull
<1>2. TypeOK /\ CurrentOpen /\ l \in Log /\ Log' = Log
  BY <1>1, QueueHead DEF IInv, Log
<1>3. /\ l \notin stored
      /\ BatchedLogs' = BatchedLogs \cup {l}
      /\ CurrentLogs \subseteq BatchedLogs
      /\ FullLogs \subseteq FullLogs'
      /\ Len(batches'[b]) = LogBatchSize => CurrentLogs \cup {l} \subseteq FullLogs'
      /\ QueuedLogs \subseteq QueuedLogs' \cup {l}
  BY <1>1, LogTaken
<1>4. /\ bs \in Seq(Seq(Log))
      /\ Len(bs) \in Nat /\ Len(bs) >= Len(batches)
      /\ DOMAIN bs = 1..Len(bs)
      /\ b \in 1..Len(bs)
      /\ \A c \in 1..Len(bs) : c # b => c \in Batch /\ bs[c] = batches[c]
      /\ Len(bs[b]) \in 1..LogBatchSize
      /\ {bs[b][i] : i \in DOMAIN bs[b]} = CurrentLogs \cup {l}
  BY <1>2, CollectedBatches
<1>5. /\ Armed \in Seq(TimerState) /\ Len(Armed) = Len(bs)
      /\ Armed[b] = IF logBatch = Nil THEN "armed" ELSE timers[logBatch]
      /\ \A c \in Batch : Armed[c] = timers[c]
  BY <1>2, ArmedTimers
<1>6. /\ Stopped(Armed, b) \in Seq(TimerState)
      /\ Len(Stopped(Armed, b)) = Len(bs)
      /\ \A c \in 1..Len(bs) : Armed[c] = "over" => Stopped(Armed, b)[c] = "over"
  <2>1. "over" \in TimerState
    BY DEF TimerState
  <2> QED BY <1>4, <1>5, <2>1, ExceptSeq DEF Stopped
<1>7. /\ timers' \in Seq(TimerState) /\ Len(timers') = Len(bs)
      /\ stored' \subseteq stored \cup BatchedLogs /\ stored \subseteq stored'
      /\ stored' \subseteq Log
      /\ panicked' \in BOOLEAN
  <2>1. late \subseteq BatchedLogs
    BY <1>2 DEF TypeOK, BatchedLogs
  <2>2. late \subseteq Log
    <3>1. \A c \in Batch : \A i \in DOMAIN batches[c] : batches[c][i] \in Log
      BY <1>2, BatchTypes, ElementOfSeq
    <3> QED BY <3>1, <1>2 DEF TypeOK, LogsOf
  <2> HIDE DEF late
  <2>3. CASE Len(bs[b]) < LogBatchSize
    BY <1>1, <1>2, <1>5, <2>3 DEF TypeOK
  <2>4. CASE ~(Len(bs[b]) < LogBatchSize)
    <3>1. Insert(timeoutBatch, late) /\ timers' = Stopped(Armed, b)
      BY <1>1, <2>4
    <3>2. stored' \in {stored, stored \cup late} /\ panicked' \in BOOLEAN
      BY <1>2, <3>1, InsertStores DEF TypeOK
    <3> QED BY <1>2, <1>6, <2>1, <2>2, <3>1, <3>2 DEF TypeOK
  <2> QED BY <2>3, <2>4
<1> HIDE DEF l, b, bs, late
<1>8. Batch' = 1..Len(bs) /\ Batch \subseteq Batch'
  BY <1>1, <1>2, <1>4, BatchTypes DEF Batch
<1>9. logBatch' \in {Nil, b}
  BY <1>1
<1>10. TypeOK'
  <2>1. logChan' \in Seq(Log') /\ Len(logChan') <= LogChanCap
    BY <1>1, <1>2, QueueHead DEF TypeOK
  <2>2. batches' \in Seq(Seq(Log')) /\ timers' \in Seq(TimerState) /\ Len(timers') = Len(batches')
    BY <1>1, <1>2, <1>4, <1>7
  <2>3. \A c \in Batch' : Len(batches'[c]) \in 1..LogBatchSize
    BY <1>1, <1>2, <1>4, <1>8 DEF TypeOK
  <2>4. autoCommitChan' \in Seq(Batch') /\ Len(autoCommitChan') <= AutoCommitCap
    BY <1>1, <1>2, <1>8, SeqMonotonic DEF TypeOK
  <2>5. {logBatch', timeoutBatch'} \subseteq {Nil} \cup Batch'
    BY <1>1, <1>2, <1>4, <1>8, <1>9 DEF TypeOK
  <2>6. /\ appended' \in 0..MaxLogs /\ dropped' \subseteq Log' /\ stored' \subseteq Log'
        /\ panicked' \in BOOLEAN
    BY <1>1, <1>2, <1>7 DEF TypeOK
  <2> QED BY <2>1, <2>2, <2>3, <2>4, <2>5, <2>6 DEF TypeOK
<1>11. QueueFresh'
  BY <1>1, <1>3, <1>7, RestStaysFresh DEF l
<1>14. OneCommitPerBatch'
  <2>1. \A c \in Batch : timers[c] = "over" => timers'[c] = "over"
    BY <1>1, <1>5, <1>6, <1>8
  <2>2. \A i \in DOMAIN autoCommitChan : autoCommitChan[i] \in Batch
    BY <1>2, ElementOfSeq, LenProperties DEF TypeOK
  <2>3. timeoutBatch # Nil => timeoutBatch \in Batch
    BY <1>2 DEF TypeOK
  <2> QED BY <1>1, <2>1, <2>2, <2>3 DEF IInv, OneCommitPerBatch
<1>12. CASE Len(bs[b]) < LogBatchSize
  <2>1. logBatch' = b /\ timers' = Armed /\ UNCHANGED <<stored, panicked>> /\ b # Nil
    BY <1>1, <1>4, <1>12
  <2>2. CurrentOpen'
    BY <1>1, <1>12, <2>1 DEF CurrentOpen
  <2>3. CurrentLogs' = CurrentLogs \cup {l}
    BY <1>1, <1>4, <2>1 DEF CurrentLogs, LogsOf
  <2>4. CurrentNotStored'
    BY <1>3, <2>1, <2>3 DEF IInv, CurrentNotStored
  <2>5. CurrentBatchTimed'
    <3>1. CASE logBatch = Nil
      BY <1>1, <1>5, <2>1, <3>1 DEF CurrentBatchTimed, Pending
    <3>2. CASE logBatch # Nil
      <4>1. b = logBatch /\ Pending(logBatch)
        BY <3>2 DEF b, CurrentBatch, IInv, CurrentBatchTimed
      <4> QED BY <1>1, <1>5, <2>1, <3>2, <4>1 DEF CurrentBatchTimed, Pending
    <3> QED BY <3>1, <3>2
  <2>6. ~InsertMayFail => PartialBatchesKept'
    BY <1>1, <1>2, <1>3, <2>1, <2>3 DEF IInv, PartialBatchesKept
  <2> QED BY <1>10, <1>11, <1>14, <2>2, <2>4, <2>5, <2>6 DEF IInv
<1>13. CASE ~(Len(bs[b]) < LogBatchSize)
  <2>1. logBatch' = Nil /\ Len(batches'[b]) = LogBatchSize
    BY <1>1, <1>4, <1>13
  <2>2. CurrentOpen' /\ CurrentLogs' = {} /\ CurrentNotStored' /\ CurrentBatchTimed'
    BY <2>1 DEF CurrentOpen, CurrentLogs, CurrentNotStored, CurrentBatchTimed
  <2>3. CurrentLogs \cup {l} \subseteq FullLogs'
    BY <1>3, <2>1
  <2>4. ~InsertMayFail /\ ~panicked => PartialBatchesKept'
    BY <1>1, <1>2, <1>3, <1>7, <2>3 DEF IInv, PartialBatchesKept
  <2>5. ~panicked
    BY DEF OnLog
  <2> QED BY <1>10, <1>11, <1>14, <2>2, <2>4, <2>5 DEF IInv
<1> QED BY <1>12, <1>13

\* A batch that timed out keeps the inductive invariant: if it is the current
\* one all its logs are stored, since none of them was.
LEMMA OnTimeoutKeepsIInv == ASSUME IInv, OnTimeout PROVE IInv'
<1> DEFINE b == Head(autoCommitChan)
<1>1. /\ autoCommitChan # << >> /\ autoCommitChan' = Tail(autoCommitChan)
      /\ timeoutBatch' = b
      /\ UNCHANGED <<appended, dropped, logChan, batches, timers>>
      /\ \/ b # logBatch /\ UNCHANGED <<logBatch, stored, panicked>>
         \/ b = logBatch /\ logBatch' = Nil /\ Insert(b, LogsOf(b))
      /\ ~panicked
  BY DEF OnTimeout, IsCurrent
<1>2. TypeOK /\ Log' = Log /\ Batch' = Batch /\ BatchedLogs' = BatchedLogs
      /\ FullLogs' = FullLogs /\ QueuedLogs' = QueuedLogs
  BY <1>1 DEF IInv, Log, Batch, BatchedLogs, FullLogs, QueuedLogs, LogsOf
<1>3. /\ b \in Batch /\ b # Nil /\ b = autoCommitChan[1]
      /\ Len(autoCommitChan) \in Nat \ {0} /\ DOMAIN autoCommitChan = 1..Len(autoCommitChan)
      /\ autoCommitChan' \in Seq(Batch) /\ Len(autoCommitChan') = Len(autoCommitChan) - 1
      /\ DOMAIN autoCommitChan' = 1..(Len(autoCommitChan) - 1)
      /\ \A i \in 1..(Len(autoCommitChan) - 1) : autoCommitChan'[i] = autoCommitChan[i + 1]
  <2>1. autoCommitChan \in Seq(Batch)
    BY <1>2 DEF TypeOK
  <2> QED BY <1>1, <1>2, <2>1, HeadTailProperties, LenProperties, EmptySeq, BatchTypes
<1>4. LogsOf(b) \subseteq Log /\ LogsOf(b) \subseteq BatchedLogs
  <2>1. \A c \in Batch : \A i \in DOMAIN batches[c] : batches[c][i] \in Log
    BY <1>2, BatchTypes, ElementOfSeq
  <2> QED BY <2>1, <1>3 DEF LogsOf, BatchedLogs
<1>7. OneCommitPerBatch'
  <2>1. /\ \A i, j \in DOMAIN autoCommitChan : autoCommitChan[i] = autoCommitChan[j] => i = j
        /\ \A i \in DOMAIN autoCommitChan : timers[autoCommitChan[i]] = "over"
    BY DEF IInv, OneCommitPerBatch
  <2>2. \A i \in 1..(Len(autoCommitChan) - 1) : i + 1 \in DOMAIN autoCommitChan /\ i + 1 # 1
    BY <1>3
  <2>3. 1 \in DOMAIN autoCommitChan
    BY <1>3
  <2> HIDE DEF b
  <2>4. ASSUME NEW i \in DOMAIN autoCommitChan', NEW j \in DOMAIN autoCommitChan',
               autoCommitChan'[i] = autoCommitChan'[j]
        PROVE  i = j
    <3>1. i + 1 = j + 1
      BY <1>3, <2>1, <2>2, <2>4
    <3> QED BY <1>3, <3>1
  <2>5. \A i \in DOMAIN autoCommitChan' :
          timers'[autoCommitChan'[i]] = "over" /\ autoCommitChan'[i] # b
    BY <1>1, <1>3, <2>1, <2>2, <2>3
  <2>6. timers'[b] = "over"
    BY <1>1, <1>3, <2>1, <2>3
  <2> QED BY <1>1, <2>4, <2>5, <2>6 DEF OneCommitPerBatch
<1>5. CASE b # logBatch /\ UNCHANGED <<logBatch, stored, panicked>>
  <2> HIDE DEF b
  <2>1. TypeOK'
    BY <1>1, <1>2, <1>3, <1>5 DEF TypeOK
  <2>2. QueueFresh' /\ CurrentOpen' /\ CurrentNotStored'
    BY <1>1, <1>2, <1>5 DEF IInv, QueueFresh, CurrentOpen, CurrentNotStored, CurrentLogs, LogsOf
  <2>3. CurrentBatchTimed'
    <3> SUFFICES ASSUME logBatch # Nil PROVE Pending(logBatch)'
      BY <1>5 DEF CurrentBatchTimed
    <3>1. CASE timers[logBatch] \in {"armed", "firing"}
      BY <1>1, <1>5, <3>1 DEF Pending
    <3>2. CASE \E i \in DOMAIN autoCommitChan : autoCommitChan[i] = logBatch
      <4>1. PICK i \in DOMAIN autoCommitChan : autoCommitChan[i] = logBatch
        BY <3>2
      <4>2. i # 1
        BY <1>3, <1>5, <4>1
      <4>3. i - 1 \in 1..(Len(autoCommitChan) - 1) /\ i = (i - 1) + 1
        BY <1>3, <4>2
      <4>4. i - 1 \in DOMAIN autoCommitChan' /\ autoCommitChan'[i - 1] = logBatch
        BY <1>3, <4>1, <4>3
      <4> QED BY <1>5, <4>4 DEF Pending
    <3> QED BY <3>1, <3>2 DEF IInv, CurrentBatchTimed, Pending
  <2>4. ~InsertMayFail => PartialBatchesKept'
    BY <1>1, <1>2, <1>5 DEF IInv, PartialBatchesKept, CurrentLogs, LogsOf
  <2> QED BY <1>7, <2>1, <2>2, <2>3, <2>4 DEF IInv
<1>6. CASE b = logBatch /\ logBatch' = Nil /\ Insert(b, LogsOf(b))
  <2>1. CurrentLogs = LogsOf(b) /\ LogsOf(b) \cap stored = {}
    BY <1>3, <1>6 DEF IInv, CurrentNotStored, CurrentLogs
  <2>2. /\ stored' \in {stored, stored \cup LogsOf(b)}
        /\ panicked' \in BOOLEAN
        /\ ~InsertMayFail => stored' = stored \cup LogsOf(b)
    BY <1>2, <1>3, <1>6, <2>1, InsertStores DEF TypeOK
  <2> HIDE DEF b
  <2>3. TypeOK'
    BY <1>1, <1>2, <1>3, <1>4, <1>6, <2>2 DEF TypeOK
  <2>4. CurrentOpen' /\ CurrentLogs' = {} /\ CurrentNotStored' /\ CurrentBatchTimed'
    BY <1>6 DEF CurrentOpen, CurrentLogs, CurrentNotStored, CurrentBatchTimed
  <2>5. QueueFresh'
    BY <1>1, <1>2, <1>4, <2>2 DEF IInv, QueueFresh
  <2>6. ~InsertMayFail => PartialBatchesKept'
    BY <1>1, <1>2, <2>1, <2>2 DEF IInv, PartialBatchesKept
  <2> QED BY <1>7, <2>3, <2>4, <2>5, <2>6 DEF IInv
<1> QED BY <1>1, <1>5, <1>6

\* Every step keeps the inductive invariant.
LEMMA NextIInv == IInv /\ [Next]_vars => IInv'
<1> SUFFICES ASSUME IInv, [Next]_vars PROVE IInv'
  OBVIOUS
<1>1. CASE Enqueue
  BY <1>1, EnqueueKeepsIInv
<1>2. CASE OnLog
  BY <1>2, OnLogKeepsIInv
<1>3. CASE OnTimeout
  BY <1>3, OnTimeoutKeepsIInv
<1>4. CASE \E b \in Batch : TimerFires(b) \/ SendBatch(b)
  BY <1>4, TimerStepKeepsIInv
<1>5. CASE UNCHANGED vars
  <2> USE <1>5 DEF vars
  <2>1. TypeOK' /\ CurrentOpen' /\ CurrentBatchTimed' /\ OneCommitPerBatch'
    BY DEF IInv, TypeOK, CurrentOpen, CurrentBatchTimed, OneCommitPerBatch, Batch, Log, Pending
  <2>2. BatchedLogs' = BatchedLogs /\ CurrentLogs' = CurrentLogs
        /\ FullLogs' = FullLogs /\ QueuedLogs' = QueuedLogs /\ Log' = Log
    BY DEF BatchedLogs, CurrentLogs, FullLogs, QueuedLogs, LogsOf, Batch, Log
  <2>3. QueueFresh' /\ CurrentNotStored' /\ (~InsertMayFail => PartialBatchesKept')
    BY <2>2 DEF IInv, QueueFresh, CurrentNotStored, PartialBatchesKept
  <2> QED BY <2>1, <2>3 DEF IInv
<1> QED BY <1>1, <1>2, <1>3, <1>4, <1>5 DEF Next

-----------------------------------------------------------------------------
(* The theorems *)

\* The inductive invariant holds in every reachable state (writeLoop).
THEOREM Inductive == Spec => []IInv
<1>1. Init => IInv
  BY InitIInv
<1>2. IInv /\ [Next]_vars => IInv'
  BY NextIInv
<1> QED BY <1>1, <1>2, PTL DEF Spec

\* Type correctness: channels within their capacity, no batch overfull, one
\* timer for each batch.
THEOREM TypeCorrect == Spec => []TypeOK
<1>1. IInv => TypeOK
  BY DEF IInv
<1> QED BY <1>1, Inductive, PTL

\* The current batch always has a commit ahead of it (log_mgr.go:45).
THEOREM CurrentBatchTimedHolds == Spec => []CurrentBatchTimed
<1>1. IInv => CurrentBatchTimed
  BY DEF IInv
<1> QED BY <1>1, Inductive, PTL

\* A batch comes through autoCommitChan at most once (log_mgr.go:45-55).
THEOREM OneCommitPerBatchHolds == Spec => []OneCommitPerBatch
<1>1. IInv => OneCommitPerBatch
  BY DEF IInv
<1> QED BY <1>1, Inductive, PTL

\* While MySQL accepts the inserts, only full batches lose logs (writeLoop).
THEOREM PartialBatchesKeptHolds == ASSUME ~InsertMayFail PROVE Spec => []PartialBatchesKept
<1>1. IInv => PartialBatchesKept
  BY DEF IInv
<1> QED BY <1>1, Inductive, PTL

=============================================================================
