------------------------------- MODULE LogMgr --------------------------------
(***************************************************************************)
(* The log manager of a worker, worker/core/log_mgr.go: the schedule loop  *)
(* appends execution logs to a bounded channel, writeLoop collects them in *)
(* batches and inserts a batch into MySQL when it is full or, after        *)
(* LogCommitTimeout, when its timer hands it to autoCommitChan.            *)
(*                                                                         *)
(* MySQL, through gorm, is external: Create(&logs) is one insert of all    *)
(* the logs or of none; it gives the stored logs their primary key, so     *)
(* that a second insert of any of them is refused.                         *)
(***************************************************************************)
EXTENDS Integers, Sequences

CONSTANTS
    LogBatchSize,       \* config: log_batch_size
    LogChanCap,         \* capacity of logChan (2000 in the code)
    AutoCommitCap,      \* capacity of autoCommitChan (200)
    InsertMayFail,      \* may MySQL refuse an insert?
    MaxLogs             \* bound: logs appended in a behaviour

ASSUME LogAssumption ==
    /\ LogBatchSize \in Nat \ {0}
    /\ LogChanCap \in Nat \ {0} /\ AutoCommitCap \in Nat \ {0}
    /\ InsertMayFail \in BOOLEAN
    /\ MaxLogs \in Nat

VARIABLES
    appended,       \* logs appended so far; a log is its number
    dropped,        \* history: the logs Append discarded
    logChan,        \* queued logs
    batches,        \* every batch allocated so far: its Logs
    timers,         \* the state of each batch's AfterFunc
    logBatch,       \* the current batch, an index of batches, or Nil
    timeoutBatch,   \* the variable of that name: the last value received
    autoCommitChan, \* batches whose timer went off
    stored,         \* the logs in MySQL
    panicked        \* the worker ended by a panic

vars == <<appended, dropped, logChan, batches, timers, logBatch, timeoutBatch,
          autoCommitChan, stored, panicked>>

Nil == 0
Log == 1..appended
Batch == DOMAIN batches
LogsOf(b) == {batches[b][i] : i \in DOMAIN batches[b]}

\* "armed": it may go off; "firing": its goroutine waits to send the batch;
\* "over": sent, or stopped in time.
TimerState == {"armed", "firing", "over"}

TypeOK ==
    /\ appended \in 0..MaxLogs
    /\ dropped \subseteq Log
    /\ logChan \in Seq(Log) /\ Len(logChan) <= LogChanCap
    /\ batches \in Seq(Seq(Log))
    /\ \A b \in Batch : Len(batches[b]) \in 1..LogBatchSize
    /\ timers \in Seq(TimerState) /\ Len(timers) = Len(batches)
    /\ {logBatch, timeoutBatch} \subseteq {Nil} \cup Batch
    /\ autoCommitChan \in Seq(Batch) /\ Len(autoCommitChan) <= AutoCommitCap
    /\ stored \subseteq Log
    /\ panicked \in BOOLEAN

Init ==
    /\ appended = 0
    /\ dropped = {}
    /\ logChan = << >>
    /\ batches = << >>
    /\ timers = << >>
    /\ logBatch = Nil
    /\ timeoutBatch = Nil
    /\ autoCommitChan = << >>
    /\ stored = {}
    /\ panicked = FALSE

-----------------------------------------------------------------------------

\* Append: the select takes its default when the channel is full.
Enqueue ==
    /\ ~panicked
    /\ appended < MaxLogs
    /\ appended' = appended + 1
    /\ \/ /\ Len(logChan) < LogChanCap
          /\ logChan' = Append(logChan, appended')
          /\ UNCHANGED dropped
       \/ /\ Len(logChan) = LogChanCap
          /\ dropped' = dropped \cup {appended'}
          /\ UNCHANGED logChan
    /\ UNCHANGED <<batches, timers, logBatch, timeoutBatch, autoCommitChan, stored, panicked>>

\* DB.Create(&batch.Logs), given the logs of batch b.  &timeoutBatch.Logs
\* panics while timeoutBatch is nil.  An error is only logged.
Insert(b, logs) ==
    IF b = Nil
    THEN panicked' = TRUE /\ UNCHANGED stored
    ELSE /\ UNCHANGED panicked
         /\ \/ logs \cap stored = {} /\ stored' = stored \cup logs
            \/ (logs \cap stored # {} \/ InsertMayFail) /\ UNCHANGED stored

\* The current batch when the log l was taken, allocated with its timer if
\* there was none, and l appended to it.
CurrentBatch == IF logBatch = Nil THEN Len(batches) + 1 ELSE logBatch

Collected(l) ==
    IF logBatch = Nil THEN Append(batches, <<l>>)
    ELSE [batches EXCEPT ![logBatch] = Append(@, l)]

\* Mutant: every log starts a timer of its own for the batch.
Armed_PerLog ==
    IF logBatch = Nil THEN Append(timers, "armed")
    ELSE [timers EXCEPT ![logBatch] = "armed"]

Armed == IF logBatch = Nil THEN Append(timers, "armed") ELSE timers

\* commitTimer.Stop(): too late once the timer went off.
Stopped(t, b) == IF t[b] = "armed" THEN [t EXCEPT ![b] = "over"] ELSE t

\* Mutant: the timer of a full batch is stopped, the batch stays current.
BatchAfterFull_Kept(b) == b

\* logBatch once the full batch b was sent.
BatchAfterFull(b) == Nil

\* case log = <-logChan.  A full batch is cleared and its timer stopped, but
\* what is inserted is timeoutBatch: nil, or the last batch that timed out.
OnLog ==
    /\ ~panicked
    /\ logChan # << >>
    /\ logChan' = Tail(logChan)
    /\ LET b  == CurrentBatch
           bs == Collected(Head(logChan))
       IN  /\ batches' = bs
           /\ IF Len(bs[b]) < LogBatchSize
              THEN /\ logBatch' = b
                   /\ timers' = Armed
                   /\ UNCHANGED <<stored, panicked>>
              ELSE /\ logBatch' = BatchAfterFull(b)
                   /\ timers' = Stopped(Armed, b)
                   /\ Insert(timeoutBatch, IF timeoutBatch = Nil THEN {} ELSE LogsOf(timeoutBatch))
    /\ UNCHANGED <<appended, dropped, timeoutBatch, autoCommitChan>>

\* LogCommitTimeout after the batch was allocated.
TimerFires(b) ==
    /\ ~panicked
    /\ timers[b] = "armed"
    /\ timers' = [timers EXCEPT ![b] = "firing"]
    /\ UNCHANGED <<appended, dropped, logChan, batches, logBatch, timeoutBatch, autoCommitChan,
                   stored, panicked>>

\* autoCommitChan <- batch, in the timer's goroutine.
SendBatch(b) ==
    /\ ~panicked
    /\ timers[b] = "firing"
    /\ Len(autoCommitChan) < AutoCommitCap
    /\ timers' = [timers EXCEPT ![b] = "over"]
    /\ autoCommitChan' = Append(autoCommitChan, b)
    /\ UNCHANGED <<appended, dropped, logChan, batches, logBatch, timeoutBatch, stored, panicked>>

\* Mutant: a batch that timed out is taken for the current one.
IsCurrent_Always(b) == TRUE

\* Is the batch that timed out still the current one?
IsCurrent(b) == b = logBatch

\* case timeoutBatch = <-autoCommitChan
OnTimeout ==
    /\ ~panicked
    /\ autoCommitChan # << >>
    /\ autoCommitChan' = Tail(autoCommitChan)
    /\ LET b == Head(autoCommitChan) IN
       /\ timeoutBatch' = b
       /\ \/ ~IsCurrent(b) /\ UNCHANGED <<logBatch, stored, panicked>>
          \/ IsCurrent(b) /\ logBatch' = Nil /\ Insert(b, LogsOf(b))
    /\ UNCHANGED <<appended, dropped, logChan, batches, timers>>

Next ==
    \/ Enqueue
    \/ OnLog
    \/ OnTimeout
    \/ \E b \in Batch : TimerFires(b) \/ SendBatch(b)

Spec == Init /\ [][Next]_vars

\* writeLoop runs and select starves neither channel; timers go off.
Fairness ==
    /\ WF_vars(OnLog)
    /\ WF_vars(OnTimeout)
    /\ \A b \in 1..MaxLogs :
          /\ WF_vars(b \in Batch /\ TimerFires(b))
          /\ WF_vars(b \in Batch /\ SendBatch(b))

FairSpec == Spec /\ Fairness

-----------------------------------------------------------------------------
(* Properties *)

Pending(b) ==
    \/ timers[b] \in {"armed", "firing"}
    \/ \E i \in DOMAIN autoCommitChan : autoCommitChan[i] = b

\* The current batch always has a commit ahead of it: its timer is running,
\* or it is on its way through autoCommitChan ("one timer per batch", line 45).
CurrentBatchTimed == logBatch # Nil => Pending(logBatch)

\* A batch comes through autoCommitChan at most once: it is in there once,
\* its timer will not send it again, and once received it is not in there.
OneCommitPerBatch ==
    /\ \A i, j \in DOMAIN autoCommitChan : autoCommitChan[i] = autoCommitChan[j] => i = j
    /\ \A i \in DOMAIN autoCommitChan :
          timers[autoCommitChan[i]] = "over" /\ autoCommitChan[i] # timeoutBatch
    /\ timeoutBatch # Nil => timers[timeoutBatch] = "over"

FullLogs == UNION {LogsOf(b) : b \in {c \in Batch : Len(batches[c]) = LogBatchSize}}
QueuedLogs == {logChan[i] : i \in DOMAIN logChan}
CurrentLogs == IF logBatch = Nil THEN {} ELSE LogsOf(logBatch)

\* Only a full batch loses logs: any other log is stored, or queued, or in
\* the current batch; a batch that times out late never takes the place of
\* the current one.  (Without failing inserts.)
PartialBatchesKept ==
    ~panicked => Log \subseteq dropped \cup stored \cup QueuedLogs \cup CurrentLogs \cup FullLogs

\* A log that was queued is stored in the end, or its batch was full.
LogSettles ==
    \A l \in 1..MaxLogs :
        (l \in QueuedLogs) ~> (l \in stored \cup FullLogs \/ panicked)

\* "When the batch is full, send it at once" (line 60): a full batch that is
\* no longer the current one is stored.  (Without failing inserts.)
FullBatchStored ==
    \A b \in Batch :
        Len(batches[b]) = LogBatchSize /\ b # logBatch => LogsOf(b) \subseteq stored

=============================================================================
