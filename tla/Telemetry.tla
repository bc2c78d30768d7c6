----------------------------- MODULE Telemetry -----------------------------
(***************************************************************************)
(* The best-effort request log (internal/store/telemetry.go): proxied      *)
(* requests hand their log entry to a bounded queue without ever waiting,  *)
(* one writer goroutine moves entries to a batch and the batch to the      *)
(* database, and every report first asks the writer to flush, so that it   *)
(* reads what was logged before it.                                        *)
(***************************************************************************)
EXTENDS Integers, Sequences, FiniteSets, Functions

CONSTANTS
  MaxEntries,    \* bound on the log entries; they are numbered as they are queued
  Callers,       \* reports; each one asks for one flush
  Nobody,        \* no caller
  QueueSize,     \* capacity of the queue
  BatchSize,     \* entries of one transaction
  MaxFailures,   \* bound on the writes and deletes that fail
  MaxPrunes      \* bound on the retention ticks

Entries == 1 .. MaxEntries

ASSUME TelemetryAssumption ==
  /\ Nobody \notin Callers
  /\ QueueSize \in Nat \ {0} /\ BatchSize \in Nat \ {0}
  /\ MaxEntries \in Nat /\ MaxFailures \in Nat /\ MaxPrunes \in Nat

VARIABLES
  sent,       \* entries handed to Enqueue so far
  queue,      \* the channel
  batch,      \* the writer's batch
  loop,       \* where the writer is
  after,      \* where it goes on after a write
  stopped,    \* stop is closed
  connected,  \* db is not nil
  degraded,
  dropped,    \* the counter of the health report
  written,    \* entries committed to request_logs
  caller,     \* caller -> out, waiting, accepted, ok, failed, cancelled, read
  serving,    \* the caller the writer works for
  flushErr,   \* a write for it failed
  failures, prunes,
  lost,       \* history: entries refused, or thrown away after a failure
  owed,       \* history: caller -> entries that wait when the writer takes its request
  late        \* history: entries queued after stop

callVars == <<caller, serving, flushErr, owed>>
countVars == <<failures, prunes>>
vars == <<sent, queue, batch, loop, after, stopped, connected, degraded, dropped, written,
          callVars, countVars, lost, late>>

Init ==
  /\ sent = 0
  /\ queue = <<>> /\ batch = <<>> /\ loop = "idle" /\ after = "idle" /\ stopped = FALSE
  /\ connected \in BOOLEAN /\ degraded = ~connected
  /\ dropped = 0 /\ written = {}
  /\ caller = [c \in Callers |-> "out"] /\ serving = Nobody /\ flushErr = FALSE
  /\ failures = 0 /\ prunes = 0
  /\ lost = {} /\ owed = [c \in Callers |-> {}] /\ late = {}

----------------------------------------------------------------------------
(* Producers.                                                              *)

(* Enqueue never waits: an entry that finds the queue full is dropped.     *)
Enqueue ==
  /\ sent < MaxEntries
  /\ sent' = sent + 1
  /\ \/ /\ Len(queue) < QueueSize
        /\ queue' = Append(queue, sent')
        /\ late' = IF stopped THEN late \cup {sent'} ELSE late
        /\ UNCHANGED <<degraded, dropped, lost>>
     \/ /\ Len(queue) = QueueSize
        /\ dropped' = dropped + 1 /\ degraded' = TRUE
        /\ lost' = lost \cup {sent'}
        /\ UNCHANGED <<queue, late>>
  /\ UNCHANGED <<batch, loop, after, stopped, connected, written, callVars, countVars>>

----------------------------------------------------------------------------
(* The writer.                                                             *)

(* A broken variant: the batch is filled from its other end. *)
TakeBefore == queue # <<>> /\ batch' = <<Head(queue)>> \o batch /\ queue' = Tail(queue)

(* One entry goes from the queue to the batch.                             *)
Take ==
  /\ queue # <<>>
  /\ batch' = Append(batch, Head(queue)) /\ queue' = Tail(queue)

GoOn(next) ==
  /\ loop' = next
  /\ UNCHANGED <<sent, stopped, connected, degraded, dropped, written, countVars,
                 lost, late>>

(* Write the batch, if there is one, and go on at next.                    *)
GoWrite(next) ==
  /\ GoOn(IF batch' = <<>> THEN next ELSE "writing")
  /\ after' = IF batch' = <<>> THEN after ELSE next

(* An entry is received, in the main loop or while the queue is drained    *)
(* for the last time; a full batch is written at once.                     *)
Receive ==
  /\ loop \in {"idle", "stopping"}
  /\ Take
  /\ IF Len(batch') < BatchSize THEN GoOn(loop) /\ UNCHANGED after ELSE GoWrite(loop)
  /\ UNCHANGED callVars

FlushTick ==
  /\ loop = "idle" /\ batch # <<>>
  /\ UNCHANGED <<batch, queue, callVars>>
  /\ GoWrite("idle")

(* The transaction of writeBatch: all rows of the batch or none.           *)
Commit == written' = written \cup Range(batch) /\ batch' = <<>>

(* flush: connected or, if not, connecting first.                          *)
WriteBatch ==
  /\ loop = "writing"
  /\ Commit
  /\ connected' = TRUE /\ degraded' = FALSE
  /\ loop' = after
  /\ UNCHANGED <<sent, queue, after, stopped, dropped, callVars, countVars,
                 lost, late>>

(* A broken variant: a batch that failed is counted as dropped and kept. *)
KeepFailed == dropped' = dropped + Len(batch) /\ batch' = batch

(* A batch that cannot be written is thrown away and counted.              *)
DropBatch == dropped' = dropped + Len(batch) /\ batch' = <<>>

WriteFail ==
  /\ loop = "writing" /\ failures < MaxFailures
  /\ failures' = failures + 1
  /\ DropBatch
  /\ lost' = lost \cup Range(batch)
  /\ degraded' = TRUE
  /\ flushErr' = (flushErr \/ after = "checking")
  /\ connected' \in {connected, TRUE}
  /\ loop' = after
  /\ UNCHANGED <<sent, queue, after, stopped, written, caller, serving, owed,
                 prunes, late>>

(* The writer takes a caller's request and drains the queue batch by batch *)
(* until it finds it empty after a write.                                  *)
AcceptRequest(c) ==
  /\ loop = "idle" /\ caller[c] = "waiting"
  /\ caller' = [caller EXCEPT ![c] = "accepted"]
  /\ serving' = c /\ flushErr' = FALSE
  /\ owed' = [owed EXCEPT ![c] = Range(queue) \cup Range(batch)]
  /\ UNCHANGED <<queue, batch, after>>
  /\ GoOn("draining")

Drain ==
  /\ loop = "draining" /\ Len(batch) < BatchSize
  /\ Take
  /\ UNCHANGED <<after, callVars>>
  /\ GoOn("draining")

DrainWrite ==
  /\ loop = "draining" /\ (queue = <<>> \/ Len(batch) = BatchSize)
  /\ UNCHANGED <<queue, batch, callVars>>
  /\ GoWrite("checking")

DrainAgain ==
  /\ loop = "checking" /\ queue # <<>>
  /\ UNCHANGED <<queue, batch, after, callVars>>
  /\ GoOn("draining")

AnswerWith(outcome) ==
  /\ loop = "checking"
  /\ caller' = [caller EXCEPT ![serving] = IF @ = "accepted" THEN outcome ELSE @]
  /\ serving' = Nobody /\ flushErr' = FALSE
  /\ UNCHANGED <<queue, batch, after, owed>>
  /\ GoOn("idle")

(* A broken variant: the writer answers after the first batch. *)
AnswerFirst == AnswerWith(IF flushErr THEN "failed" ELSE "ok")

(* A broken variant: a failed write leaves the caller waiting. *)
AnswerHealthy == queue = <<>> /\ ~flushErr /\ AnswerWith("ok")

(* The result channel has room for the answer: the writer never waits for  *)
(* a caller that has gone away.                                            *)
Answer == queue = <<>> /\ AnswerWith(IF flushErr THEN "failed" ELSE "ok")

RetentionTick ==
  /\ loop = "idle" /\ prunes < MaxPrunes
  /\ UNCHANGED <<queue, batch, callVars>>
  /\ loop' = IF batch = <<>> THEN "pruning" ELSE "writing"
  /\ after' = IF batch = <<>> THEN after ELSE "pruning"
  /\ prunes' = prunes + 1
  /\ UNCHANGED <<sent, stopped, connected, degraded, dropped, written, failures,
                 lost, late>>

(* Prune: which rows are old enough is left out; a deletion that fails, or *)
(* finds no connection, leaves the rest for the next day.                  *)
Prune ==
  /\ loop = "pruning"
  /\ \/ connected /\ UNCHANGED <<degraded, failures>>
     \/ ~connected /\ degraded' = TRUE /\ UNCHANGED failures
     \/ connected /\ failures < MaxFailures /\ failures' = failures + 1 /\ degraded' = TRUE
  /\ loop' = "idle"
  /\ UNCHANGED <<sent, queue, batch, after, stopped, connected, dropped, written, callVars,
                 prunes, lost, late>>

SeeStop ==
  /\ loop = "idle" /\ stopped
  /\ UNCHANGED <<queue, batch, after, callVars>>
  /\ GoOn("stopping")

(* A broken variant: the writer ends with entries in the queue. *)
StopUndrained ==
  /\ loop = "stopping"
  /\ UNCHANGED <<queue, batch, callVars>>
  /\ GoWrite("done")

(* A broken variant: a degraded writer does not end. *)
StopHealthy ==
  /\ loop = "stopping" /\ queue = <<>> /\ ~degraded
  /\ UNCHANGED <<queue, batch, callVars>>
  /\ GoWrite("done")

StopDrained ==
  /\ loop = "stopping" /\ queue = <<>>
  /\ UNCHANGED <<queue, batch, callVars>>
  /\ GoWrite("done")

----------------------------------------------------------------------------
(* Close, and the reports.                                                 *)

Stop ==
  /\ ~stopped
  /\ stopped' = TRUE
  /\ UNCHANGED <<sent, queue, batch, loop, after, connected, degraded, dropped,
                 written, callVars, countVars, lost, late>>

CloseDatabase ==
  /\ loop = "done" /\ connected
  /\ connected' = FALSE
  /\ UNCHANGED <<sent, queue, batch, loop, after, stopped, degraded, dropped,
                 written, callVars, countVars, lost, late>>

Caller(c, from, to) ==
  /\ caller[c] \in from
  /\ caller' = [caller EXCEPT ![c] = to]
  /\ UNCHANGED <<sent, queue, batch, loop, after, stopped, connected, dropped,
                 written, serving, flushErr, owed, countVars, lost, late>>

(* A report calls Flush; its request may be cancelled while it waits.      *)
Call(c) == Caller(c, {"out"}, "waiting") /\ UNCHANGED degraded
Cancel(c) == Caller(c, {"waiting", "accepted"}, "cancelled") /\ UNCHANGED degraded

(* The queries of the report; one that fails is noted.                     *)
Query(c) == Caller(c, {"ok"}, "read") /\ degraded' \in {degraded, connected \/ degraded}

Next ==
  \/ Enqueue \/ Receive \/ FlushTick \/ WriteBatch \/ WriteFail
  \/ Drain \/ DrainWrite \/ DrainAgain \/ Answer
  \/ RetentionTick \/ Prune \/ SeeStop \/ StopDrained \/ Stop \/ CloseDatabase
  \/ \E c \in Callers : Call(c) \/ Cancel(c) \/ AcceptRequest(c) \/ Query(c)

(* The writer always goes on, and its select chooses at random among what  *)
(* is ready: what is ready again and again is chosen some day.             *)
Fairness ==
  /\ WF_vars(Receive) /\ WF_vars(WriteBatch)
  /\ WF_vars(Drain) /\ WF_vars(DrainWrite) /\ WF_vars(DrainAgain) /\ WF_vars(Answer)
  /\ WF_vars(Prune) /\ WF_vars(StopDrained)
  /\ SF_vars(SeeStop)
  /\ \A c \in Callers : SF_vars(AcceptRequest(c))

Spec == Init /\ [][Next]_vars /\ Fairness

(* Requests without end, which MaxEntries rules out in Spec: once an entry *)
(* is in the database, its number is free for a new one.                   *)
EnqueueAgain(e) ==
  /\ e \in written /\ Len(queue) < QueueSize
  /\ queue' = Append(queue, e) /\ written' = written \ {e}
  /\ late' = IF stopped THEN late \cup {e} ELSE late
  /\ UNCHANGED <<sent, batch, loop, after, stopped, connected, degraded, dropped,
                 callVars, countVars, lost>>

BusyNext == Next \/ \E e \in Entries : EnqueueAgain(e)
BusySpec == Init /\ [][BusyNext]_vars /\ Fairness

----------------------------------------------------------------------------
(* Properties.                                                             *)

(* Every variable has its type, and the queue and the batch their bounds.  *)
TypeOK ==
  /\ sent \in 0 .. MaxEntries
  /\ queue \in Seq(Entries) /\ Len(queue) <= QueueSize
  /\ batch \in Seq(Entries) /\ Len(batch) <= BatchSize
  /\ loop \in {"idle", "writing", "draining", "checking", "pruning", "stopping", "done"}
  /\ after \in {"idle", "checking", "pruning", "stopping", "done"}
  /\ {stopped, connected, degraded, flushErr} \subseteq BOOLEAN
  /\ dropped \in Nat /\ failures \in 0 .. MaxFailures /\ prunes \in 0 .. MaxPrunes
  /\ caller \in [Callers -> {"out", "waiting", "accepted", "ok", "failed", "cancelled", "read"}]
  /\ serving \in Callers \cup {Nobody}
  /\ written \subseteq Entries /\ lost \subseteq Entries
  /\ owed \in [Callers -> SUBSET Entries] /\ late \subseteq Entries

(* Every entry handed over has exactly one fate: it waits in the queue or  *)
(* in the batch, it is committed once, or it is lost and counted once.     *)
OneFate ==
  /\ 1 .. sent
       = Range(queue) \cup Range(batch) \cup written \cup lost
  /\ Len(queue) = Cardinality(Range(queue)) /\ Len(batch) = Cardinality(Range(batch))
  /\ Range(queue) \cap Range(batch) = {} /\ (Range(queue) \cup Range(batch)) \cap written = {}
  /\ lost \cap (Range(queue) \cup Range(batch) \cup written) = {}
  /\ dropped = Cardinality(lost)

(* A report whose flush succeeded reads everything that waited when the    *)
(* writer took its request, however much was queued since.                 *)
OkMeansWritten ==
  \A c \in Callers : caller[c] \in {"ok", "read"} => owed[c] \subseteq written

(* When Close stops waiting for the writer, all that was queued before the *)
(* stop is written or counted as dropped.                                  *)
StopLeavesNothing == loop = "done" => batch = <<>> /\ Range(queue) \subseteq late

(* Every flush is answered once the requests pause, while the writer is    *)
(* not told to stop, however full the queue was filled during the drain    *)
(* and whichever batches failed.  As long as new entries keep coming in    *)
(* faster than one drain, the code need not answer: it goes on until it    *)
(* finds the queue empty.                                                  *)
RequestsPause == <>[][Len(queue') <= Len(queue)]_vars
FlushAnswered ==
  RequestsPause =>
    \A c \in Callers :
      caller[c] = "waiting" ~> (caller[c] \notin {"waiting", "accepted"} \/ stopped)

(* The writer ends after Close told it to.                                 *)
CloseEnds == stopped ~> loop = "done"

(* The telemetry implements RequestLog: the batch and the queue behind it  *)
(* wait, whatever the writer is doing, and leave in the order they came    *)
(* (writeBatch numbers the rows in it); a report is told that it failed    *)
(* exactly if a batch was lost after its request was taken.                *)
Log == INSTANCE RequestLog WITH
  waiting <- batch \o queue,
  logged  <- written,
  report  <- [c \in Callers |-> IF caller[c] = "accepted" /\ flushErr THEN "spoiled" ELSE caller[c]]

KeepsLog == Log!Spec
=============================================================================
