-------------------------- MODULE TelemetryProofs --------------------------
(***************************************************************************)
(* Proofs about Telemetry, for every number of entries and reports, every  *)
(* capacity of the queue and of the batch, and every bound on failures.    *)
(***************************************************************************)
EXTENDS Telemetry, TLAPS, FiniteSetTheorems, SequenceTheorems

(* No entry occurs twice in s. *)
Once(s) == \A i, j \in 1 .. Len(s) : s[i] = s[j] => i = j

(* The part of OneFate that is about which entries are where. *)
Placed ==
  /\ 1 .. sent = Range(queue) \cup Range(batch) \cup written \cup lost
  /\ Range(queue) \cap Range(batch) = {}
  /\ (Range(queue) \cup Range(batch)) \cap written = {}
  /\ lost \cap (Range(queue) \cup Range(batch) \cup written) = {}
  /\ Once(queue) /\ Once(batch)

Counted == dropped = Cardinality(lost)

(* Where the writer is, or goes on after the write it is about to make. *)
Heading == IF loop = "writing" THEN after ELSE loop

(* Where the writer is tells how full the batch may be ... *)
BatchRoom ==
  /\ loop \in {"idle", "stopping", "pruning"} => Len(batch) < BatchSize
  /\ loop \in {"checking", "done"} => batch = <<>>

(* ... whom it works for, and what it owes that report ... *)
Serves ==
  /\ \A c \in Callers : caller[c] = "accepted" => serving = c
  /\ serving # Nobody => Heading \in {"draining", "checking"}
  /\ serving # Nobody /\ ~flushErr =>
       owed[serving] \subseteq Range(queue) \cup Range(batch) \cup written

(* ... and whether Close waits for it. *)
Stopping ==
  /\ Heading \in {"stopping", "done"} => stopped
  /\ Heading = "done" => Range(queue) \subseteq late

IInv == TypeOK /\ Placed /\ Counted /\ BatchRoom /\ Serves /\ Stopping /\ OkMeansWritten

----------------------------------------------------------------------------
(* Sequences and the set of their elements.                                *)

LEMMA RangeOf ==
  ASSUME NEW S, NEW s \in Seq(S)
  PROVE  /\ Range(s) = {s[i] : i \in 1 .. Len(s)}
         /\ Range(s) \subseteq S
         /\ Range(s) = {} <=> s = <<>>
  BY DEF Range

LEMMA EmptyRange == Range(<<>>) = {} /\ Once(<<>>)
  BY DEF Range, Once

(* A new entry goes to the end of the queue ... *)
LEMMA RangeAppend ==
  ASSUME NEW S, NEW s \in Seq(S), NEW x \in S
  PROVE  /\ Append(s, x) \in Seq(S) /\ Len(Append(s, x)) = Len(s) + 1
         /\ Range(Append(s, x)) = Range(s) \cup {x}
         /\ Once(s) /\ x \notin Range(s) => Once(Append(s, x))
<1> DEFINE t == Append(s, x)
<1>1. /\ t \in Seq(S) /\ Len(t) = Len(s) + 1 /\ Len(s) \in Nat
      /\ \A i \in 1 .. Len(s) : t[i] = s[i]
      /\ t[Len(s) + 1] = x
  OBVIOUS
<1> HIDE DEF t
<1>2. Range(t) = {t[i] : i \in 1 .. Len(t)} /\ Range(s) = {s[i] : i \in 1 .. Len(s)}
  BY <1>1, RangeOf
<1>3. \A i \in 1 .. Len(s) + 1 : i \in 1 .. Len(s) \/ i = Len(s) + 1
  BY <1>1
<1>4. Range(t) = Range(s) \cup {x}
  BY <1>1, <1>2, <1>3
<1>5. ASSUME Once(s), x \notin Range(s) PROVE Once(t)
  BY <1>1, <1>2, <1>3, <1>5 DEF Once
<1> QED
  BY <1>1, <1>4, <1>5 DEF t

(* ... and leaves it at the front. *)
LEMMA RangeTail ==
  ASSUME NEW S, NEW s \in Seq(S), s # <<>>
  PROVE  /\ Head(s) \in S /\ Tail(s) \in Seq(S) /\ Len(Tail(s)) = Len(s) - 1
         /\ Range(s) = Range(Tail(s)) \cup {Head(s)}
         /\ Once(s) => Once(Tail(s)) /\ Head(s) \notin Range(Tail(s))
<1> DEFINE t == Tail(s)
<1>1. /\ t \in Seq(S) /\ Len(t) = Len(s) - 1 /\ Len(s) \in Nat \ {0}
      /\ \A i \in 1 .. Len(t) : t[i] = s[i + 1]
      /\ Head(s) = s[1] /\ s[1] \in S
  OBVIOUS
<1> HIDE DEF t
<1>2. Range(t) = {t[i] : i \in 1 .. Len(t)} /\ Range(s) = {s[i] : i \in 1 .. Len(s)}
  BY <1>1, RangeOf
<1>3. \A i \in 1 .. Len(s) : i = 1 \/ (i - 1 \in 1 .. Len(t) /\ s[i] = t[i - 1])
  BY <1>1
<1>4. \A i \in 1 .. Len(t) : i + 1 \in 1 .. Len(s) /\ i + 1 # 1
  BY <1>1
<1>5. Range(s) = Range(t) \cup {Head(s)}
  <2>1. Range(s) \subseteq Range(t) \cup {Head(s)}
    <3> SUFFICES ASSUME NEW i \in 1 .. Len(s) PROVE s[i] \in Range(t) \cup {Head(s)}
      BY <1>2
    <3> QED
      BY <1>1, <1>2, <1>3
  <2>2. Range(t) \subseteq Range(s)
    BY <1>1, <1>2, <1>4
  <2>3. Head(s) \in Range(s)
    BY <1>1, <1>2
  <2> QED
    BY <2>1, <2>2, <2>3
<1>6. ASSUME Once(s) PROVE Once(t) /\ Head(s) \notin Range(t)
  <2>1. Once(t)
    BY <1>1, <1>4, <1>6 DEF Once
  <2>2. Head(s) \notin Range(t)
    BY <1>1, <1>2, <1>4, <1>6 DEF Once
  <2> QED
    BY <2>1, <2>2
<1> QED
  BY <1>1, <1>5, <1>6 DEF t

LEMMA CountOnce ==
  ASSUME NEW S, NEW s \in Seq(S), Once(s)
  PROVE  IsFiniteSet(Range(s)) /\ Cardinality(Range(s)) = Len(s)
<1>1. Len(s) \in Nat /\ s \in [1 .. Len(s) -> Range(s)]
  BY RangeOf
<1>2. s \in Bijection(1 .. Len(s), Range(s))
  BY <1>1, RangeOf DEF Once, Bijection, Injection, Surjection, IsInjective
<1>3. ExistsBijection(1 .. Len(s), Range(s))
  BY <1>2 DEF ExistsBijection
<1>4. IsFiniteSet(Range(s))
  BY <1>1, <1>3, FS_NatBijection
<1> QED
  BY <1>1, <1>3, <1>4, FS_CountingElements

(* What is in flight: nothing but the entries that were handed over. *)
LEMMA LostIsFinite ==
  ASSUME TypeOK
  PROVE  IsFiniteSet(lost) /\ IsFiniteSet(Range(batch)) /\ IsFiniteSet(Entries)
<1>1. IsFiniteSet(Entries)
  BY FS_Interval, TelemetryAssumption DEF Entries
<1>2. lost \subseteq Entries /\ Range(batch) \subseteq Entries
  BY RangeOf DEF TypeOK
<1> QED
  BY <1>1, <1>2, FS_Subset

----------------------------------------------------------------------------
(* Steps that several actions share.                                       *)

LEMMA InitInv == Init => IInv
<1> SUFFICES ASSUME Init PROVE IInv
  OBVIOUS
<1>1. TypeOK
  <2>1. {stopped, connected, degraded, flushErr} \subseteq BOOLEAN
    BY Zenon DEF Init
  <2>2. queue \in Seq(Entries) /\ Len(queue) = 0 /\ batch \in Seq(Entries) /\ Len(batch) = 0
    BY DEF Init
  <2> QED
    BY <2>1, <2>2, TelemetryAssumption DEF Init, TypeOK
<1>2. Placed
  BY EmptyRange DEF Init, Placed
<1>3. Counted
  BY FS_EmptySet DEF Init, Counted
<1>4. BatchRoom /\ Serves /\ Stopping /\ OkMeansWritten
  BY TelemetryAssumption DEF Init, BatchRoom, Serves, Stopping, Heading, OkMeansWritten
<1> QED
  BY <1>1, <1>2, <1>3, <1>4 DEF IInv

(* An entry that changes its place from the queue to the batch. *)
LEMMA Taken ==
  ASSUME TypeOK, Placed, Take
  PROVE  /\ queue' \in Seq(Entries) /\ Len(queue') <= QueueSize
         /\ batch' \in Seq(Entries) /\ Len(batch') = Len(batch) + 1 /\ batch' # <<>>
         /\ Range(queue') \subseteq Range(queue)
         /\ Range(queue') \cup Range(batch') = Range(queue) \cup Range(batch)
         /\ Range(queue') \cap Range(batch') = {}
         /\ Once(queue') /\ Once(batch')
<1> DEFINE x == Head(queue)
<1>1. /\ queue \in Seq(Entries) /\ Len(queue) \in Nat /\ Len(queue) <= QueueSize
      /\ batch \in Seq(Entries) /\ Len(batch) \in Nat /\ QueueSize \in Nat
  BY TelemetryAssumption DEF TypeOK
<1>2. queue # <<>> /\ queue' = Tail(queue) /\ batch' = Append(batch, x)
  BY DEF Take
<1>3. /\ x \in Entries /\ queue' \in Seq(Entries) /\ Len(queue') = Len(queue) - 1
      /\ Range(queue) = Range(queue') \cup {x}
      /\ Once(queue') /\ x \notin Range(queue')
  BY <1>1, <1>2, RangeTail DEF Placed
<1>4. x \notin Range(batch)
  BY <1>3 DEF Placed
<1>5. /\ batch' \in Seq(Entries) /\ Len(batch') = Len(batch) + 1
      /\ Range(batch') = Range(batch) \cup {x} /\ Once(batch')
  BY <1>1, <1>2, <1>3, <1>4, RangeAppend DEF Placed
<1>6. batch' # <<>> /\ Len(queue') <= QueueSize
  BY <1>1, <1>2, <1>3
<1>7. Range(queue') \cap Range(batch') = {}
  BY <1>3, <1>5 DEF Placed
<1> HIDE DEF x
<1> QED
  BY <1>3, <1>5, <1>6, <1>7

(* The batch, once it is gone: to the database or for ever. *)
LEMMA Emptied ==
  ASSUME TypeOK, batch' = <<>>
  PROVE  /\ batch' \in Seq(Entries) /\ Len(batch') = 0 /\ Range(batch') = {} /\ Once(batch')
         /\ Range(batch) \subseteq Entries
  BY EmptyRange, RangeOf DEF TypeOK

(* The parts that no step of the writer touches. *)
LEMMA TypeParts ==
  ASSUME TypeOK
  PROVE  /\ sent \in 0 .. MaxEntries /\ dropped \in Nat
         /\ queue \in Seq(Entries) /\ Len(queue) \in Nat /\ Len(queue) <= QueueSize
         /\ batch \in Seq(Entries) /\ Len(batch) \in Nat /\ Len(batch) <= BatchSize
         /\ QueueSize \in Nat \ {0} /\ BatchSize \in Nat \ {0} /\ MaxEntries \in Nat
         /\ serving \in Callers \cup {Nobody} /\ Nobody \notin Callers
         /\ stopped \in BOOLEAN /\ connected \in BOOLEAN /\ degraded \in BOOLEAN
         /\ flushErr \in BOOLEAN
         /\ Range(queue) \subseteq Entries /\ Range(batch) \subseteq Entries
         /\ (Len(batch) = 0 <=> batch = <<>>)
<1>1. Range(queue) \subseteq Entries /\ Range(batch) \subseteq Entries
  BY RangeOf DEF TypeOK
<1> QED
  BY <1>1, TelemetryAssumption DEF TypeOK

----------------------------------------------------------------------------
(* The producers.                                                          *)

LEMMA InvEnqueue ==
  ASSUME IInv, Enqueue
  PROVE  IInv'
<1> DEFINE x == sent + 1
<1>1. TypeOK /\ sent \in 0 .. MaxEntries /\ sent' = x /\ x \in Entries
  BY TypeParts DEF IInv, Enqueue, Entries
<1>2. x \notin 1 .. sent /\ 1 .. sent' = (1 .. sent) \cup {x}
  BY <1>1
<1>3. x \notin Range(queue) \cup Range(batch) \cup written \cup lost
  BY <1>2 DEF IInv, Placed
<1>4. /\ UNCHANGED <<batch, loop, after, stopped, connected, written, callVars, countVars>>
      /\ UNCHANGED Heading
  BY DEF Enqueue, callVars, countVars, Heading
<1> HIDE DEF x
<1>5. CASE Len(queue) < QueueSize /\ queue' = Append(queue, sent')
           /\ late' = (IF stopped THEN late \cup {sent'} ELSE late)
           /\ UNCHANGED <<degraded, dropped, lost>>
  <2>1. /\ queue' \in Seq(Entries) /\ Len(queue') = Len(queue) + 1
        /\ Range(queue') = Range(queue) \cup {x} /\ Once(queue')
    BY <1>1, <1>3, <1>5, RangeAppend, TypeParts DEF IInv, Placed
  <2>2. TypeOK'
    BY <1>1, <1>4, <1>5, <2>1, TypeParts DEF TypeOK, callVars, countVars, Entries
  <2>3. Placed'
    BY <1>1, <1>2, <1>3, <1>4, <1>5, <2>1 DEF IInv, Placed
  <2>4. Counted' /\ BatchRoom' /\ OkMeansWritten'
    BY <1>4, <1>5 DEF IInv, Counted, BatchRoom, OkMeansWritten, callVars
  <2>5. Serves'
    BY <1>4, <2>1 DEF IInv, Serves, callVars
  <2>6. Stopping'
    <3>1. /\ Heading \in {"stopping", "done"} => stopped
          /\ Heading = "done" => Range(queue) \subseteq late
      BY DEF IInv, Stopping
    <3>2. Heading' = Heading /\ stopped' = stopped /\ Range(queue') = Range(queue) \cup {x}
      BY <1>4, <2>1
    <3>3. stopped => late' = late \cup {x}
      BY <1>1, <1>5
    <3> QED
      BY <3>1, <3>2, <3>3 DEF Stopping
  <2> QED
    BY <2>2, <2>3, <2>4, <2>5, <2>6 DEF IInv
<1>6. CASE Len(queue) = QueueSize /\ dropped' = dropped + 1 /\ degraded' = TRUE
           /\ lost' = lost \cup {sent'} /\ UNCHANGED <<queue, late>>
  <2>1. TypeOK'
    <3>1. sent' \in 0 .. MaxEntries /\ sent' \in Entries
      BY <1>1 DEF Entries
    <3>2. dropped' \in Nat /\ lost' \subseteq Entries
      BY <1>1, <1>6, <3>1, TypeParts DEF TypeOK
    <3>3. UNCHANGED <<queue, batch, loop, after, stopped, connected, flushErr, failures, prunes,
                      caller, serving, written, owed, late>> /\ degraded' = TRUE
      BY <1>4, <1>6 DEF callVars, countVars
    <3> QED
      BY <1>1, <3>1, <3>2, <3>3 DEF TypeOK
  <2>2. Placed'
    BY <1>1, <1>2, <1>3, <1>4, <1>6 DEF IInv, Placed
  <2>3. Counted'
    BY <1>1, <1>3, <1>6, LostIsFinite, FS_AddElement DEF IInv, Counted
  <2>4. BatchRoom' /\ Serves' /\ Stopping' /\ OkMeansWritten'
    BY <1>4, <1>6 DEF IInv, BatchRoom, Serves, Stopping, OkMeansWritten, callVars
  <2> QED
    BY <2>1, <2>2, <2>3, <2>4 DEF IInv
<1> QED
  BY <1>5, <1>6 DEF Enqueue

----------------------------------------------------------------------------
(* The writer.                                                             *)

(* Where the writer goes on after it may have had to write first. *)
LEMMA GoneToWrite ==
  ASSUME TypeOK, NEW next \in {"idle", "checking", "pruning", "stopping", "done"}, GoWrite(next)
  PROVE  /\ loop' \in {"idle", "writing", "checking", "pruning", "stopping", "done"}
         /\ after' \in {"idle", "checking", "pruning", "stopping", "done"}
         /\ Heading' = next
         /\ loop' # "writing" => batch' = <<>>
         /\ UNCHANGED <<sent, stopped, connected, degraded, dropped, written, countVars,
                        lost, late>>
  BY DEF GoWrite, GoOn, Heading, TypeOK

LEMMA InvReceive ==
  ASSUME IInv, Receive
  PROVE  IInv'
<1>1. TypeOK /\ Placed /\ Take /\ loop \in {"idle", "stopping"} /\ UNCHANGED callVars
  BY DEF IInv, Receive
<1>2. /\ queue' \in Seq(Entries) /\ Len(queue') <= QueueSize
      /\ batch' \in Seq(Entries) /\ Len(batch') = Len(batch) + 1 /\ batch' # <<>>
      /\ Range(queue') \subseteq Range(queue)
      /\ Range(queue') \cup Range(batch') = Range(queue) \cup Range(batch)
      /\ Range(queue') \cap Range(batch') = {}
      /\ Once(queue') /\ Once(batch')
  BY <1>1, Taken
<1>3. Len(batch') <= BatchSize
  BY <1>1, <1>2, TypeParts DEF IInv, BatchRoom
<1>4. /\ UNCHANGED <<sent, stopped, connected, degraded, dropped, written, countVars, lost, late>>
      /\ loop' \in {loop, "writing"} /\ Heading' = loop
      /\ after' \in {"idle", "checking", "pruning", "stopping", "done"}
      /\ loop' # "writing" => Len(batch') < BatchSize
  BY <1>1, <1>2 DEF Receive, GoOn, GoWrite, Heading, TypeOK
<1>5. TypeOK'
  BY <1>1, <1>2, <1>3, <1>4 DEF TypeOK, callVars, countVars
<1>6. Placed'
  BY <1>2, <1>4 DEF IInv, Placed
<1>7. serving = Nobody
  BY <1>1 DEF IInv, Serves, Heading
<1>8. Counted' /\ BatchRoom' /\ Serves' /\ OkMeansWritten'
  BY <1>1, <1>4, <1>7 DEF IInv, Counted, BatchRoom, Serves, OkMeansWritten, callVars
<1>9. Stopping'
  BY <1>1, <1>2, <1>4 DEF IInv, Stopping, Heading
<1> QED
  BY <1>5, <1>6, <1>8, <1>9 DEF IInv

(* A step that moves no entry and leaves the callers alone; the writer goes *)
(* on at next, after a write if its batch is not empty.                     *)
LEMMA InvGoWrite ==
  ASSUME IInv, NEW next \in {"idle", "checking", "pruning", "stopping", "done"}, GoWrite(next),
         UNCHANGED <<batch, queue, callVars>>,
         serving # Nobody => next = "checking",
         next \in {"stopping", "done"} => stopped,
         next = "done" => queue = <<>>
  PROVE  IInv'
<1>1. TypeOK
  BY DEF IInv
<1>2. /\ loop' \in {"idle", "writing", "checking", "pruning", "stopping", "done"}
      /\ after' \in {"idle", "checking", "pruning", "stopping", "done"}
      /\ Heading' = next
      /\ loop' # "writing" => batch' = <<>>
      /\ UNCHANGED <<sent, stopped, connected, degraded, dropped, written, countVars, lost, late>>
  BY <1>1, GoneToWrite
<1>3. TypeOK'
  BY <1>1, <1>2 DEF TypeOK, callVars, countVars
<1>4. Placed' /\ Counted' /\ OkMeansWritten'
  BY <1>2 DEF IInv, Placed, Counted, OkMeansWritten, callVars
<1>5. BatchRoom'
  BY <1>1, <1>2, TypeParts DEF BatchRoom
<1>6. Serves'
  BY <1>2 DEF IInv, Serves, callVars
<1>7. Stopping'
  BY <1>2, EmptyRange DEF Stopping
<1> QED
  BY <1>3, <1>4, <1>5, <1>6, <1>7 DEF IInv

LEMMA InvFlushTick == ASSUME IInv, FlushTick PROVE IInv'
<1>1. loop = "idle" /\ serving = Nobody
  BY DEF IInv, FlushTick, Serves, Heading
<1> QED
  BY <1>1, InvGoWrite DEF FlushTick

LEMMA InvDrainWrite == ASSUME IInv, DrainWrite PROVE IInv'
  BY InvGoWrite DEF DrainWrite

LEMMA InvStopDrained == ASSUME IInv, StopDrained PROVE IInv'
<1>1. loop = "stopping" /\ serving = Nobody /\ stopped
  BY DEF IInv, StopDrained, Serves, Stopping, Heading
<1> QED
  BY <1>1, InvGoWrite DEF StopDrained

LEMMA InvRetentionTick ==
  ASSUME IInv, RetentionTick
  PROVE  IInv'
<1>1. /\ loop = "idle" /\ loop' \in {"writing", "pruning"}
      /\ after' \in {after, "pruning"} /\ Heading' = "pruning"
      /\ loop' = "pruning" => batch = <<>>
      /\ prunes' \in 0 .. MaxPrunes
      /\ UNCHANGED <<queue, batch, callVars, sent, stopped, connected, degraded, dropped, written,
                     failures, lost, late>>
  BY TelemetryAssumption DEF IInv, TypeOK, RetentionTick, Heading
<1>2. serving = Nobody
  BY <1>1 DEF IInv, Serves, Heading
<1>3. TypeOK'
  BY <1>1 DEF IInv, TypeOK, callVars
<1>4. Placed' /\ Counted' /\ OkMeansWritten' /\ Stopping'
  BY <1>1 DEF IInv, Placed, Counted, OkMeansWritten, Stopping, callVars
<1>5. BatchRoom' /\ Serves'
  BY <1>1, <1>2, TypeParts DEF IInv, BatchRoom, Serves, callVars
<1> QED
  BY <1>3, <1>4, <1>5 DEF IInv

LEMMA InvWriteBatch ==
  ASSUME IInv, WriteBatch
  PROVE  IInv'
<1>1. /\ TypeOK /\ loop = "writing" /\ loop' = after /\ after \in {"idle", "checking", "pruning", "stopping", "done"}
      /\ written' = written \cup Range(batch) /\ batch' = <<>>
      /\ connected' = TRUE /\ degraded' = FALSE
      /\ UNCHANGED <<sent, queue, after, stopped, dropped, callVars, countVars, lost, late>>
  BY DEF IInv, TypeOK, WriteBatch, Commit
<1>2. Heading' = Heading
  BY <1>1 DEF Heading
<1>3. /\ batch' \in Seq(Entries) /\ Len(batch') = 0 /\ Range(batch') = {} /\ Once(batch')
      /\ Range(batch) \subseteq Entries
  BY <1>1, Emptied
<1>4. TypeOK'
  <2>1. {stopped', connected', degraded', flushErr'} \subseteq BOOLEAN
    BY <1>1, TypeParts DEF callVars
  <2> QED
    BY <1>1, <1>3, <2>1, TelemetryAssumption DEF TypeOK, callVars, countVars
<1>5. Placed' /\ Counted'
  BY <1>1, <1>3 DEF IInv, Placed, Counted
<1>6. BatchRoom'
  BY <1>1, <1>3, TelemetryAssumption DEF BatchRoom
<1>7. Serves' /\ Stopping'
  BY <1>1, <1>2, <1>3 DEF IInv, Serves, Stopping, callVars
<1>8. OkMeansWritten'
  BY <1>1 DEF IInv, OkMeansWritten, callVars
<1> QED
  BY <1>4, <1>5, <1>6, <1>7, <1>8 DEF IInv

LEMMA InvWriteFail ==
  ASSUME IInv, WriteFail
  PROVE  IInv'
<1>1. /\ TypeOK /\ loop = "writing" /\ loop' = after /\ after \in {"idle", "checking", "pruning", "stopping", "done"}
      /\ failures' \in 0 .. MaxFailures
      /\ dropped' = dropped + Len(batch) /\ batch' = <<>> /\ lost' = lost \cup Range(batch)
      /\ degraded' = TRUE /\ connected' \in {connected, TRUE}
      /\ UNCHANGED <<sent, queue, after, stopped, written, caller, serving, owed, prunes, late>>
  <2>1. failures' \in 0 .. MaxFailures
    BY TelemetryAssumption DEF IInv, TypeOK, WriteFail
  <2>2. connected' \in {connected, TRUE}
    BY Zenon DEF WriteFail
  <2>3. after \in {"idle", "checking", "pruning", "stopping", "done"}
    BY DEF IInv, TypeOK
  <2> QED
    BY <2>1, <2>2, <2>3 DEF IInv, WriteFail, DropBatch
<1>2. Heading = after /\ Heading' = after
  BY <1>1 DEF Heading
<1>3. /\ batch' \in Seq(Entries) /\ Len(batch') = 0 /\ Range(batch') = {} /\ Once(batch')
      /\ Range(batch) \subseteq Entries
  BY <1>1, Emptied
<1>4. TypeOK'
  <2>1. {stopped', connected', degraded', flushErr'} \subseteq BOOLEAN
    <3>1. flushErr' \in BOOLEAN
      BY Zenon DEF WriteFail
    <3> QED
      BY <1>1, <3>1, TypeParts
  <2> QED
    BY <1>1, <1>3, <2>1, TypeParts DEF TypeOK
<1>5. Placed'
  BY <1>1, <1>3 DEF IInv, Placed
<1>6. Counted'
  <2>1. lost \cap Range(batch) = {} /\ Once(batch) /\ dropped = Cardinality(lost)
    BY DEF IInv, Placed, Counted
  <2>2. IsFiniteSet(lost) /\ IsFiniteSet(Range(batch)) /\ Cardinality(Range(batch)) = Len(batch)
    BY <1>1, <2>1, LostIsFinite, CountOnce, TypeParts
  <2>3. Cardinality(lost \cup Range(batch))
          = Cardinality(lost) + Cardinality(Range(batch)) - Cardinality(lost \cap Range(batch))
    BY <2>2, FS_Union
  <2>4. Cardinality(lost \cap Range(batch)) = 0
    BY <2>1, FS_EmptySet
  <2>5. Cardinality(lost) \in Nat /\ Len(batch) \in Nat
    BY <1>1, <2>2, FS_CardinalityType, TypeParts
  <2> QED
    BY <1>1, <2>1, <2>2, <2>3, <2>4, <2>5 DEF Counted
<1>7. BatchRoom'
  BY <1>1, <1>3, TelemetryAssumption DEF BatchRoom
<1>8. Serves'
  <2>1. serving # Nobody => after = "checking"
    BY <1>1, <1>2 DEF IInv, Serves
  <2>2. flushErr' = (flushErr \/ after = "checking")
    BY DEF WriteFail
  <2>3. serving # Nobody => flushErr'
    BY <2>1, <2>2
  <2> QED
    BY <1>1, <1>2, <2>3 DEF IInv, Serves
<1>9. Stopping' /\ OkMeansWritten'
  BY <1>1, <1>2 DEF IInv, Stopping, OkMeansWritten
<1> QED
  BY <1>4, <1>5, <1>6, <1>7, <1>8, <1>9 DEF IInv

LEMMA InvAcceptRequest ==
  ASSUME IInv, NEW c \in Callers, AcceptRequest(c)
  PROVE  IInv'
<1>1. /\ TypeOK /\ loop = "idle" /\ caller[c] = "waiting" /\ loop' = "draining"
      /\ caller' = [caller EXCEPT ![c] = "accepted"] /\ serving' = c /\ flushErr' = FALSE
      /\ owed' = [owed EXCEPT ![c] = Range(queue) \cup Range(batch)]
      /\ UNCHANGED <<queue, batch, after, sent, stopped, connected, degraded, dropped, written,
                     countVars, lost, late>>
  BY DEF IInv, AcceptRequest, GoOn
<1>2. serving = Nobody /\ \A d \in Callers : caller[d] # "accepted"
  BY <1>1, TelemetryAssumption DEF IInv, Serves, Heading
<1>3. caller \in [Callers -> {"out", "waiting", "accepted", "ok", "failed", "cancelled", "read"}]
      /\ owed \in [Callers -> SUBSET Entries]
  BY <1>1 DEF TypeOK
<1>4. TypeOK'
  BY <1>1, <1>3, TypeParts DEF TypeOK, countVars
<1>5. Placed' /\ Counted'
  BY <1>1 DEF IInv, Placed, Counted
<1>6. BatchRoom' /\ Stopping'
  BY <1>1 DEF BatchRoom, Stopping, Heading
<1>7. Serves'
  BY <1>1, <1>2, <1>3 DEF Serves, Heading
<1>8. OkMeansWritten'
  BY <1>1, <1>3 DEF IInv, OkMeansWritten
<1> QED
  BY <1>4, <1>5, <1>6, <1>7, <1>8 DEF IInv

LEMMA InvDrain ==
  ASSUME IInv, Drain
  PROVE  IInv'
<1>1. /\ TypeOK /\ Placed /\ Take /\ loop = "draining" /\ loop' = "draining" /\ Len(batch) < BatchSize
      /\ UNCHANGED <<after, callVars, sent, stopped, connected, degraded, dropped, written,
                     countVars, lost, late>>
  BY DEF IInv, Drain, GoOn
<1>2. /\ queue' \in Seq(Entries) /\ Len(queue') <= QueueSize
      /\ batch' \in Seq(Entries) /\ Len(batch') = Len(batch) + 1
      /\ Range(queue') \cup Range(batch') = Range(queue) \cup Range(batch)
      /\ Range(queue') \cap Range(batch') = {}
      /\ Once(queue') /\ Once(batch')
  BY <1>1, Taken
<1>3. TypeOK'
  BY <1>1, <1>2, TypeParts DEF TypeOK, callVars, countVars
<1>4. Placed' /\ Counted'
  BY <1>1, <1>2 DEF IInv, Placed, Counted
<1>5. BatchRoom' /\ Stopping'
  BY <1>1 DEF BatchRoom, Stopping, Heading
<1>6. Serves' /\ OkMeansWritten'
  BY <1>1, <1>2 DEF IInv, Serves, Heading, OkMeansWritten, callVars
<1> QED
  BY <1>3, <1>4, <1>5, <1>6 DEF IInv

LEMMA InvDrainAgain ==
  ASSUME IInv, DrainAgain
  PROVE  IInv'
<1>1. /\ TypeOK /\ loop = "checking" /\ loop' = "draining"
      /\ UNCHANGED <<queue, batch, after, callVars, sent, stopped, connected, degraded, dropped,
                     written, countVars, lost, late>>
  BY DEF IInv, DrainAgain, GoOn
<1>2. TypeOK'
  BY <1>1 DEF TypeOK, callVars, countVars
<1>3. Placed' /\ Counted' /\ BatchRoom' /\ Stopping' /\ Serves' /\ OkMeansWritten'
  BY <1>1 DEF IInv, Placed, Counted, BatchRoom, Stopping, Serves, Heading, OkMeansWritten, callVars
<1> QED
  BY <1>2, <1>3 DEF IInv

(* The answer: nothing waits any more, so what the report is owed is written. *)
LEMMA InvAnswer ==
  ASSUME IInv, Answer
  PROVE  IInv'
<1> DEFINE outcome == IF flushErr THEN "failed" ELSE "ok"
<1>1. /\ TypeOK /\ loop = "checking" /\ loop' = "idle" /\ queue = <<>>
      /\ caller' = [caller EXCEPT ![serving] = IF @ = "accepted" THEN outcome ELSE @]
      /\ serving' = Nobody /\ flushErr' = FALSE
      /\ UNCHANGED <<queue, batch, after, owed, sent, stopped, connected, degraded, dropped,
                     written, countVars, lost, late>>
  BY DEF IInv, Answer, AnswerWith, GoOn
<1>2. batch = <<>>
  BY <1>1 DEF IInv, BatchRoom
<1>3. caller \in [Callers -> {"out", "waiting", "accepted", "ok", "failed", "cancelled", "read"}]
      /\ owed \in [Callers -> SUBSET Entries]
  BY <1>1 DEF TypeOK
<1>4. outcome \in {"failed", "ok"} /\ (outcome = "ok" => ~flushErr)
  OBVIOUS
<1> HIDE DEF outcome
<1>5. /\ caller' \in [Callers -> {"out", "waiting", "accepted", "ok", "failed", "cancelled", "read"}]
      /\ \A c \in Callers : \/ caller'[c] = caller[c] /\ (c = serving => caller[c] # "accepted")
                            \/ c = serving /\ caller'[c] = outcome
  BY <1>1, <1>3, <1>4
<1>6. TypeOK'
  BY <1>1, <1>5 DEF TypeOK, countVars
<1>7. Placed' /\ Counted'
  BY <1>1 DEF IInv, Placed, Counted
<1>8. BatchRoom' /\ Stopping'
  BY <1>1, <1>2, TelemetryAssumption DEF BatchRoom, Stopping, Heading
<1>9. Serves'
  BY <1>1, <1>4, <1>5 DEF IInv, Serves
<1>10. OkMeansWritten'
  <2>1. serving # Nobody /\ ~flushErr => owed[serving] \subseteq written
    BY <1>1, <1>2, EmptyRange DEF IInv, Serves
  <2> QED
    BY <1>1, <1>4, <1>5, <2>1, TelemetryAssumption DEF IInv, OkMeansWritten
<1> QED
  BY <1>6, <1>7, <1>8, <1>9, <1>10 DEF IInv

LEMMA InvPrune ==
  ASSUME IInv, Prune
  PROVE  IInv'
<1>1. /\ TypeOK /\ loop = "pruning" /\ loop' = "idle"
      /\ degraded' \in {degraded, TRUE} /\ failures' \in 0 .. MaxFailures
      /\ UNCHANGED <<sent, queue, batch, after, stopped, connected, dropped, written, callVars,
                     prunes, lost, late>>
  <2>1. degraded' \in {degraded, TRUE}
    BY DEF Prune
  <2>2. failures' = failures \/ (failures < MaxFailures /\ failures' = failures + 1)
    BY DEF Prune
  <2>3. failures' \in 0 .. MaxFailures
    BY <2>2, TelemetryAssumption DEF IInv, TypeOK
  <2> QED
    BY <2>1, <2>3 DEF IInv, Prune
<1>2. TypeOK'
  BY <1>1 DEF TypeOK, callVars
<1>3. Placed' /\ Counted' /\ BatchRoom' /\ Stopping' /\ Serves' /\ OkMeansWritten'
  BY <1>1 DEF IInv, Placed, Counted, BatchRoom, Stopping, Serves, Heading, OkMeansWritten, callVars
<1> QED
  BY <1>2, <1>3 DEF IInv

LEMMA InvSeeStop ==
  ASSUME IInv, SeeStop
  PROVE  IInv'
<1>1. /\ TypeOK /\ loop = "idle" /\ stopped /\ loop' = "stopping"
      /\ UNCHANGED <<queue, batch, after, callVars, sent, stopped, connected, degraded, dropped,
                     written, countVars, lost, late>>
  BY DEF IInv, SeeStop, GoOn
<1>2. TypeOK'
  BY <1>1 DEF TypeOK, callVars, countVars
<1>3. Placed' /\ Counted' /\ BatchRoom' /\ Stopping' /\ Serves' /\ OkMeansWritten'
  BY <1>1 DEF IInv, Placed, Counted, BatchRoom, Stopping, Serves, Heading, OkMeansWritten, callVars
<1> QED
  BY <1>2, <1>3 DEF IInv

----------------------------------------------------------------------------
(* Close, and the reports.                                                 *)

LEMMA InvStop ==
  ASSUME IInv, Stop \/ CloseDatabase
  PROVE  IInv'
<1>1. /\ TypeOK /\ stopped' \in {stopped, TRUE} /\ connected' \in {connected, FALSE}
      /\ UNCHANGED <<sent, queue, batch, loop, after, degraded, dropped, written, callVars,
                     countVars, lost, late>>
  BY DEF IInv, Stop, CloseDatabase
<1>2. TypeOK'
  BY <1>1 DEF TypeOK, callVars, countVars
<1>3. Placed' /\ Counted' /\ BatchRoom' /\ Serves' /\ OkMeansWritten'
  BY <1>1 DEF IInv, Placed, Counted, BatchRoom, Serves, Heading, OkMeansWritten, callVars
<1>4. stopped => stopped'
  BY <1>1
<1>5. Stopping'
  BY <1>1, <1>4 DEF IInv, Stopping, Heading
<1> QED
  BY <1>2, <1>3, <1>5 DEF IInv

LEMMA InvCaller ==
  ASSUME IInv, NEW c \in Callers, Call(c) \/ Cancel(c) \/ Query(c)
  PROVE  IInv'
<1>1. /\ TypeOK
      /\ \/ caller[c] = "out" /\ caller' = [caller EXCEPT ![c] = "waiting"]
         \/ caller' = [caller EXCEPT ![c] = "cancelled"]
         \/ caller[c] = "ok" /\ caller' = [caller EXCEPT ![c] = "read"]
      /\ UNCHANGED <<sent, queue, batch, loop, after, stopped, connected, dropped, written,
                     serving, flushErr, owed, countVars, lost, late>>
  BY DEF IInv, Call, Cancel, Query, Caller
<1>2. degraded' \in BOOLEAN
  <2>1. (connected \/ degraded) \in BOOLEAN
    BY Zenon
  <2>2. degraded' \in {degraded, connected \/ degraded}
    BY DEF Call, Cancel, Query
  <2> QED
    BY <1>1, <2>1, <2>2, TypeParts
<1>3. caller \in [Callers -> {"out", "waiting", "accepted", "ok", "failed", "cancelled", "read"}]
  BY <1>1 DEF TypeOK
<1>4. TypeOK'
  BY <1>1, <1>2, <1>3 DEF TypeOK, countVars
<1>5. Placed' /\ Counted' /\ BatchRoom' /\ Stopping'
  BY <1>1 DEF IInv, Placed, Counted, BatchRoom, Stopping, Heading
<1>6. Serves' /\ OkMeansWritten'
  BY <1>1, <1>3 DEF IInv, Serves, Heading, OkMeansWritten
<1> QED
  BY <1>4, <1>5, <1>6 DEF IInv

LEMMA InvStutter == ASSUME IInv, UNCHANGED vars PROVE IInv'
  BY DEF vars, callVars, countVars, IInv, TypeOK, Placed, Counted, BatchRoom, Serves, Stopping,
         Heading, OkMeansWritten

LEMMA InvNext == IInv /\ [Next]_vars => IInv'
<1> SUFFICES ASSUME IInv, [Next]_vars PROVE IInv'
  OBVIOUS
<1>1. CASE \E c \in Callers : Call(c) \/ Cancel(c) \/ AcceptRequest(c) \/ Query(c)
  BY <1>1, InvCaller, InvAcceptRequest
<1>2. CASE UNCHANGED vars
  BY <1>2, InvStutter
<1> QED
  BY <1>1, <1>2, InvEnqueue, InvReceive, InvFlushTick, InvWriteBatch, InvWriteFail, InvDrain,
     InvDrainWrite, InvDrainAgain, InvAnswer, InvRetentionTick, InvPrune, InvSeeStop,
     InvStopDrained, InvStop DEF Next

LEMMA Invariance == Spec => []IInv
  BY InitInv, InvNext, PTL DEF Spec

----------------------------------------------------------------------------
(* The results.                                                            *)

(* Every variable keeps its type, and the queue and the batch of the       *)
(* writer never exceed their capacities.                                   *)
THEOREM TelemetryTyped == Spec => []TypeOK
<1>1. IInv => TypeOK
  BY DEF IInv
<1> QED
  BY <1>1, Invariance, PTL

(* Every entry handed over has one fate, and the counter of the health     *)
(* report is the number of those that were lost: Enqueue, writeBatch and   *)
(* flush lose none silently and count none twice.                          *)
THEOREM EveryEntryHasOneFate == Spec => []OneFate
<1>1. IInv => OneFate
  <2> SUFFICES ASSUME IInv PROVE OneFate
    OBVIOUS
  <2>1. Len(queue) = Cardinality(Range(queue)) /\ Len(batch) = Cardinality(Range(batch))
    BY CountOnce, TypeParts DEF IInv, Placed
  <2> QED
    BY <2>1 DEF IInv, Placed, Counted, OneFate
<1> QED
  BY <1>1, Invariance, PTL

(* A flush that reports success has written all that waited when the       *)
(* writer took the request.                                                *)
THEOREM FlushIsTrue == Spec => []OkMeansWritten
<1>1. IInv => OkMeansWritten
  BY DEF IInv
<1> QED
  BY <1>1, Invariance, PTL

(* The writer ends with an empty batch, and leaves in the queue only what  *)
(* was handed over after Close.                                            *)
THEOREM StopDrains == Spec => []StopLeavesNothing
<1>1. IInv => StopLeavesNothing
  BY DEF IInv, BatchRoom, Stopping, Heading, StopLeavesNothing
<1> QED
  BY <1>1, Invariance, PTL

----------------------------------------------------------------------------
(* The batch and the queue behind it, as one sequence.                     *)

LEMMA JoinFacts ==
  ASSUME NEW S, NEW b \in Seq(S), NEW q \in Seq(S)
  PROVE  /\ b \o q \in Seq(S) /\ Len(b \o q) = Len(b) + Len(q)
         /\ Range(b \o q) = Range(b) \cup Range(q)
         /\ {(b \o q)[i] : i \in 1 .. Len(b)} = Range(b)
         /\ SubSeq(b \o q, Len(b) + 1, Len(b \o q)) = q
<1> DEFINE w == b \o q
           t == SubSeq(w, Len(b) + 1, Len(w))
<1>1. /\ w \in Seq(S) /\ Len(w) = Len(b) + Len(q) /\ Len(b) \in Nat /\ Len(q) \in Nat
      /\ \A i \in 1 .. Len(b) : w[i] = b[i]
      /\ \A i \in 1 .. Len(q) : w[Len(b) + i] = q[i]
  OBVIOUS
<1>2. t \in Seq(S) /\ Len(t) = Len(q) /\ \A i \in 1 .. Len(t) : t[i] = w[Len(b) + i]
  BY <1>1
<1> HIDE DEF w, t
<1>3. t = q
  BY <1>1, <1>2, SeqEqual
<1>4. {w[i] : i \in 1 .. Len(b)} = Range(b)
  <2>1. Range(b) = {b[i] : i \in 1 .. Len(b)}
    BY RangeOf
  <2> QED
    BY <1>1, <2>1
<1>5. Range(w) = Range(b) \cup Range(q)
  <2>1. Range(w) = {w[i] : i \in 1 .. Len(w)} /\ Range(q) = {q[i] : i \in 1 .. Len(q)}
    BY <1>1, RangeOf
  <2>2. \A i \in 1 .. Len(w) : i \in 1 .. Len(b) \/ (i - Len(b) \in 1 .. Len(q) /\ i = Len(b) + (i - Len(b)))
    BY <1>1
  <2>3. /\ \A i \in 1 .. Len(b) : i \in 1 .. Len(w)
        /\ \A i \in 1 .. Len(q) : Len(b) + i \in 1 .. Len(w)
    BY <1>1
  <2>4. Range(b) \subseteq Range(w)
    BY <1>4, <2>1, <2>3
  <2>5. Range(q) \subseteq Range(w)
    BY <1>1, <2>1, <2>3
  <2>6. Range(w) \subseteq Range(b) \cup Range(q)
    <3> SUFFICES ASSUME NEW i \in 1 .. Len(w) PROVE w[i] \in Range(b) \cup Range(q)
      BY <2>1
    <3>1. CASE i \in 1 .. Len(b)
      BY <1>4, <3>1
    <3>2. CASE i - Len(b) \in 1 .. Len(q) /\ i = Len(b) + (i - Len(b))
      <4> DEFINE j == i - Len(b)
      <4>1. j \in 1 .. Len(q) /\ i = Len(b) + j
        BY <3>2
      <4> HIDE DEF j
      <4>2. w[i] = q[j]
        BY <1>1, <4>1
      <4> QED
        BY <2>1, <4>1, <4>2
    <3> QED
      BY <2>2, <3>1, <3>2
  <2> QED
    BY <2>4, <2>5, <2>6
<1> QED
  BY <1>1, <1>3, <1>4, <1>5 DEF w, t

LEMMA JoinAppend ==
  ASSUME NEW S, NEW b \in Seq(S), NEW q \in Seq(S), NEW x \in S
  PROVE  b \o Append(q, x) = Append(b \o q, x)
<1> DEFINE v == b \o Append(q, x)
           w == Append(b \o q, x)
<1>1. /\ v \in Seq(S) /\ w \in Seq(S) /\ Len(v) = Len(w)
      /\ \A i \in 1 .. Len(v) : v[i] = w[i]
  OBVIOUS
<1> HIDE DEF v, w
<1>2. v = w
  BY <1>1, SeqEqual
<1> QED
  BY <1>2 DEF v, w

LEMMA JoinTake ==
  ASSUME NEW S, NEW b \in Seq(S), NEW q \in Seq(S), q # <<>>
  PROVE  Append(b, Head(q)) \o Tail(q) = b \o q
<1> DEFINE v == Append(b, Head(q)) \o Tail(q)
           w == b \o q
<1>1. /\ v \in Seq(S) /\ w \in Seq(S) /\ Len(v) = Len(w)
      /\ \A i \in 1 .. Len(v) : v[i] = w[i]
  OBVIOUS
<1> HIDE DEF v, w
<1>2. v = w
  BY <1>1, SeqEqual
<1> QED
  BY <1>2 DEF v, w

(* What KeepsLog says waits and is reported.                               *)
waiting == batch \o queue
report == [c \in Callers |-> IF caller[c] = "accepted" /\ flushErr THEN "spoiled" ELSE caller[c]]

LEMMA WaitingFacts ==
  ASSUME TypeOK
  PROVE  /\ waiting \in Seq(Entries) /\ Len(waiting) = Len(batch) + Len(queue)
         /\ Range(waiting) = Range(batch) \cup Range(queue)
         /\ {waiting[i] : i \in 1 .. Len(batch)} = Range(batch)
         /\ SubSeq(waiting, Len(batch) + 1, Len(waiting)) = queue
  BY TypeParts, JoinFacts DEF waiting

LEMMA Handing ==
  ASSUME IInv, Enqueue
  PROVE  Log!HandOver \/ Log!Refuse
<1>1. /\ TypeOK /\ sent < MaxEntries /\ sent' = sent + 1 /\ batch' = batch /\ written' = written
      /\ UNCHANGED <<caller, flushErr, owed>>
  BY DEF IInv, Enqueue, callVars
<1>2. /\ Len(waiting) = Len(batch) + Len(queue) /\ Len(batch) \in Nat /\ Len(queue) \in Nat
      /\ Len(batch) <= BatchSize /\ QueueSize \in Nat /\ BatchSize \in Nat
      /\ batch \in Seq(Entries) /\ queue \in Seq(Entries) /\ sent + 1 \in Entries
  BY <1>1, WaitingFacts, TypeParts, TelemetryAssumption DEF Entries
<1>3. report' = report
  BY <1>1 DEF report
<1>4. CASE Len(queue) < QueueSize /\ queue' = Append(queue, sent') /\ dropped' = dropped
  <2>1. waiting' = Append(waiting, sent')
    BY <1>1, <1>2, <1>4, JoinAppend DEF waiting
  <2>2. Len(waiting) < QueueSize + BatchSize
    BY <1>2, <1>4
  <2> QED
    BY <1>1, <1>3, <1>4, <2>1, <2>2 DEF Log!HandOver, waiting, report
<1>5. CASE Len(queue) = QueueSize /\ queue' = queue /\ dropped' = dropped + 1
  <2>1. waiting' = waiting /\ Len(waiting) >= QueueSize
    BY <1>1, <1>2, <1>5 DEF waiting
  <2> QED
    BY <1>1, <1>3, <1>5, <2>1 DEF Log!Refuse, waiting, report
<1> QED
  BY <1>4, <1>5 DEF Enqueue

(* The writer writes only what there is.                                   *)
Holding == loop = "writing" => batch # <<>>

LEMMA HoldingNext ==
  ASSUME IInv, Holding, [Next]_vars
  PROVE  Holding'
<1>1. TypeOK /\ after # "writing"
  BY DEF IInv, TypeOK
<1>2. CASE Receive \/ FlushTick \/ DrainWrite \/ StopDrained
  <2>1. Take => batch' # <<>>
    BY <1>1, Taken DEF IInv
  <2> QED
    BY <1>2, <2>1 DEF Receive, FlushTick, DrainWrite, StopDrained, GoWrite, GoOn, Holding
<1>3. CASE WriteBatch \/ WriteFail
  BY <1>1, <1>3 DEF WriteBatch, WriteFail, Holding
<1>4. CASE Drain \/ DrainAgain \/ Answer \/ SeeStop \/ \E c \in Callers : AcceptRequest(c)
  BY <1>4 DEF Drain, DrainAgain, Answer, AnswerWith, SeeStop, AcceptRequest, GoOn, Holding
<1>5. CASE RetentionTick \/ Prune
  BY <1>5 DEF RetentionTick, Prune, Holding
<1>6. CASE \/ Enqueue \/ Stop \/ CloseDatabase \/ UNCHANGED vars
           \/ \E c \in Callers : Call(c) \/ Cancel(c) \/ Query(c)
  BY <1>6 DEF Enqueue, Stop, CloseDatabase, Call, Cancel, Query, Caller, vars, Holding
<1> QED
  BY <1>2, <1>3, <1>4, <1>5, <1>6 DEF Next

(* A write ends the waiting of a batch: it is logged, or it is lost and a  *)
(* report whose request was taken will hear of it.                         *)
LEMMA Writing ==
  ASSUME IInv, Holding, WriteBatch \/ WriteFail
  PROVE  \E n \in 1 .. Len(waiting) : n <= BatchSize /\ (Log!Write(n) \/ Log!Lose(n))
<1> DEFINE n == Len(batch)
<1>1. /\ TypeOK /\ loop = "writing" /\ batch # <<>> /\ batch' = <<>> /\ queue' = queue
      /\ UNCHANGED <<sent, caller, serving, owed>>
  BY DEF IInv, Holding, WriteBatch, WriteFail, Commit, DropBatch, callVars
<1>2. /\ Len(waiting) = n + Len(queue) /\ n \in Nat /\ Len(queue) \in Nat /\ n # 0
      /\ n <= BatchSize /\ queue \in Seq(Entries)
      /\ {waiting[i] : i \in 1 .. n} = Range(batch)
      /\ SubSeq(waiting, n + 1, Len(waiting)) = queue
  BY <1>1, WaitingFacts, TypeParts
<1>3. n \in 1 .. Len(waiting) /\ waiting' = SubSeq(waiting, n + 1, Len(waiting))
  <2>1. waiting' = <<>> \o queue
    BY <1>1 DEF waiting
  <2>2. <<>> \o queue = queue
    BY <1>2
  <2> QED
    BY <1>2, <2>1, <2>2
<1>4. CASE WriteBatch
  <2>1. written' = written \cup Range(batch) /\ dropped' = dropped /\ report' = report
    BY <1>4 DEF WriteBatch, Commit, callVars, report
  <2> HIDE DEF n
  <2>2. Log!Write(n)
    BY <1>1, <1>2, <1>3, <2>1 DEF Log!Write, waiting, report
  <2> QED
    BY <1>2, <1>3, <2>2
<1>5. CASE WriteFail
  <2>1. dropped' = dropped + n /\ written' = written /\ flushErr' = (flushErr \/ after = "checking")
    BY <1>5 DEF WriteFail, DropBatch
  <2>2. ASSUME NEW c \in Callers, caller[c] = "accepted"
        PROVE  after = "checking"
    <3>1. serving # Nobody
      BY <2>2, TelemetryAssumption DEF IInv, Serves
    <3> QED
      BY <1>1, <3>1 DEF IInv, Serves, Heading, TypeOK
  <2>3. report' = [c \in Callers |-> IF report[c] = "accepted" THEN "spoiled" ELSE report[c]]
    BY <1>1, <2>1, <2>2 DEF report
  <2> HIDE DEF n
  <2>4. Log!Lose(n)
    BY <1>1, <1>3, <2>1, <2>3 DEF Log!Lose, waiting, report
  <2>5. n \in 1 .. Len(waiting) /\ n <= BatchSize /\ (Log!Write(n) \/ Log!Lose(n))
    BY <1>2, <1>3, <2>4
  <2> QED
    BY <2>5 DEF Log!Lose, Log!Write
<1> QED
  BY <1>4, <1>5

(* The writer and its reports.                                             *)
LEMMA Answering ==
  ASSUME IInv, NEW c \in Callers, AcceptRequest(c)
  PROVE  Log!Accept(c)
<1>1. /\ TypeOK /\ loop = "idle" /\ caller[c] = "waiting" /\ flushErr' = FALSE
      /\ caller' = [caller EXCEPT ![c] = "accepted"]
      /\ owed' = [owed EXCEPT ![c] = Range(queue) \cup Range(batch)]
      /\ UNCHANGED <<queue, batch, sent, dropped, written>>
  BY DEF IInv, AcceptRequest, GoOn
<1>2. Range(queue) \cup Range(batch) = Range(waiting) /\ waiting' = waiting
  BY <1>1, WaitingFacts DEF waiting
<1>3. \A d \in Callers : caller[d] # "accepted"
  BY <1>1, TelemetryAssumption DEF IInv, Serves, Heading
<1>4. caller \in [Callers -> {"out", "waiting", "accepted", "ok", "failed", "cancelled", "read"}]
  BY <1>1 DEF TypeOK
<1>5. report' = [report EXCEPT ![c] = "accepted"] /\ report[c] = "waiting"
  BY <1>1, <1>3, <1>4 DEF report
<1> QED
  BY <1>1, <1>2, <1>5 DEF Log!Accept, Log!Range, Range, waiting, report

LEMMA Answered ==
  ASSUME IInv, Answer
  PROVE  (\E c \in Callers : Log!Answer(c)) \/ UNCHANGED <<sent, waiting, written, dropped, report, owed>>
<1> DEFINE outcome == IF flushErr THEN "failed" ELSE "ok"
<1>1. /\ TypeOK /\ loop = "checking" /\ queue = <<>> /\ flushErr' = FALSE
      /\ caller' = [caller EXCEPT ![serving] = IF @ = "accepted" THEN outcome ELSE @]
      /\ UNCHANGED <<queue, batch, owed, sent, dropped, written>>
  BY DEF IInv, Answer, AnswerWith, GoOn
<1>2. waiting' = waiting /\ Range(waiting) = {}
  <2>1. batch = <<>>
    BY <1>1 DEF IInv, BatchRoom
  <2> QED
    BY <1>1, <2>1, WaitingFacts, EmptyRange DEF waiting
<1>3. /\ caller \in [Callers -> {"out", "waiting", "accepted", "ok", "failed", "cancelled", "read"}]
      /\ serving \in Callers \cup {Nobody} /\ Nobody \notin Callers /\ flushErr \in BOOLEAN
  BY <1>1, TypeParts DEF TypeOK
<1>4. \A d \in Callers : caller[d] = "accepted" => serving = d
  BY DEF IInv, Serves
<1>5. CASE serving \in Callers /\ caller[serving] = "accepted"
  <2>1. /\ report[serving] = IF flushErr THEN "spoiled" ELSE "accepted"
        /\ \A d \in Callers \ {serving} : report[d] = caller[d]
    BY <1>4, <1>5 DEF report
  <2>2. caller' = [caller EXCEPT ![serving] = outcome]
    BY <1>1, <1>3, <1>5
  <2>3. report' = [d \in Callers |-> IF d = serving THEN outcome ELSE caller[d]]
    BY <1>1, <1>3, <1>4, <2>2 DEF report
  <2>4. report \in [Callers -> {"out", "waiting", "accepted", "spoiled", "ok", "failed", "cancelled", "read"}]
    BY <1>3 DEF report
  <2>5. report' = [report EXCEPT ![serving] = IF @ = "accepted" THEN "ok" ELSE "failed"]
    BY <1>5, <2>1, <2>3, <2>4
  <2>6. report[serving] \in {"accepted", "spoiled"}
    BY <2>1
  <2>7. Log!Answer(serving)
    BY <1>1, <1>2, <2>5, <2>6 DEF Log!Answer, Log!Range, Range, waiting, report
  <2>8. \E c \in Callers : Log!Answer(c)
    BY <1>5, <2>7 DEF Log!Answer
  <2> QED
    BY <2>8, Zenon
<1>6. CASE ~(serving \in Callers /\ caller[serving] = "accepted")
  <2>1. caller' = caller
    BY <1>1, <1>3, <1>6
  <2>2. \A d \in Callers : caller[d] # "accepted"
    BY <1>4, <1>6
  <2>3. report' = report
    BY <2>1, <2>2 DEF report
  <2> QED
    BY <1>1, <1>2, <2>3
<1> QED
  BY <1>5, <1>6

LEMMA Reporting ==
  ASSUME IInv, NEW c \in Callers
  PROVE  /\ Call(c) => Log!Call(c)
         /\ Cancel(c) => Log!Cancel(c)
         /\ Query(c) => Log!Query(c)
<1>1. caller \in [Callers -> {"out", "waiting", "accepted", "ok", "failed", "cancelled", "read"}]
  BY DEF IInv, TypeOK
<1>2. ASSUME NEW from, NEW to \in {"waiting", "cancelled", "read"}, Caller(c, from, to),
             "out" \in from => from = {"out"}
      PROVE  /\ caller[c] \in from /\ report' = [report EXCEPT ![c] = to]
             /\ UNCHANGED <<sent, waiting, written, dropped, owed>>
  BY <1>1, <1>2 DEF Caller, report, waiting
<1>3. /\ report[c] \in {caller[c], "spoiled"}
      /\ caller[c] # "accepted" => report[c] = caller[c]
  BY DEF report
<1>4. ASSUME Call(c) PROVE Log!Call(c)
  <2>1. Caller(c, {"out"}, "waiting")
    BY <1>4 DEF Call
  <2> QED
    BY <1>2, <1>3, <2>1 DEF Log!Call, Log!Becomes, waiting, report
<1>5. ASSUME Cancel(c) PROVE Log!Cancel(c)
  <2>1. Caller(c, {"waiting", "accepted"}, "cancelled")
    BY <1>5 DEF Cancel
  <2> QED
    BY <1>2, <1>3, <2>1 DEF Log!Cancel, Log!Becomes, waiting, report
<1>6. ASSUME Query(c) PROVE Log!Query(c)
  <2>1. Caller(c, {"ok"}, "read")
    BY <1>6 DEF Query
  <2> QED
    BY <1>2, <1>3, <2>1 DEF Log!Query, Log!Becomes, waiting, report
<1> QED
  BY <1>4, <1>5, <1>6

(* The other steps of the writer, Close and retention change nothing that  *)
(* is promised: an entry moves from the queue to the batch at most.        *)
LEMMA Unseen ==
  ASSUME IInv,
         \/ Receive \/ FlushTick \/ Drain \/ DrainWrite \/ DrainAgain \/ RetentionTick \/ Prune
         \/ SeeStop \/ StopDrained \/ Stop \/ CloseDatabase \/ UNCHANGED vars
  PROVE  UNCHANGED <<sent, waiting, written, dropped, report, owed>>
<1>1. /\ UNCHANGED <<sent, written, dropped, caller, flushErr, owed>>
      /\ Take \/ UNCHANGED <<queue, batch>>
  BY DEF Receive, FlushTick, Drain, DrainWrite, DrainAgain, RetentionTick, Prune, SeeStop,
         StopDrained, Stop, CloseDatabase, GoWrite, GoOn, callVars, vars
<1>2. queue \in Seq(Entries) /\ batch \in Seq(Entries)
  BY TypeParts DEF IInv
<1>3. waiting' = waiting
  BY <1>1, <1>2, JoinTake DEF Take, waiting
<1> QED
  BY <1>1, <1>3 DEF report

(* The telemetry does what RequestLog promises: entries wait, are logged   *)
(* and are lost in the order of Enqueue, a batch as a whole, and Flush     *)
(* returns an error exactly if a batch was lost since run took it.         *)
THEOREM ImplementsRequestLog == Spec => KeepsLog
<1>1. Init => Log!Init /\ Holding
  <2> SUFFICES ASSUME Init PROVE Log!Init /\ Holding
    OBVIOUS
  <2>1. waiting = <<>> /\ report = [c \in Callers |-> "out"]
    BY DEF Init, waiting, report
  <2> QED
    BY <2>1 DEF Init, Log!Init, Holding, waiting, report
<1>2. IInv /\ Holding /\ [Next]_vars => [Log!Next]_Log!vars
  <2> SUFFICES ASSUME IInv, Holding, [Next]_vars
               PROVE  Log!Next \/ UNCHANGED <<sent, waiting, written, dropped, report, owed>>
    BY DEF Log!vars, waiting, report
  <2>1. CASE Enqueue
    BY <2>1, Handing DEF Log!Next
  <2>2. CASE WriteBatch \/ WriteFail
    BY <2>2, Writing DEF Log!Next, waiting
  <2>3. CASE \E c \in Callers : Call(c) \/ Cancel(c) \/ AcceptRequest(c) \/ Query(c)
    BY <2>3, Answering, Reporting DEF Log!Next
  <2>4. CASE Answer
    BY <2>4, Answered DEF Log!Next
  <2> QED
    BY <2>1, <2>2, <2>3, <2>4, Unseen DEF Next
<1>3. IInv /\ Holding /\ [Next]_vars => Holding'
  BY HoldingNext
<1> QED
  BY <1>1, <1>2, <1>3, Invariance, PTL DEF Spec, KeepsLog, Log!Spec

=============================================================================
