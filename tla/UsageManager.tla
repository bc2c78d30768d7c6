---------------------------- MODULE UsageManager ----------------------------
(***************************************************************************)
(* The usage manager of the gateway (internal/store/usage_manager.go and   *)
(* usage_independent.go): the in-memory counters that decide quotas, their *)
(* asynchronous checkpoint to the usage database, and the synchronous      *)
(* persistence of the 5h/7d windows at admission.                          *)
(*                                                                         *)
(* A counter cell is either the lifetime total of a key or one window      *)
(* bucket of a key.  The code keeps them in two maps with the same code    *)
(* for both, and counts requests, tokens and micro-Credits side by side    *)
(* with the same control; here a cell holds one number, the amount in one  *)
(* of the three units, added with saturation at Cap (only micro-Credits    *)
(* saturate in the code: for the other units Cap is out of reach).         *)
(* A map entry that is absent counts as 0.                                 *)
(***************************************************************************)
EXTENDS Integers, FiniteSets

CONSTANTS
  Keys,          \* API keys
  Requests,      \* proxied requests; each one is made once
  KeyOf,         \* request -> the key it is made with
  Independent,   \* windows that start at the first admission (5h, 7d)
  Fixed,         \* windows aligned to the calendar (1h, 1d, 30d)
  Lifetime,      \* tag of the lifetime total, not a window
  Duration,      \* window -> its length
  Limits,        \* key -> the windows it has a limit for
  Quota,         \* key -> (window or Lifetime) -> quota; 0 is unlimited
  Legacy,        \* key -> the total kept in the control database before the split
  MaxConcurrent, \* slots per key of the gateway's request limiter
  OldBuckets,    \* sets of 5h/7d buckets the previous version may have left on disk
  Charges,       \* amounts that one completed request may add
  MaxCharge,     \* an upper bound of Charges
  Cap,           \* where addCost saturates
  MaxTime,       \* bound on the clock
  MaxOutages     \* bound on the database failures and restarts that happen

Windows == Independent \cup Fixed
Times == 0 .. MaxTime
Amounts == 0 .. Cap
Idle == -1       \* the start of a window that was never opened

ASSUME WindowAssumption ==
  /\ Independent \cap Fixed = {}
  /\ Lifetime \notin Independent \cup Fixed
  /\ Duration \in [Independent \cup Fixed -> Nat \ {0}]

ASSUME KeyAssumption ==
  /\ KeyOf \in [Requests -> Keys]
  /\ Limits \in [Keys -> SUBSET (Independent \cup Fixed)]
  /\ Quota \in [Keys -> [Independent \cup Fixed \cup {Lifetime} -> Nat]]
  /\ Legacy \in [Keys -> 0 .. Cap]

ASSUME OldBucketAssumption ==
  OldBuckets \subseteq SUBSET (Keys \X Independent \X (0 .. MaxTime))

ASSUME BoundAssumption ==
  /\ MaxConcurrent \in Nat \ {0}
  /\ Cap \in Nat
  /\ MaxTime \in Nat
  /\ MaxOutages \in Nat
  /\ MaxCharge \in Nat
  /\ Charges \subseteq 0 .. Cap
  /\ \A c \in Charges : c <= MaxCharge

Life(k) == <<k, Lifetime, 0>>
Cells == {Life(k) : k \in Keys} \cup (Keys \X Windows \X Times)
Zero == [c \in Cells |-> 0]

(* addCost: addition that stops at the largest amount. *)
(* A broken variant: the sum passes the largest amount. *)
PlusUnbounded(a, b) == a + b
Plus(a, b) == IF a + b > Cap THEN Cap ELSE a + b
Sum(f, g) == [c \in Cells |-> Plus(f[c], g[c])]

(* The calendar window an instant falls in. *)
FixedStart(w, t) == t - (t % Duration[w])

VARIABLES
  clock,
  phase,      \* down, starting, serving, stopping (run loop told to stop), draining (Close), closed
  open,       \* the manager holds a database connection
  degraded,
  mem,        \* totals and buckets: cell -> amount
  windows,    \* key -> independent window -> start, as the manager sees it
  dirty,      \* recorded and not yet taken by a flush
  pending,    \* pendingEvents > 0
  flushing,   \* a flush holds flushMu and a transaction
  taken,      \* the deltas that flush is writing
  loading,    \* connect has read the database and has not installed it yet
  snapshot,   \* what connect read
  disk,       \* usage_totals and usage_buckets
  diskWin,    \* usage_windows
  stage,      \* request -> new, arrived, admitted, done
  at,         \* request -> the time it takes as its admission time
  bound,      \* request -> independent window -> the window start it is bound to
  outages,    \* failures and restarts so far
  blind       \* history: something was admitted or imported without the database

flushVars == <<pending, flushing, taken>>
loadVars == <<loading, snapshot>>
diskVars == <<disk, diskWin>>
requestVars == <<stage, at, bound>>
vars == <<clock, phase, open, degraded, mem, windows, dirty, flushVars, loadVars,
          diskVars, requestVars, outages, blind>>

Up == phase # "down"
Unopened == [k \in Keys |-> [w \in Independent |-> Idle]]
Unbound == [w \in Independent |-> Idle]
NoSnapshot == [cells |-> Zero, windows |-> Unopened, at |-> 0]

Init ==
  /\ clock = 0 /\ phase = "down" /\ open = FALSE /\ degraded = FALSE
  /\ mem = Zero /\ windows = Unopened /\ dirty = Zero /\ pending = FALSE
  /\ flushing = FALSE /\ taken = Zero
  /\ loading = FALSE /\ snapshot = NoSnapshot
  /\ \E old \in OldBuckets : disk = [c \in Cells |-> IF c \in old THEN Cap ELSE 0]
  /\ diskWin = Unopened
  /\ stage = [r \in Requests |-> "new"]
  /\ at = [r \in Requests |-> 0]
  /\ bound = [r \in Requests |-> Unbound]
  /\ outages = 0 /\ blind = FALSE

Tick ==
  /\ clock < MaxTime
  /\ clock' = clock + 1
  /\ UNCHANGED <<phase, open, degraded, mem, windows, dirty, flushVars, loadVars,
                 diskVars, requestVars, outages, blind>>

----------------------------------------------------------------------------
(* Connection.                                                             *)

(* The rows loadUsage keeps: every total, the bucket of each persisted     *)
(* independent window, and the fixed buckets that are current.             *)
Loaded(s, c) ==
  \/ c[2] = Lifetime
  \/ c[2] \in Independent /\ s.windows[c[1]][c[2]] = c[3]
  \/ c[2] \in Fixed /\ c[3] = FixedStart(c[2], s.at)

Read == [cells |-> disk, windows |-> diskWin, at |-> clock]

(* connect's last part: a row found replaces the counter by row + dirty.   *)
(* A broken variant: what is dirty is not added to the row read. *)
InstalledBare(s, counters, unsaved) ==
  [c \in Cells |-> IF Loaded(s, c) /\ s.cells[c] # 0 THEN s.cells[c] ELSE counters[c]]

Installed(s, counters, unsaved) ==
  [c \in Cells |-> IF Loaded(s, c) /\ s.cells[c] # 0
                   THEN Plus(s.cells[c], unsaved[c]) ELSE counters[c]]

(* NewUsageManager: a fresh manager, with the database or without it.      *)
Start(connected) ==
  /\ phase = "down"
  /\ connected \/ outages < MaxOutages
  /\ phase' = "starting"
  /\ open' = connected
  /\ degraded' = ~connected
  /\ mem' = IF connected THEN Installed(Read, Zero, Zero) ELSE Zero
  /\ windows' = IF connected THEN diskWin ELSE Unopened
  /\ outages' = IF connected THEN outages ELSE outages + 1
  /\ UNCHANGED <<clock, dirty, flushVars, loadVars, diskVars, requestVars, blind>>

(* Bootstrap: a key with no total takes the one of the control database,   *)
(* and that amount is dirty as if it had just been used.                   *)
Bootstrap ==
  /\ phase = "starting"
  /\ phase' = "serving"
  /\ LET imported == {Life(k) : k \in {k \in Keys : mem[Life(k)] = 0 /\ Legacy[k] # 0}}
         amount(c) == IF c \in imported THEN Legacy[c[1]] ELSE 0
     IN /\ mem' = [c \in Cells |-> IF c \in imported THEN amount(c) ELSE mem[c]]
        /\ dirty' = [c \in Cells |-> IF c \in imported THEN amount(c) ELSE dirty[c]]
        /\ pending' = (pending \/ imported # {})
        /\ blind' = (blind \/ (imported # {} /\ ~open))
  /\ UNCHANGED <<clock, open, degraded, windows, flushing, taken, loadVars, diskVars,
                 requestVars, outages>>

(* connect, called by a flush or by Admit: read the database, then, under  *)
(* mu, install what was read.  Records may come in between.                *)
ConnectRead ==
  /\ Up /\ ~open /\ ~loading /\ ~flushing
  /\ loading' = TRUE
  /\ snapshot' = Read
  /\ UNCHANGED <<clock, phase, open, degraded, mem, windows, dirty, flushVars, diskVars,
                 requestVars, outages, blind>>

ConnectInstall ==
  /\ loading
  /\ loading' = FALSE /\ snapshot' = NoSnapshot
  /\ open' = TRUE
  /\ windows' = snapshot.windows
  /\ mem' = Installed(snapshot, mem, dirty)
  /\ UNCHANGED <<clock, phase, degraded, dirty, flushVars, diskVars, requestVars,
                 outages, blind>>

(* A flush that finds no database only notes it; at Close it is the last.  *)
ConnectFail ==
  /\ Up /\ ~open /\ ~loading /\ ~flushing
  /\ phase \in {"starting", "serving", "stopping"}
  /\ degraded' = TRUE
  /\ phase' \in IF phase = "stopping" THEN {"stopping", "closed"} ELSE {phase}
  /\ UNCHANGED <<clock, open, mem, windows, dirty, flushVars, loadVars, diskVars,
                 requestVars, outages, blind>>

----------------------------------------------------------------------------
(* Flush, by the run loop, and at last by Close.  flushMu is held from     *)
(* takeDirty to the commit or the failure; mu is not.                      *)

(* A broken variant: the deltas stay dirty while they are written. *)
MoveDirtyCopied ==
  taken' = (IF pending THEN dirty ELSE Zero) /\ dirty' = dirty /\ pending' = FALSE

(* takeDirty swaps the maps for empty ones, pending event or not.          *)
MoveDirty ==
  taken' = (IF pending THEN dirty ELSE Zero) /\ dirty' = Zero /\ pending' = FALSE

TakeDirty ==
  /\ open /\ ~flushing
  /\ flushing' = pending
  /\ MoveDirty
  /\ UNCHANGED <<clock, open, degraded, mem, windows, loadVars, diskVars, requestVars,
                 outages, blind>>

(* A broken variant: after a failure nothing is flushed any more. *)
FlushBeginHealthy ==
  /\ phase \in {"starting", "serving", "stopping"} /\ ~degraded
  /\ TakeDirty
  /\ UNCHANGED phase

FlushBegin ==
  /\ phase \in {"starting", "serving", "stopping"}
  /\ TakeDirty
  /\ UNCHANGED phase

CloseFlush ==
  /\ phase = "stopping"
  /\ TakeDirty
  /\ phase' = "draining"

FlushCommit ==
  /\ flushing
  /\ disk' = Sum(disk, taken)
  /\ taken' = Zero /\ flushing' = FALSE
  /\ degraded' = FALSE
  /\ UNCHANGED <<clock, phase, open, mem, windows, dirty, pending, loadVars, diskWin,
                 requestVars, outages, blind>>

(* A broken variant: the deltas come back without their events. *)
RestoreUncounted == dirty' = Sum(dirty, taken) /\ UNCHANGED pending

(* restoreDirty: the deltas of a failed flush join those recorded since.   *)
RestoreDirty == dirty' = Sum(dirty, taken) /\ pending' = TRUE

(* Any failure before the commit.                                          *)
FlushFail ==
  /\ flushing /\ outages < MaxOutages
  /\ RestoreDirty
  /\ taken' = Zero /\ flushing' = FALSE
  /\ degraded' = TRUE
  /\ outages' = outages + 1
  /\ phase' = IF phase = "draining" THEN "closed" ELSE phase
  /\ UNCHANGED <<clock, open, mem, windows, loadVars, diskVars, requestVars, blind>>

(* Shutdown of the server: no new requests, the run loop is told to stop.  *)
Shutdown ==
  /\ phase = "serving"
  /\ phase' = "stopping"
  /\ UNCHANGED <<clock, open, degraded, mem, windows, dirty, flushVars, loadVars, diskVars,
                 requestVars, outages, blind>>

CloseDatabase ==
  /\ phase = "draining" /\ ~flushing
  /\ phase' = "closed" /\ open' = FALSE
  /\ UNCHANGED <<clock, degraded, mem, windows, dirty, flushVars, loadVars, diskVars,
                 requestVars, outages, blind>>

(* The process ends, by itself after Close or by a crash: everything in    *)
(* memory goes, an unfinished transaction with it.                         *)
Exit ==
  /\ Up
  /\ outages' = IF phase = "closed" THEN outages ELSE outages + 1
  /\ outages' <= MaxOutages
  /\ phase' = "down" /\ open' = FALSE /\ degraded' = FALSE
  /\ mem' = Zero /\ windows' = Unopened /\ dirty' = Zero /\ pending' = FALSE
  /\ flushing' = FALSE /\ taken' = Zero
  /\ loading' = FALSE /\ snapshot' = NoSnapshot
  /\ stage' = [r \in Requests |-> IF stage[r] = "new" THEN "new" ELSE "done"]
  /\ UNCHANGED <<clock, diskVars, at, bound, blind>>

----------------------------------------------------------------------------
(* Requests.                                                               *)

InFlight(k) == {r \in Requests : KeyOf[r] = k /\ stage[r] \in {"arrived", "admitted"}}

(* The request takes a slot of its key and, later, reads the clock for its *)
(* admission time; Admit may still wait for its locks after that.          *)
Arrive(r) ==
  /\ phase = "serving"
  /\ stage[r] = "new"
  /\ Cardinality(InFlight(KeyOf[r])) < MaxConcurrent
  /\ stage' = [stage EXCEPT ![r] = "arrived"]
  /\ at' = [at EXCEPT ![r] = clock]
  /\ UNCHANGED <<clock, phase, open, degraded, mem, windows, dirty, flushVars, loadVars,
                 diskVars, bound, outages, blind>>

(* A broken variant: a window ends before its last instant. *)
ActiveShort(k, w, t) == windows[k][w] # Idle /\ t + 1 < windows[k][w] + Duration[w]

(* windowBoundsLocked: an independent window is active before its end.     *)
Active(k, w, t) == windows[k][w] # Idle /\ t < windows[k][w] + Duration[w]

(* rateLimitStatusesLocked: what a window has counted, for a request at t. *)
Used(k, w, t) ==
  CASE w = Lifetime       -> mem[Life(k)]
    [] w \in Fixed        -> mem[<<k, w, FixedStart(w, t)>>]
    [] w \in Independent  -> IF Active(k, w, t) THEN mem[<<k, w, windows[k][w]>>] ELSE 0

(* A broken variant: a quota is used up when it is exceeded. *)
ExhaustedBeyond(k, t) ==
  \E w \in Limits[k] \cup {Lifetime} : Quota[k][w] > 0 /\ Used(k, w, t) > Quota[k][w]

(* ValidateUsableKey and FirstRateLimitViolation.                          *)
Exhausted(k, t) ==
  \E w \in Limits[k] \cup {Lifetime} : Quota[k][w] > 0 /\ Used(k, w, t) >= Quota[k][w]

(* The independent windows an admission at t has to open.                  *)
Opened(k, t) == {w \in Limits[k] \cap Independent : ~Active(k, w, t)}

(* A broken variant: the window is opened in memory only. *)
PersistLater(k, new, t) == UNCHANGED diskVars

(* A broken variant: the bucket of an older version is kept. *)
PersistOverOld(k, new, t) ==
  /\ diskWin' = [diskWin EXCEPT ![k] = [w \in Independent |-> IF w \in new THEN t ELSE @[w]]]
  /\ UNCHANGED disk

(* Admit's transaction: the rows of the new windows, and no bucket of the  *)
(* old version under the same start.                                       *)
PersistWindows(k, new, t) ==
  /\ diskWin' = [diskWin EXCEPT ![k] = [w \in Independent |-> IF w \in new THEN t ELSE @[w]]]
  /\ disk' = [c \in Cells |-> IF c \in {k} \X new \X {t} THEN 0 ELSE disk[c]]

(* Admit under flushMu and mu, its transaction committed: the windows are  *)
(* on disk before they are in memory, and before the request goes on.      *)
Admit(r) ==
  LET k == KeyOf[r]
      t == at[r]
      new == Opened(k, t)
      start(w) == IF w \in new THEN t ELSE windows[k][w]
      row == [w \in Independent |-> start(w)]
  IN /\ Up /\ stage[r] = "arrived" /\ ~flushing
     /\ Limits[k] \cap Independent # {} => open \/ phase = "closed"
     /\ ~Exhausted(k, t)
     /\ new # {} => open
     /\ windows' = [windows EXCEPT ![k] = row]
     /\ PersistWindows(k, new, t)
     /\ bound' = [bound EXCEPT ![r] =
                    [w \in Independent |-> IF w \in Limits[k] THEN start(w) ELSE Idle]]
     /\ stage' = [stage EXCEPT ![r] = "admitted"]
     /\ blind' = (blind \/ ~open)
     /\ UNCHANGED <<clock, phase, open, degraded, mem, dirty, flushVars, loadVars, at,
                    outages>>

(* The request ends without a count: refused (a limit, or the window could *)
(* not be persisted) or failed before any upstream response.               *)
Drop(r) ==
  /\ Up /\ stage[r] \in {"arrived", "admitted"}
  /\ stage' = [stage EXCEPT ![r] = "done"]
  /\ UNCHANGED <<clock, phase, open, degraded, mem, windows, dirty, flushVars, loadVars,
                 diskVars, at, bound, outages, blind>>

(* A broken variant: usage counts in the window of its completion. *)
TouchedNow(r) ==
  {Life(KeyOf[r])}
    \cup {<<KeyOf[r], w, FixedStart(w, at[r])>> : w \in Fixed}
    \cup {<<KeyOf[r], w, windows[KeyOf[r]][w]>> : w \in {v \in Independent : bound[r][v] # Idle}}

(* What Record counts a request in: the lifetime total, the fixed windows  *)
(* of its admission time and the independent windows it is bound to.       *)
Touched(r) ==
  {Life(KeyOf[r])}
    \cup {<<KeyOf[r], w, FixedStart(w, at[r])>> : w \in Fixed}
    \cup {<<KeyOf[r], w, bound[r][w]>> : w \in {v \in Independent : bound[r][v] # Idle}}

Record(r, amount) ==
  /\ Up /\ stage[r] = "admitted"
  /\ LET add(f) == [c \in Cells |-> IF c \in Touched(r) THEN Plus(f[c], amount) ELSE f[c]]
     IN mem' = add(mem) /\ dirty' = add(dirty)
  /\ pending' = TRUE
  /\ stage' = [stage EXCEPT ![r] = "done"]
  /\ UNCHANGED <<clock, phase, open, degraded, windows, flushing, taken, loadVars, diskVars,
                 at, bound, outages, blind>>

----------------------------------------------------------------------------
Next ==
  \/ Tick \/ Bootstrap \/ ConnectRead \/ ConnectInstall \/ ConnectFail
  \/ FlushBegin \/ FlushCommit \/ FlushFail
  \/ Shutdown \/ CloseFlush \/ CloseDatabase \/ Exit
  \/ \E connected \in BOOLEAN : Start(connected)
  \/ \E r \in Requests : Arrive(r) \/ Admit(r) \/ Drop(r)
  \/ \E r \in Requests, amount \in Charges : Record(r, amount)

(* The run loop and Close keep going, and the database is not out of order *)
(* for ever: connect succeeds when it is tried again and again.            *)
Fairness ==
  /\ WF_vars(ConnectRead) /\ WF_vars(ConnectInstall)
  /\ WF_vars(FlushBegin) /\ WF_vars(FlushCommit)

Spec == Init /\ [][Next]_vars /\ Fairness

----------------------------------------------------------------------------
(* Properties.                                                             *)

Stages == {"new", "arrived", "admitted", "done"}
Phases == {"down", "starting", "serving", "stopping", "draining", "closed"}
Starts == {Idle} \cup Times

(* Every variable has its type.                                            *)
TypeOK ==
  /\ clock \in Times /\ phase \in Phases
  /\ open \in BOOLEAN /\ degraded \in BOOLEAN /\ pending \in BOOLEAN
  /\ flushing \in BOOLEAN /\ loading \in BOOLEAN /\ blind \in BOOLEAN
  /\ mem \in [Cells -> Amounts] /\ dirty \in [Cells -> Amounts]
  /\ taken \in [Cells -> Amounts] /\ disk \in [Cells -> Amounts]
  /\ windows \in [Keys -> [Independent -> Starts]]
  /\ diskWin \in [Keys -> [Independent -> Starts]]
  /\ snapshot \in [cells : [Cells -> Amounts],
                   windows : [Keys -> [Independent -> Starts]], at : Times]
  /\ stage \in [Requests -> Stages]
  /\ at \in [Requests -> Times] /\ bound \in [Requests -> [Independent -> Starts]]
  /\ outages \in 0 .. MaxOutages

(* The counters a decision at this instant reads: totals, the current      *)
(* window of each independent limit and the calendar windows that are      *)
(* current at the clock.  (A request that took its admission time before   *)
(* the end of a calendar window, and is admitted after the manager has     *)
(* connected past that end, reads a window that is over and whose row      *)
(* loadUsage did not keep; it is not among these.)                         *)
Current(c) ==
  \/ c[2] = Lifetime
  \/ c[2] \in Independent /\ windows[c[1]][c[2]] = c[3]
  \/ c[2] \in Fixed /\ c[3] = FixedStart(c[2], clock)

(* While the database is connected, what quotas are decided on is exactly  *)
(* what is on disk plus what a flush is writing plus what waits for one:   *)
(* no interleaving of Record, takeDirty, commit, restoreDirty, connect,    *)
(* Admit's own transaction and the end of a calendar window loses an       *)
(* amount or counts it twice.                                              *)
Conservation ==
  open => \A c \in Cells : Current(c) => mem[c] = Plus(Plus(disk[c], taken[c]), dirty[c])

(* takeDirty drops both maps even when it finds no pending event, so there *)
(* must never be a delta without one.                                      *)
NothingStranded == ~pending => dirty = Zero

(* An admitted request is bound to window starts that are on disk, or that *)
(* a later one on disk has replaced: a restart cannot hand the window's    *)
(* allowance out again.                                                    *)
AnchoredBeforeUse ==
  \A r \in Requests, w \in Independent :
    stage[r] = "admitted" => bound[r][w] <= diskWin[KeyOf[r]][w]

(* The soft quota: a limit is overshot by at most what the requests of one *)
(* key that run at the same time may still add.  It holds for independent  *)
(* windows through outages and crashes, and for the other limits as long   *)
(* as nothing was admitted or imported without the database.               *)
Limited(c) ==
  /\ c[2] \in Limits[c[1]] \cup {Lifetime}
  /\ Quota[c[1]][c[2]] > 0
  /\ blind => c[2] \in Independent

(* A total imported from the control database may be over its quota.       *)
Base(c) ==
  IF c[2] = Lifetime /\ Legacy[c[1]] >= Quota[c[1]][c[2]] THEN Legacy[c[1]]
  ELSE Quota[c[1]][c[2]] - 1

SoftQuota ==
  \A c \in Cells : Limited(c) => mem[c] <= Base(c) + MaxConcurrent * MaxCharge

(* A window on disk is replaced only when its time is over.                *)
WindowKeptToItsEnd ==
  [][\A k \in Keys, w \in Independent :
       diskWin[k][w] # Idle /\ diskWin'[k][w] # diskWin[k][w]
         => clock >= diskWin[k][w] + Duration[w]]_vars

(* A window starts with nothing counted, in memory and on disk, although   *)
(* the old version may have left a bucket with the same start.             *)
WindowStartsEmpty ==
  [][\A k \in Keys, w \in Independent :
       diskWin'[k][w] # diskWin[k][w]
         => LET c == <<k, w, diskWin'[k][w]>>
            IN mem'[c] = 0 /\ disk'[c] = 0 /\ dirty'[c] = 0 /\ taken'[c] = 0]_vars

(* A request that outlives its window counts in the window it was admitted *)
(* in: the current window grows only by requests bound to it.              *)
LateCompletionKeepsOut ==
  [][\A k \in Keys, w \in Independent :
       LET c == <<k, w, windows[k][w]>>
       IN open /\ windows[k][w] # Idle /\ phase' # "down" /\ mem'[c] # mem[c]
          => \E r \in Requests : /\ stage[r] = "admitted" /\ stage'[r] = "done"
                                 /\ KeyOf[r] = k /\ bound[r][w] = windows[k][w]]_vars

(* What is recorded reaches the disk unless the process stops first: the   *)
(* flush loop outlives every database failure.                             *)
EventuallySaved ==
  phase = "serving" /\ pending ~> (dirty = Zero /\ taken = Zero) \/ phase # "serving"

(* A key's usage, wherever it is kept, is never more than what was carried *)
(* over once from the control database plus what its requests added.       *)
NeverOvercounted ==
  \A k \in Keys :
    Plus(Plus(disk[Life(k)], taken[Life(k)]), dirty[Life(k)])
      <= Legacy[k] + MaxCharge * Cardinality({r \in Requests : KeyOf[r] = k /\ stage[r] = "done"})

(* The manager implements DurableUsage: what is used is on disk, in a      *)
(* flush or waiting for one.                                               *)
Durable == INSTANCE DurableUsage WITH
  used  <- [k \in Keys |-> Plus(Plus(disk[Life(k)], taken[Life(k)]), dirty[Life(k)])],
  saved <- [k \in Keys |-> disk[Life(k)]],
  open  <- {r \in Requests : stage[r] # "done"}

KeepsUsage == Durable!Spec

=============================================================================
