------------------------- MODULE UsageManagerProofs -------------------------
(***************************************************************************)
(* Proofs about UsageManager, for every set of keys, requests and windows, *)
(* every quota and every bound.                                            *)
(***************************************************************************)
EXTENDS UsageManager, TLAPS, FiniteSetTheorems

----------------------------------------------------------------------------
(* Saturating addition.                                                    *)

LEMMA PlusType == \A a, b \in Amounts : Plus(a, b) \in Amounts
  BY BoundAssumption DEF Plus, Amounts

(* Deltas may be added in any order and in any grouping: with the order of *)
(* flushes and records open, this is what makes the counters agree.        *)
LEMMA PlusLaws ==
  \A a, b, c \in Amounts :
    /\ Plus(a, b) = Plus(b, a)
    /\ Plus(Plus(a, b), c) = Plus(a, Plus(b, c))
  BY BoundAssumption DEF Plus, Amounts

LEMMA PlusZero == \A a \in Amounts : Plus(a, 0) = a /\ Plus(0, a) = a
  BY BoundAssumption DEF Plus, Amounts

LEMMA StartsInt ==
  /\ \A t \in Starts : t \in Int /\ Idle <= t
  /\ \A t \in Times : t \in Starts /\ t \in Int /\ Idle < t
  BY BoundAssumption DEF Starts, Times, Idle

LEMMA WindowType ==
  ASSUME TypeOK, NEW k \in Keys, NEW w \in Independent
  PROVE  /\ windows[k][w] \in Starts /\ windows[k][w] \in Int /\ Idle <= windows[k][w]
         /\ diskWin[k][w] \in Starts /\ diskWin[k][w] \in Int /\ Idle <= diskWin[k][w]
<1>1. windows[k][w] \in Starts /\ diskWin[k][w] \in Starts
  BY DEF TypeOK
<1> QED
  BY <1>1, StartsInt

LEMMA CellParts ==
  \A c \in Cells :
    /\ c[1] \in Keys /\ c[2] \in Windows \cup {Lifetime} /\ c[3] \in Times
    /\ c[2] = Lifetime => c = Life(c[1])
    /\ c = <<c[1], c[2], c[3]>>
  BY WindowAssumption, BoundAssumption DEF Cells, Life, Windows, Times

LEMMA ZeroType == Zero \in [Cells -> Amounts] /\ \A c \in Cells : Zero[c] = 0
  BY BoundAssumption DEF Zero, Amounts

----------------------------------------------------------------------------
(* Type correctness.                                                       *)

LEMMA ReadType ==
  TypeOK => Read \in [cells : [Cells -> Amounts],
                      windows : [Keys -> [Independent -> Starts]], at : Times]
  BY DEF TypeOK, Read

LEMMA InstalledType ==
  ASSUME NEW s, s.cells \in [Cells -> Amounts],
         NEW f \in [Cells -> Amounts], NEW g \in [Cells -> Amounts]
  PROVE  Installed(s, f, g) \in [Cells -> Amounts]
  BY PlusType DEF Installed

LEMMA SumType ==
  ASSUME NEW f \in [Cells -> Amounts], NEW g \in [Cells -> Amounts]
  PROVE  Sum(f, g) \in [Cells -> Amounts]
  BY PlusType DEF Sum

LEMMA TypeInit == Init => TypeOK
<1> SUFFICES ASSUME Init PROVE TypeOK
  OBVIOUS
<1>1. disk \in [Cells -> Amounts]
  BY BoundAssumption DEF Init, Amounts
<1>2. /\ Unopened \in [Keys -> [Independent -> Starts]]
      /\ NoSnapshot \in [cells : [Cells -> Amounts],
                         windows : [Keys -> [Independent -> Starts]], at : Times]
      /\ Unbound \in [Independent -> Starts]
  BY ZeroType, BoundAssumption DEF Unopened, NoSnapshot, Unbound, Starts, Times
<1>3. 0 \in Times /\ 0 \in 0 .. MaxOutages
  BY BoundAssumption DEF Times
<1> QED
  BY <1>1, <1>2, <1>3, ZeroType DEF Init, TypeOK, Phases, Stages

(* Every variable keeps its type through every step of the manager.        *)
THEOREM TypeCorrect == Spec => []TypeOK
<1>2. TypeOK /\ [Next]_vars => TypeOK'
  <2> SUFFICES ASSUME TypeOK, [Next]_vars PROVE TypeOK'
    OBVIOUS
  <2> USE DEF TypeOK, Phases, Stages
  <2>0. /\ Unopened \in [Keys -> [Independent -> Starts]]
        /\ NoSnapshot \in [cells : [Cells -> Amounts],
                           windows : [Keys -> [Independent -> Starts]], at : Times]
    BY ZeroType, BoundAssumption DEF Unopened, NoSnapshot, Starts, Times
  <2>1. CASE UNCHANGED vars
    BY <2>1 DEF vars, flushVars, loadVars, diskVars, requestVars
  <2>2. CASE Tick
    BY <2>2, BoundAssumption DEF Tick, Times, flushVars, loadVars, diskVars, requestVars
  <2>3. ASSUME NEW connected \in BOOLEAN, Start(connected) PROVE TypeOK'
    <3>1. mem' \in [Cells -> Amounts]
      BY <2>3, ReadType, InstalledType, ZeroType DEF Start
    <3>2. windows' \in [Keys -> [Independent -> Starts]] /\ outages' \in 0 .. MaxOutages
      BY <2>3, <2>0, BoundAssumption DEF Start
    <3> QED
      BY <2>3, <3>1, <3>2 DEF Start, flushVars, loadVars, diskVars, requestVars
  <2>4. CASE Bootstrap
    <3>1. \A k \in Keys : Legacy[k] \in Amounts
      BY KeyAssumption DEF Amounts
    <3>2. mem' \in [Cells -> Amounts] /\ dirty' \in [Cells -> Amounts]
      BY <2>4, <3>1, CellParts, ZeroType DEF Bootstrap
    <3> QED
      BY <2>4, <3>2 DEF Bootstrap, loadVars, diskVars, requestVars
  <2>5. CASE ConnectRead
    BY <2>5, ReadType DEF ConnectRead, flushVars, diskVars, requestVars
  <2>6. CASE ConnectInstall
    <3>1. mem' \in [Cells -> Amounts]
      BY <2>6, InstalledType DEF ConnectInstall
    <3> QED
      BY <2>6, <3>1, <2>0 DEF ConnectInstall, flushVars, diskVars, requestVars
  <2>7. CASE ConnectFail
    BY <2>7 DEF ConnectFail, flushVars, loadVars, diskVars, requestVars
  <2>8. CASE FlushBegin \/ CloseFlush
    BY <2>8, ZeroType DEF FlushBegin, CloseFlush, TakeDirty, MoveDirty, loadVars, diskVars,
                          requestVars
  <2>9. CASE FlushCommit
    BY <2>9, SumType, ZeroType DEF FlushCommit, loadVars, requestVars
  <2>10. CASE FlushFail
    <3>1. dirty' \in [Cells -> Amounts] /\ outages' \in 0 .. MaxOutages
      BY <2>10, SumType, BoundAssumption DEF FlushFail, RestoreDirty
    <3> QED
      BY <2>10, <3>1, ZeroType DEF FlushFail, RestoreDirty, loadVars, diskVars, requestVars
  <2>11. CASE Shutdown
    BY <2>11 DEF Shutdown, flushVars, loadVars, diskVars, requestVars
  <2>12. CASE CloseDatabase
    BY <2>12 DEF CloseDatabase, flushVars, loadVars, diskVars, requestVars
  <2>13. CASE Exit
    <3>1. outages' \in 0 .. MaxOutages
      BY <2>13, BoundAssumption DEF Exit
    <3> QED
      BY <2>13, <3>1, <2>0, ZeroType DEF Exit, diskVars
  <2>14. ASSUME NEW r \in Requests, Arrive(r) PROVE TypeOK'
    BY <2>14 DEF Arrive, flushVars, loadVars, diskVars
  <2>15. ASSUME NEW r \in Requests, Admit(r) PROVE TypeOK'
    <3>1. KeyOf[r] \in Keys /\ at[r] \in Starts
      BY KeyAssumption DEF Starts
    <3>2. windows' \in [Keys -> [Independent -> Starts]]
      BY <2>15, <3>1 DEF Admit
    <3>3. diskWin' \in [Keys -> [Independent -> Starts]]
      BY <2>15, <3>1 DEF Admit, PersistWindows
    <3>4. disk' \in [Cells -> Amounts]
      BY <2>15, BoundAssumption DEF Admit, PersistWindows, Amounts
    <3>5. bound' \in [Requests -> [Independent -> Starts]]
      BY <2>15, <3>1 DEF Admit, Starts
    <3> QED
      BY <2>15, <3>2, <3>3, <3>4, <3>5 DEF Admit, flushVars, loadVars
  <2>16. ASSUME NEW r \in Requests, Drop(r) PROVE TypeOK'
    BY <2>16 DEF Drop, flushVars, loadVars, diskVars
  <2>17. ASSUME NEW r \in Requests, NEW amount \in Charges, Record(r, amount) PROVE TypeOK'
    <3>1. amount \in Amounts
      BY BoundAssumption DEF Amounts
    <3>2. mem' \in [Cells -> Amounts] /\ dirty' \in [Cells -> Amounts]
      BY <2>17, <3>1, PlusType DEF Record
    <3> QED
      BY <2>17, <3>2 DEF Record, loadVars, diskVars
  <2> QED
    BY <2>1, <2>2, <2>3, <2>4, <2>5, <2>6, <2>7, <2>8, <2>9, <2>10, <2>11, <2>12, <2>13,
       <2>14, <2>15, <2>16, <2>17 DEF Next
<1> QED
  BY <1>2, TypeInit, PTL DEF Spec

----------------------------------------------------------------------------
(* The inductive invariant behind Conservation, for the totals and the     *)
(* windows of admissions; the calendar windows need the invariant of       *)
(* SoftQuota, too, and Conservation is proved after it.                    *)

(* What a flush writes exists only while it runs, on a connection.         *)
FlushParts == (~flushing => taken = Zero) /\ (flushing => open)

(* What connect read stays what is on disk until it is installed: nobody   *)
(* writes without a connection.                                            *)
LoadParts ==
  loading => /\ ~open /\ ~flushing
             /\ snapshot.cells = disk /\ snapshot.windows = diskWin

DownParts ==
  phase = "down" => /\ mem = Zero /\ dirty = Zero /\ windows = Unopened
                    /\ ~open /\ ~loading /\ ~flushing

(* The manager never knows another window than the one on disk.            *)
WindowsKnown ==
  /\ \A k \in Keys, w \in Independent : windows[k][w] \in {Idle, diskWin[k][w]}
  /\ open => windows = diskWin

(* Requests are bound to windows the manager has known.                    *)
BoundKnown ==
  \A r \in Requests, w \in Independent :
    stage[r] = "admitted" => bound[r][w] <= windows[KeyOf[r]][w]

(* Nothing is counted in a window before it is known.                      *)
FutureEmpty ==
  \A c \in Cells :
    c[2] \in Independent /\ windows[c[1]][c[2]] < c[3]
      => mem[c] = 0 /\ dirty[c] = 0 /\ taken[c] = 0

(* A counter whose row the manager knows by its key alone.                 *)
Known(c) == c[2] = Lifetime \/ (c[2] \in Independent /\ windows[c[1]][c[2]] = c[3])

(* With the database, such a counter is exactly what is on disk, in a      *)
(* flush and waiting for one.                                              *)
KnownCounts ==
  open => \A c \in Cells : Known(c) => mem[c] = Plus(Plus(disk[c], taken[c]), dirty[c])

(* Without the database, a counter with no row on disk holds exactly what  *)
(* waits for a flush.                                                      *)
Offline == ~open => \A c \in Cells : Known(c) /\ disk[c] = 0 => mem[c] = dirty[c]

IInv ==
  /\ NothingStranded /\ FlushParts /\ LoadParts /\ DownParts
  /\ WindowsKnown /\ BoundKnown /\ FutureEmpty
  /\ KnownCounts /\ Offline

LEMMA InvInit == Init /\ TypeOK => IInv
<1> SUFFICES ASSUME Init, TypeOK PROVE IInv
  OBVIOUS
<1>1. NothingStranded /\ FlushParts /\ LoadParts /\ DownParts
  BY DEF Init, NothingStranded, FlushParts, LoadParts, DownParts
<1>2. WindowsKnown /\ BoundKnown
  BY DEF Init, WindowsKnown, BoundKnown, Unopened
<1>3. FutureEmpty /\ KnownCounts /\ Offline
  BY ZeroType DEF Init, FutureEmpty, KnownCounts, Offline
<1> QED
  BY <1>1, <1>2, <1>3 DEF IInv

(* A step that changes none of the manager's own variables.                *)
managed == <<open, mem, windows, dirty, pending, flushing, taken, loading, snapshot,
             disk, diskWin>>

LEMMA InvQuiet ==
  ASSUME IInv, UNCHANGED managed, phase' = "down" => phase = "down",
         \A r \in Requests : stage'[r] = "admitted" => stage[r] = "admitted",
         UNCHANGED bound
  PROVE  IInv'
<1> USE DEF IInv, managed
<1>1. (NothingStranded /\ FlushParts /\ LoadParts /\ DownParts)'
  BY DEF NothingStranded, FlushParts, LoadParts, DownParts
<1>2. (WindowsKnown /\ BoundKnown /\ FutureEmpty)'
  BY DEF WindowsKnown, BoundKnown, FutureEmpty
<1>3. (KnownCounts /\ Offline)'
  BY DEF KnownCounts, Offline, Known
<1> QED
  BY <1>1, <1>2, <1>3

(* Requests stay bound to known windows when the known windows only grow.  *)
LEMMA BoundGrows ==
  ASSUME TypeOK, TypeOK', BoundKnown, UNCHANGED <<stage, bound>>,
         \A k \in Keys, w \in Independent : windows[k][w] <= windows'[k][w]
  PROVE  BoundKnown'
<1> SUFFICES ASSUME NEW r \in Requests, NEW w \in Independent, stage[r] = "admitted"
             PROVE  bound[r][w] <= windows'[KeyOf[r]][w]
  BY DEF BoundKnown
<1>1. KeyOf[r] \in Keys
  BY KeyAssumption
<1>2. /\ bound[r][w] \in Starts
      /\ windows[KeyOf[r]][w] \in Starts
      /\ windows'[KeyOf[r]][w] \in Starts
  BY <1>1 DEF TypeOK
<1>3. bound[r][w] <= windows[KeyOf[r]][w] /\ windows[KeyOf[r]][w] <= windows'[KeyOf[r]][w]
  BY <1>1 DEF BoundKnown
<1> QED
  BY <1>2, <1>3, StartsInt

LEMMA InvStart ==
  ASSUME TypeOK, TypeOK', IInv, NEW connected \in BOOLEAN, Start(connected)
  PROVE  IInv'
<1> USE DEF IInv, TypeOK, diskVars, flushVars, loadVars, requestVars
<1>0. /\ mem = Zero /\ dirty = Zero /\ taken = Zero /\ ~loading /\ ~flushing
      /\ phase' = "starting" /\ open' = connected
      /\ UNCHANGED <<dirty, taken, pending, flushing, loading, snapshot, disk, diskWin,
                     stage, bound>>
  BY DEF Start, DownParts, FlushParts
<1>1. (NothingStranded /\ FlushParts /\ LoadParts /\ DownParts)'
  BY <1>0 DEF NothingStranded, FlushParts, LoadParts, DownParts
<1>2. windows' = IF connected THEN diskWin ELSE Unopened
  BY DEF Start
<1>3. WindowsKnown'
  BY <1>0, <1>2 DEF WindowsKnown, Unopened
<1>4. \A k \in Keys, w \in Independent : windows[k][w] <= windows'[k][w]
  BY <1>2, BoundAssumption DEF DownParts, Start, Unopened, Starts, Times, Idle
<1>5. BoundKnown'
  BY <1>0, <1>4, BoundGrows
<1>6. CASE connected
  <2>1. mem' = Installed(Read, Zero, Zero) /\ windows' = diskWin
    BY <1>6 DEF Start
  <2>2. ASSUME NEW c \in Cells
        PROVE  mem'[c] = IF Loaded(Read, c) /\ disk[c] # 0 THEN Plus(disk[c], 0) ELSE 0
    BY <2>1, ZeroType DEF Installed, Read
  <2>3. ASSUME NEW c \in Cells, Known(c)' PROVE Loaded(Read, c)
    BY <2>1, <2>3 DEF Known, Loaded, Read
  <2>4. KnownCounts'
    BY <1>0, <2>2, <2>3, PlusZero, ZeroType DEF KnownCounts
  <2>5. ASSUME NEW c \in Cells, c[2] \in Independent, windows'[c[1]][c[2]] < c[3]
        PROVE  ~Loaded(Read, c)
    BY <2>1, <2>5, WindowAssumption, CellParts DEF Loaded, Read, Starts, Times, Idle
  <2>6. FutureEmpty'
    BY <1>0, <2>2, <2>5, ZeroType DEF FutureEmpty
  <2> QED
    BY <1>0, <1>1, <1>3, <1>5, <1>6, <2>4, <2>6 DEF Offline
<1>7. CASE ~connected
  <2>1. mem' = Zero
    BY <1>7 DEF Start
  <2> QED
    BY <1>0, <1>1, <1>3, <1>5, <1>7, <2>1, ZeroType
    DEF KnownCounts, FutureEmpty, Offline
<1> QED
  BY <1>6, <1>7

LEMMA InvBootstrap ==
  ASSUME TypeOK, IInv, Bootstrap
  PROVE  IInv'
<1> USE DEF IInv, TypeOK, diskVars, loadVars, requestVars
<1> DEFINE imported == {Life(k) : k \in {k \in Keys : mem[Life(k)] = 0 /\ Legacy[k] # 0}}
<1>0. /\ phase' = "serving" /\ pending' = (pending \/ imported # {})
      /\ UNCHANGED <<open, taken, flushing, windows, loading, snapshot, disk, diskWin,
                     stage, bound>>
  BY DEF Bootstrap
<1>1. \A c \in Cells : /\ mem'[c] = IF c \in imported THEN Legacy[c[1]] ELSE mem[c]
                       /\ dirty'[c] = IF c \in imported THEN Legacy[c[1]] ELSE dirty[c]
  BY DEF Bootstrap
<1>2. \A c \in imported : c[2] = Lifetime /\ mem[c] = 0 /\ Legacy[c[1]] \in Amounts
  <2> SUFFICES ASSUME NEW k \in Keys, mem[Life(k)] = 0
               PROVE  Life(k)[2] = Lifetime /\ Legacy[Life(k)[1]] \in Amounts
    OBVIOUS
  <2> QED
    BY KeyAssumption DEF Life, Amounts
<1>3. NothingStranded'
  <2>1. CASE imported = {}
    <3>1. dirty' = dirty
      BY <2>1 DEF Bootstrap
    <3> QED
      BY <1>0, <2>1, <3>1 DEF NothingStranded
  <2> QED
    BY <1>0, <2>1 DEF NothingStranded
<1>4. (FlushParts /\ LoadParts /\ DownParts /\ WindowsKnown /\ BoundKnown)'
  BY <1>0 DEF FlushParts, LoadParts, DownParts, WindowsKnown, BoundKnown
<1>5. FutureEmpty'
  BY <1>0, <1>1, <1>2, WindowAssumption DEF FutureEmpty
<1>6. KnownCounts'
  <2> SUFFICES ASSUME open, NEW c \in Cells, Known(c)
               PROVE  mem'[c] = Plus(Plus(disk[c], taken[c]), dirty'[c])
    BY <1>0 DEF KnownCounts, Known
  <2>1. mem[c] = Plus(Plus(disk[c], taken[c]), dirty[c])
    BY DEF KnownCounts
  <2>2. CASE c \in imported
    <3>1. disk[c] \in Amounts /\ taken[c] \in Amounts /\ dirty[c] \in Amounts
      OBVIOUS
    <3>2. mem[c] = 0 /\ Legacy[c[1]] \in Amounts
      BY <1>2, <2>2
    <3>3. Plus(disk[c], taken[c]) = 0
      BY <2>1, <3>1, <3>2, BoundAssumption DEF Plus, Amounts
    <3>4. mem'[c] = Legacy[c[1]] /\ dirty'[c] = Legacy[c[1]]
      BY <1>1, <2>2
    <3> QED
      BY <3>2, <3>3, <3>4, PlusZero
  <2> QED
    BY <1>1, <2>1, <2>2
<1>7. Offline'
  BY <1>0, <1>1 DEF Offline, Known
<1> QED
  BY <1>3, <1>4, <1>5, <1>6, <1>7

LEMMA InvConnectRead ==
  ASSUME TypeOK, IInv, ConnectRead
  PROVE  IInv'
<1> USE DEF IInv, ConnectRead, diskVars, flushVars, requestVars
<1>1. (NothingStranded /\ FlushParts /\ LoadParts /\ DownParts)'
  BY DEF NothingStranded, FlushParts, LoadParts, DownParts, Up, Read
<1>2. (WindowsKnown /\ BoundKnown /\ FutureEmpty)'
  BY DEF WindowsKnown, BoundKnown, FutureEmpty
<1>3. (KnownCounts /\ Offline)'
  BY DEF KnownCounts, Offline, Known
<1> QED
  BY <1>1, <1>2, <1>3

(* The step the whole invariant is made for: what is read without any lock *)
(* is installed while amounts were recorded in the meantime.               *)
LEMMA InvConnectInstall ==
  ASSUME TypeOK, TypeOK', IInv, ConnectInstall
  PROVE  IInv'
<1> USE DEF IInv, TypeOK, diskVars, flushVars, requestVars
<1>0. /\ ~open /\ ~flushing /\ taken = Zero /\ phase # "down"
      /\ snapshot.cells = disk /\ snapshot.windows = diskWin
      /\ open' = TRUE /\ loading' = FALSE /\ windows' = diskWin
      /\ UNCHANGED <<phase, dirty, taken, pending, flushing, disk, diskWin, stage, bound>>
  BY DEF ConnectInstall, LoadParts, FlushParts, DownParts
<1>1. ASSUME NEW c \in Cells
      PROVE  mem'[c] = IF Loaded(snapshot, c) /\ disk[c] # 0
                       THEN Plus(disk[c], dirty[c]) ELSE mem[c]
  BY <1>0 DEF ConnectInstall, Installed
<1>2. (NothingStranded /\ FlushParts /\ LoadParts /\ DownParts)'
  BY <1>0 DEF NothingStranded, FlushParts, LoadParts, DownParts
<1>3. WindowsKnown'
  BY <1>0 DEF WindowsKnown
<1>4. ASSUME NEW k \in Keys, NEW w \in Independent
      PROVE  windows[k][w] <= windows'[k][w]
  <2>1. windows[k][w] \in {Idle, diskWin[k][w]}
    BY Zenon DEF WindowsKnown
  <2>2. windows'[k][w] = diskWin[k][w]
    BY <1>0
  <2>3. diskWin[k][w] \in Int /\ Idle <= diskWin[k][w] /\ windows[k][w] \in Int
    BY WindowType
  <2> QED
    BY <2>1, <2>2, <2>3
<1>5. BoundKnown'
  BY <1>0, <1>4, BoundGrows
<1>6. FutureEmpty'
  <2> SUFFICES ASSUME NEW c \in Cells, c[2] \in Independent, windows'[c[1]][c[2]] < c[3]
               PROVE  mem'[c] = 0 /\ dirty'[c] = 0 /\ taken'[c] = 0
    BY DEF FutureEmpty
  <2>1. c[1] \in Keys /\ c[2] # Lifetime /\ c[2] \notin Fixed /\ c[3] \in Times
    BY CellParts, WindowAssumption
  <2>2. windows[c[1]][c[2]] < c[3] /\ ~Loaded(snapshot, c)
    <3>1. windows[c[1]][c[2]] \in Int /\ diskWin[c[1]][c[2]] \in Int /\ c[3] \in Int
      BY <2>1, StartsInt, WindowType
    <3>2. windows[c[1]][c[2]] <= windows'[c[1]][c[2]]
      BY <1>4, <2>1
    <3>3. snapshot.windows[c[1]][c[2]] # c[3]
      BY <1>0, <3>1
    <3> QED
      BY <1>0, <2>1, <3>1, <3>2, <3>3 DEF Loaded
  <2> QED
    BY <1>0, <1>1, <2>2 DEF FutureEmpty
<1>7. KnownCounts'
  <2> SUFFICES ASSUME NEW c \in Cells, Known(c)'
               PROVE  mem'[c] = Plus(Plus(disk[c], 0), dirty[c])
    BY <1>0, ZeroType DEF KnownCounts
  <2>1. Loaded(snapshot, c)
    BY <1>0 DEF Known, Loaded
  <2>2. disk[c] \in Amounts /\ dirty[c] \in Amounts
    OBVIOUS
  <2>3. CASE disk[c] = 0
    <3>1. CASE Known(c)
      <4>1. mem'[c] = dirty[c]
        BY <1>0, <1>1, <2>3, <3>1 DEF Offline
      <4> QED
        BY <2>2, <2>3, <4>1, PlusZero
    <3>2. CASE ~Known(c)
      <4>1. /\ c[1] \in Keys /\ c[2] \in Independent /\ c[3] \in Times
            /\ diskWin[c[1]][c[2]] = c[3] /\ windows[c[1]][c[2]] = Idle
        BY <1>0, <3>2, CellParts DEF Known, WindowsKnown
      <4>2. mem[c] = 0 /\ dirty[c] = 0
        BY <4>1, BoundAssumption DEF FutureEmpty, Idle, Times
      <4> QED
        BY <1>1, <2>2, <2>3, <4>2, PlusZero
    <3> QED
      BY <3>1, <3>2
  <2> QED
    BY <1>1, <2>1, <2>2, <2>3, PlusZero
<1> QED
  BY <1>0, <1>2, <1>3, <1>5, <1>6, <1>7 DEF Offline

LEMMA InvTakeDirty ==
  ASSUME TypeOK, IInv, TakeDirty, phase # "down", phase' # "down"
  PROVE  IInv'
<1> USE DEF IInv, TypeOK, loadVars, diskVars, requestVars
<1>0. /\ open /\ ~flushing /\ taken = Zero /\ ~loading
      /\ open' = open /\ flushing' = pending /\ pending' = FALSE /\ dirty' = Zero
      /\ taken' = IF pending THEN dirty ELSE Zero
      /\ UNCHANGED <<mem, windows, loading, snapshot, disk, diskWin, stage, bound>>
  BY DEF TakeDirty, MoveDirty, FlushParts, LoadParts
<1>1. (NothingStranded /\ FlushParts /\ LoadParts /\ DownParts)'
  BY <1>0 DEF NothingStranded, FlushParts, LoadParts, DownParts
<1>2. taken' = dirty
  BY <1>0 DEF NothingStranded
<1>3. (WindowsKnown /\ BoundKnown /\ FutureEmpty)'
  BY <1>0, <1>2, ZeroType DEF WindowsKnown, BoundKnown, FutureEmpty
<1>4. KnownCounts'
  <2> SUFFICES ASSUME NEW c \in Cells, Known(c)
               PROVE  mem[c] = Plus(Plus(disk[c], dirty[c]), 0)
    BY <1>0, <1>2, ZeroType DEF KnownCounts, Known
  <2>1. mem[c] = Plus(Plus(disk[c], 0), dirty[c])
    BY <1>0, ZeroType DEF KnownCounts
  <2>2. disk[c] \in Amounts /\ dirty[c] \in Amounts
    OBVIOUS
  <2> QED
    BY <2>1, <2>2, PlusZero, PlusType
<1> QED
  BY <1>0, <1>1, <1>3, <1>4 DEF Offline

LEMMA InvFlushCommit ==
  ASSUME TypeOK, IInv, FlushCommit
  PROVE  IInv'
<1> USE DEF IInv, TypeOK, loadVars, requestVars
<1>0. /\ flushing /\ open /\ ~loading /\ phase # "down" /\ phase' = phase
      /\ taken' = Zero /\ flushing' = FALSE /\ disk' = Sum(disk, taken)
      /\ UNCHANGED <<open, mem, windows, dirty, pending, loading, snapshot, diskWin,
                     stage, bound>>
  BY DEF FlushCommit, FlushParts, LoadParts, DownParts
<1>1. (NothingStranded /\ FlushParts /\ LoadParts /\ DownParts)'
  BY <1>0 DEF NothingStranded, FlushParts, LoadParts, DownParts
<1>2. (WindowsKnown /\ BoundKnown /\ FutureEmpty)'
  BY <1>0, ZeroType DEF WindowsKnown, BoundKnown, FutureEmpty
<1>3. KnownCounts'
  <2> SUFFICES ASSUME NEW c \in Cells, Known(c)
               PROVE  mem[c] = Plus(Plus(disk'[c], 0), dirty[c])
    BY <1>0, ZeroType DEF KnownCounts, Known
  <2>1. mem[c] = Plus(Plus(disk[c], taken[c]), dirty[c])
    BY <1>0 DEF KnownCounts
  <2>2. disk'[c] = Plus(disk[c], taken[c])
    BY <1>0 DEF Sum
  <2>3. disk[c] \in Amounts /\ taken[c] \in Amounts
    OBVIOUS
  <2> QED
    BY <2>1, <2>2, <2>3, PlusZero, PlusType
<1> QED
  BY <1>0, <1>1, <1>2, <1>3 DEF Offline

LEMMA InvFlushFail ==
  ASSUME TypeOK, IInv, FlushFail
  PROVE  IInv'
<1> USE DEF IInv, TypeOK, loadVars, diskVars, requestVars
<1>0. /\ flushing /\ open /\ ~loading /\ phase # "down" /\ phase' # "down"
      /\ taken' = Zero /\ flushing' = FALSE /\ dirty' = Sum(dirty, taken) /\ pending' = TRUE
      /\ UNCHANGED <<open, mem, windows, loading, snapshot, disk, diskWin, stage, bound>>
  BY DEF FlushFail, RestoreDirty, FlushParts, LoadParts, DownParts
<1>1. (NothingStranded /\ FlushParts /\ LoadParts /\ DownParts)'
  BY <1>0 DEF NothingStranded, FlushParts, LoadParts, DownParts
<1>2. \A c \in Cells : dirty'[c] = Plus(dirty[c], taken[c]) /\ taken'[c] = 0
  BY <1>0, ZeroType DEF Sum
<1>3. FutureEmpty'
  <2> SUFFICES ASSUME NEW c \in Cells, dirty[c] = 0, taken[c] = 0
               PROVE  dirty'[c] = 0
    BY <1>0, <1>2 DEF FutureEmpty
  <2> QED
    BY <1>2, PlusZero
<1>4. KnownCounts'
  <2> SUFFICES ASSUME NEW c \in Cells, Known(c)
               PROVE  mem[c] = Plus(Plus(disk[c], 0), Plus(dirty[c], taken[c]))
    BY <1>0, <1>2 DEF KnownCounts, Known
  <2>1. mem[c] = Plus(Plus(disk[c], taken[c]), dirty[c])
    BY <1>0 DEF KnownCounts
  <2>2. disk[c] \in Amounts /\ taken[c] \in Amounts /\ dirty[c] \in Amounts
    OBVIOUS
  <2> QED
    BY <2>1, <2>2, PlusZero, PlusLaws
<1> QED
  BY <1>0, <1>1, <1>3, <1>4 DEF Offline, WindowsKnown, BoundKnown

LEMMA InvCloseDatabase ==
  ASSUME TypeOK, IInv, CloseDatabase
  PROVE  IInv'
<1> USE DEF IInv, TypeOK, flushVars, loadVars, diskVars, requestVars
<1>0. /\ phase = "draining" /\ phase' = "closed" /\ open' = FALSE
      /\ ~flushing /\ taken = Zero
      /\ UNCHANGED <<mem, windows, dirty, taken, pending, flushing, loading, snapshot,
                     disk, diskWin, stage, bound>>
  BY DEF CloseDatabase, FlushParts
<1>1. (NothingStranded /\ FlushParts /\ LoadParts /\ DownParts)'
  BY <1>0 DEF NothingStranded, FlushParts, LoadParts, DownParts
<1>2. (WindowsKnown /\ BoundKnown /\ FutureEmpty)'
  BY <1>0 DEF WindowsKnown, BoundKnown, FutureEmpty
<1>3. CASE open
  <2> SUFFICES ASSUME NEW c \in Cells, Known(c), disk[c] = 0
               PROVE  mem[c] = dirty[c]
    BY <1>0, <1>1, <1>2 DEF Offline, KnownCounts, Known
  <2>1. mem[c] = Plus(Plus(0, 0), dirty[c])
    BY <1>0, <1>3, ZeroType DEF KnownCounts
  <2>2. dirty[c] \in Amounts /\ 0 \in Amounts
    BY BoundAssumption DEF Amounts
  <2> QED
    BY <2>1, <2>2, PlusZero
<1>4. CASE ~open
  BY <1>0, <1>1, <1>2, <1>4 DEF Offline, KnownCounts, Known
<1> QED
  BY <1>3, <1>4

LEMMA InvExit ==
  ASSUME TypeOK, IInv, Exit
  PROVE  IInv'
<1> USE DEF IInv, TypeOK, diskVars
<1>0. /\ mem' = Zero /\ dirty' = Zero /\ taken' = Zero /\ windows' = Unopened
      /\ ~open' /\ ~loading' /\ ~flushing' /\ UNCHANGED diskWin
      /\ \A r \in Requests : stage'[r] # "admitted"
  BY DEF Exit
<1> QED
  BY <1>0, ZeroType
  DEF NothingStranded, FlushParts, LoadParts, DownParts, WindowsKnown, BoundKnown,
      FutureEmpty, KnownCounts, Offline, Unopened

(* A window is opened only at a time after every start the manager knows.  *)
LEMMA OpenedLater ==
  ASSUME TypeOK, NEW k \in Keys, NEW t \in Times, NEW w \in Opened(k, t)
  PROVE  w \in Independent /\ windows[k][w] < t
<1>1. w \in Independent /\ ~Active(k, w, t)
  BY DEF Opened
<1>2. Duration[w] \in Nat /\ Duration[w] > 0
  BY <1>1, WindowAssumption
<1>3. windows[k][w] \in Int /\ t \in Int /\ Idle < t
  BY <1>1, WindowType, StartsInt
<1> QED
  BY <1>1, <1>2, <1>3 DEF Active

LEMMA InvAdmit ==
  ASSUME TypeOK, TypeOK', IInv, NEW r \in Requests, Admit(r)
  PROVE  IInv'
<1> USE DEF IInv, TypeOK, flushVars, loadVars
<1> DEFINE k == KeyOf[r]
           t == at[r]
           new == Opened(k, t)
           start(w) == IF w \in new THEN t ELSE windows[k][w]
<1>0. /\ k \in Keys /\ t \in Times
      /\ new # {} => open
      /\ phase # "down" /\ phase' = phase /\ ~flushing
      /\ UNCHANGED <<open, mem, dirty, taken, pending, flushing, loading, snapshot>>
  BY KeyAssumption DEF Admit, Up
<1>1. \A w \in new : w \in Independent /\ windows[k][w] < t
  BY <1>0, OpenedLater
<1>2. ASSUME NEW q \in Keys, NEW w \in Independent
      PROVE  /\ windows'[q][w] = IF q = k /\ w \in new THEN t ELSE windows[q][w]
             /\ diskWin'[q][w] = IF q = k /\ w \in new THEN t ELSE diskWin[q][w]
  BY <1>0 DEF Admit, PersistWindows
<1>3. ASSUME NEW q \in Keys, NEW w \in Independent
      PROVE  windows[q][w] <= windows'[q][w]
  <2>1. windows[q][w] \in Int /\ t \in Int
    BY <1>0, WindowType, StartsInt
  <2>2. CASE q = k /\ w \in new
    BY <1>1, <1>2, <2>1, <2>2
  <2>3. CASE ~(q = k /\ w \in new)
    BY <1>2, <2>1, <2>3
  <2> QED
    BY <2>2, <2>3
<1>4. WindowsKnown'
  <2>1. ASSUME NEW q \in Keys, NEW w \in Independent
        PROVE  windows'[q][w] \in {Idle, diskWin'[q][w]}
    <3>1. windows[q][w] \in {Idle, diskWin[q][w]}
      BY DEF WindowsKnown
    <3>2. CASE q = k /\ w \in new
      BY <1>2, <3>2
    <3>3. CASE ~(q = k /\ w \in new)
      BY <1>2, <3>1, <3>3
    <3> QED
      BY <3>2, <3>3
  <2>2. ASSUME open PROVE windows' = diskWin'
    <3>1. ASSUME NEW q \in Keys, NEW w \in Independent
          PROVE  windows'[q][w] = diskWin'[q][w]
      <4>1. windows[q][w] = diskWin[q][w]
        BY <2>2 DEF WindowsKnown
      <4>2. CASE q = k /\ w \in new
        BY <1>2, <4>2
      <4>3. CASE ~(q = k /\ w \in new)
        BY <1>2, <4>1, <4>3
      <4> QED
        BY <4>2, <4>3
    <3> QED
      BY <3>1
  <2> QED
    BY <1>0, <2>1, <2>2 DEF WindowsKnown
<1>5. BoundKnown'
  <2> SUFFICES ASSUME NEW q \in Requests, NEW w \in Independent, stage'[q] = "admitted"
               PROVE  bound'[q][w] <= windows'[KeyOf[q]][w]
    BY DEF BoundKnown
  <2>1. KeyOf[q] \in Keys
    BY KeyAssumption
  <2>2. CASE q = r
    <3>1. bound'[q][w] = IF w \in Limits[k] THEN start(w) ELSE Idle
      BY <2>2 DEF Admit
    <3>2. windows'[KeyOf[q]][w] = start(w)
      BY <1>0, <1>2, <2>2
    <3>3. start(w) \in Int /\ Idle <= start(w)
      BY <1>0, WindowType, StartsInt
    <3> QED
      BY <3>1, <3>2, <3>3
  <2>3. CASE q # r
    <3>1. bound'[q][w] = bound[q][w] /\ stage[q] = "admitted"
      BY <2>3 DEF Admit
    <3>2. bound[q][w] <= windows[KeyOf[q]][w] /\ windows[KeyOf[q]][w] <= windows'[KeyOf[q]][w]
      BY <1>3, <2>1, <3>1 DEF BoundKnown
    <3>3. bound[q][w] \in Starts /\ windows'[KeyOf[q]][w] \in Starts
      BY <2>1
    <3> QED
      BY <2>1, <3>1, <3>2, <3>3, StartsInt, WindowType
  <2> QED
    BY <2>2, <2>3
<1>6. FutureEmpty'
  <2> SUFFICES ASSUME NEW c \in Cells, c[2] \in Independent, windows'[c[1]][c[2]] < c[3]
               PROVE  mem[c] = 0 /\ dirty[c] = 0 /\ taken[c] = 0
    BY <1>0 DEF FutureEmpty
  <2>1. c[1] \in Keys /\ c[3] \in Times
    BY CellParts
  <2>2. /\ windows[c[1]][c[2]] \in Int /\ windows'[c[1]][c[2]] \in Starts /\ c[3] \in Int
        /\ windows[c[1]][c[2]] <= windows'[c[1]][c[2]]
    BY <1>3, <2>1, WindowType, StartsInt
  <2> QED
    BY <2>1, <2>2, StartsInt DEF FutureEmpty
<1>7. ASSUME NEW c \in Cells
      PROVE  disk'[c] = IF c \in {k} \X new \X {t} THEN 0 ELSE disk[c]
  BY DEF Admit, PersistWindows
<1>8. KnownCounts'
  <2> SUFFICES ASSUME open, NEW c \in Cells, Known(c)'
               PROVE  mem[c] = Plus(Plus(disk'[c], taken[c]), dirty[c])
    BY <1>0 DEF KnownCounts
  <2>1. /\ c[1] \in Keys /\ c[2] \in Windows \cup {Lifetime} /\ c[3] \in Times
        /\ c = <<c[1], c[2], c[3]>>
    BY CellParts
  <2>2. CASE c[2] \in new /\ c[1] = k
    <3>1. c[2] \in Independent /\ c[2] # Lifetime
      BY <1>1, <2>2, WindowAssumption
    <3>2. c[3] = t
      BY <1>2, <2>1, <2>2, <3>1 DEF Known
    <3>3. mem[c] = 0 /\ dirty[c] = 0 /\ taken[c] = 0
      BY <1>1, <2>2, <3>1, <3>2 DEF FutureEmpty
    <3>4. disk'[c] = 0
      BY <1>7, <2>1, <2>2, <3>2
    <3>5. 0 \in Amounts
      BY BoundAssumption DEF Amounts
    <3> QED
      BY <3>3, <3>4, <3>5, PlusZero
  <2>3. CASE ~(c[2] \in new /\ c[1] = k)
    <3>1. disk'[c] = disk[c]
      BY <1>7, <2>3
    <3>2. Known(c)
      BY <1>2, <2>1, <2>3 DEF Known
    <3> QED
      BY <3>1, <3>2 DEF KnownCounts
  <2> QED
    BY <2>2, <2>3
<1>9. Offline'
  <2> SUFFICES ASSUME ~open, NEW c \in Cells, Known(c)', disk'[c] = 0
               PROVE  mem[c] = dirty[c]
    BY <1>0 DEF Offline
  <2>1. new = {}
    BY <1>0
  <2>2. disk'[c] = disk[c]
    BY <1>7, <2>1
  <2>3. Known(c)
    BY <1>2, <2>1, CellParts DEF Known
  <2> QED
    BY <2>2, <2>3 DEF Offline
<1>10. (NothingStranded /\ FlushParts /\ DownParts)'
  BY <1>0 DEF NothingStranded, FlushParts, DownParts
<1>11. LoadParts'
  <2> SUFFICES ASSUME loading PROVE disk' = disk /\ diskWin' = diskWin
    BY <1>0 DEF LoadParts
  <2>1. new = {}
    BY <1>0 DEF LoadParts
  <2>2. \A c \in Cells : disk'[c] = disk[c]
    BY <1>7, <2>1
  <2>3. \A q \in Keys, w \in Independent : diskWin'[q][w] = diskWin[q][w]
    BY <1>2, <2>1
  <2> QED
    BY <2>2, <2>3
<1> QED
  BY <1>4, <1>5, <1>6, <1>8, <1>9, <1>10, <1>11

LEMMA InvRecord ==
  ASSUME TypeOK, IInv, NEW r \in Requests, NEW amount \in Charges, Record(r, amount)
  PROVE  IInv'
<1> USE DEF IInv, TypeOK, loadVars, diskVars
<1>0. /\ amount \in Amounts /\ KeyOf[r] \in Keys
      /\ stage[r] = "admitted" /\ pending' = TRUE /\ phase # "down" /\ phase' = phase
      /\ UNCHANGED <<open, windows, flushing, taken, loading, snapshot, disk, diskWin, bound>>
      /\ \A q \in Requests : stage'[q] = "admitted" => stage[q] = "admitted"
  BY KeyAssumption, BoundAssumption DEF Record, Up, Amounts
<1>1. ASSUME NEW c \in Cells
      PROVE  /\ mem'[c] = IF c \in Touched(r) THEN Plus(mem[c], amount) ELSE mem[c]
             /\ dirty'[c] = IF c \in Touched(r) THEN Plus(dirty[c], amount) ELSE dirty[c]
  BY DEF Record
<1>2. (NothingStranded /\ FlushParts /\ LoadParts /\ DownParts)'
  BY <1>0 DEF NothingStranded, FlushParts, LoadParts, DownParts
<1>3. (WindowsKnown /\ BoundKnown)'
  BY <1>0 DEF WindowsKnown, BoundKnown
<1>4. FutureEmpty'
  <2> SUFFICES ASSUME NEW c \in Cells, c[2] \in Independent, windows[c[1]][c[2]] < c[3]
               PROVE  c \notin Touched(r)
    BY <1>0, <1>1 DEF FutureEmpty
  <2>1. c[2] # Lifetime /\ c[2] \notin Fixed /\ c[1] \in Keys /\ c[3] \in Times
    BY CellParts, WindowAssumption
  <2>2. bound[r][c[2]] <= windows[KeyOf[r]][c[2]]
    BY <1>0 DEF BoundKnown
  <2>3. bound[r][c[2]] \in Starts
    OBVIOUS
  <2>4. KeyOf[r] = c[1] => bound[r][c[2]] # c[3]
    BY <2>1, <2>2, <2>3, StartsInt, WindowType
  <2> QED
    BY <2>1, <2>4 DEF Touched, Life
<1>5. KnownCounts'
  <2> SUFFICES ASSUME open, NEW c \in Cells, Known(c)
               PROVE  mem'[c] = Plus(Plus(disk[c], taken[c]), dirty'[c])
    BY <1>0 DEF KnownCounts, Known
  <2>1. mem[c] = Plus(Plus(disk[c], taken[c]), dirty[c])
    BY DEF KnownCounts
  <2>2. Plus(disk[c], taken[c]) \in Amounts /\ dirty[c] \in Amounts
    BY PlusType
  <2>3. CASE c \in Touched(r)
    <3>1. mem'[c] = Plus(mem[c], amount) /\ dirty'[c] = Plus(dirty[c], amount)
      BY <1>1, <2>3
    <3> QED
      BY <1>0, <2>1, <2>2, <3>1, PlusLaws
  <2>4. CASE c \notin Touched(r)
    BY <1>1, <2>1, <2>4
  <2> QED
    BY <2>3, <2>4
<1>6. Offline'
  <2> SUFFICES ASSUME ~open, NEW c \in Cells, Known(c)', disk'[c] = 0
               PROVE  mem'[c] = dirty'[c]
    BY <1>0 DEF Offline
  <2>1. mem[c] = dirty[c]
    BY <1>0 DEF Offline, Known
  <2> QED
    BY <1>1, <2>1
<1> QED
  BY <1>2, <1>3, <1>4, <1>5, <1>6

LEMMA InvStep == TypeOK /\ TypeOK' /\ IInv /\ [Next]_vars => IInv'
<1> SUFFICES ASSUME TypeOK, TypeOK', IInv, [Next]_vars PROVE IInv'
  OBVIOUS
<1> USE DEF managed, flushVars, loadVars, diskVars, requestVars
<1>1. CASE UNCHANGED vars
  BY <1>1, InvQuiet DEF vars
<1>2. CASE Tick \/ ConnectFail \/ Shutdown
  BY <1>2, InvQuiet DEF Tick, ConnectFail, Shutdown, Up
<1>3. ASSUME NEW r \in Requests, Arrive(r) \/ Drop(r) PROVE IInv'
  <2>1. \A q \in Requests : stage'[q] = "admitted" => stage[q] = "admitted"
    BY <1>3 DEF Arrive, Drop, TypeOK
  <2> QED
    BY <1>3, <2>1, InvQuiet DEF Arrive, Drop
<1>4. CASE FlushBegin \/ CloseFlush
  BY <1>4, InvTakeDirty DEF FlushBegin, CloseFlush
<1>5. CASE Bootstrap
  BY <1>5, InvBootstrap
<1>6. CASE ConnectRead \/ ConnectInstall
  BY <1>6, InvConnectRead, InvConnectInstall
<1>7. CASE FlushCommit \/ FlushFail
  BY <1>7, InvFlushCommit, InvFlushFail
<1>8. CASE CloseDatabase \/ Exit
  BY <1>8, InvCloseDatabase, InvExit
<1> QED
  BY <1>1, <1>2, <1>3, <1>4, <1>5, <1>6, <1>7, <1>8, InvStart, InvAdmit, InvRecord DEF Next

LEMMA Inductive == Spec => []IInv
<1>1. Init => TypeOK /\ IInv
  BY InvInit, TypeInit
<1> QED
  BY <1>1, TypeCorrect, InvStep, PTL DEF Spec

(* takeDirty never throws away a delta it finds no event for.              *)
THEOREM NoDeltaStranded == Spec => []NothingStranded
BY Inductive, PTL DEF IInv

(* A request runs only in windows that are on disk.                        *)
THEOREM WindowsAnchored == Spec => []AnchoredBeforeUse
<1>1. TypeOK /\ IInv => AnchoredBeforeUse
  <2> SUFFICES ASSUME TypeOK, IInv, NEW r \in Requests, NEW w \in Independent,
                      stage[r] = "admitted"
               PROVE  bound[r][w] <= diskWin[KeyOf[r]][w]
    BY DEF AnchoredBeforeUse
  <2>1. KeyOf[r] \in Keys /\ bound[r][w] \in Starts
    BY KeyAssumption DEF TypeOK
  <2>2. bound[r][w] <= windows[KeyOf[r]][w]
    BY DEF IInv, BoundKnown
  <2>3. windows[KeyOf[r]][w] \in {Idle, diskWin[KeyOf[r]][w]}
    BY <2>1 DEF IInv, WindowsKnown
  <2> QED
    BY <2>1, <2>2, <2>3, WindowType, StartsInt
<1> QED
  BY <1>1, TypeCorrect, Inductive, PTL

----------------------------------------------------------------------------
(* Windows on disk.                                                        *)

(* Nobody is admitted for a time that has not come.                        *)
AdmittedInPast == \A r \in Requests : at[r] <= clock

LEMMA PastInvariant == Spec => []AdmittedInPast
<1>1. Init => AdmittedInPast
  BY DEF Init, AdmittedInPast
<1>2. TypeOK /\ AdmittedInPast /\ [Next]_vars => AdmittedInPast'
  <2> SUFFICES ASSUME TypeOK, AdmittedInPast, [Next]_vars, NEW r \in Requests
               PROVE  at'[r] <= clock'
    BY DEF AdmittedInPast
  <2>1. at[r] <= clock /\ at[r] \in Int /\ clock \in Int
    BY StartsInt DEF AdmittedInPast, TypeOK
  <2>2. CASE Tick
    BY <2>1, <2>2 DEF Tick, requestVars
  <2>3. ASSUME NEW q \in Requests, Arrive(q) PROVE at'[r] <= clock'
    BY <2>1, <2>3 DEF Arrive, TypeOK
  <2>4. CASE UNCHANGED <<clock, at>>
    BY <2>1, <2>4
  <2>5. ASSUME NEW connected \in BOOLEAN, Start(connected) PROVE UNCHANGED <<clock, at>>
    BY <2>5 DEF Start, requestVars
  <2>6. ASSUME NEW q \in Requests, Admit(q) \/ Drop(q) PROVE UNCHANGED <<clock, at>>
    BY <2>6 DEF Admit, Drop
  <2>7. ASSUME NEW q \in Requests, NEW amount \in Charges, Record(q, amount)
        PROVE  UNCHANGED <<clock, at>>
    BY <2>7 DEF Record
  <2>8. Bootstrap \/ ConnectRead \/ ConnectInstall \/ ConnectFail => UNCHANGED <<clock, at>>
    BY DEF Bootstrap, ConnectRead, ConnectInstall, ConnectFail, requestVars
  <2>9. FlushBegin \/ CloseFlush \/ FlushCommit \/ FlushFail => UNCHANGED <<clock, at>>
    BY DEF FlushBegin, CloseFlush, TakeDirty, FlushCommit, FlushFail, requestVars
  <2>10. Shutdown \/ CloseDatabase \/ Exit => UNCHANGED <<clock, at>>
    BY DEF Shutdown, CloseDatabase, Exit, requestVars
  <2>11. UNCHANGED vars => UNCHANGED <<clock, at>>
    BY DEF vars, requestVars
  <2> QED
    BY <2>2, <2>3, <2>4, <2>5, <2>6, <2>7, <2>8, <2>9, <2>10, <2>11 DEF Next
<1> QED
  BY <1>1, <1>2, TypeCorrect, PTL DEF Spec

(* Only Admit writes the windows on disk.                                  *)
LEMMA OnlyAdmitWrites ==
  ASSUME [Next]_vars, diskWin' # diskWin
  PROVE  \E r \in Requests : Admit(r)
<1>1. \A r \in Requests : Arrive(r) \/ Drop(r) => UNCHANGED diskWin
  BY DEF Arrive, Drop, diskVars
<1>2. \A r \in Requests, amount \in Charges : Record(r, amount) => UNCHANGED diskWin
  BY DEF Record, diskVars
<1>3. \A connected \in BOOLEAN : Start(connected) => UNCHANGED diskWin
  BY DEF Start, diskVars
<1>4. Bootstrap \/ ConnectRead \/ ConnectInstall \/ ConnectFail \/ Tick => UNCHANGED diskWin
  BY DEF Bootstrap, ConnectRead, ConnectInstall, ConnectFail, Tick, diskVars
<1>5. FlushBegin \/ CloseFlush \/ FlushCommit \/ FlushFail => UNCHANGED diskWin
  BY DEF FlushBegin, CloseFlush, TakeDirty, FlushCommit, FlushFail, diskVars
<1>6. Shutdown \/ CloseDatabase \/ Exit \/ UNCHANGED vars => UNCHANGED diskWin
  BY DEF Shutdown, CloseDatabase, Exit, vars, diskVars
<1> QED
  BY <1>1, <1>2, <1>3, <1>4, <1>5, <1>6 DEF Next

(* A window that was promised on disk keeps its whole length, whatever     *)
(* crashes, failures and late requests come in between.                    *)
THEOREM WindowsKept == Spec => WindowKeptToItsEnd
<1>1. TypeOK /\ IInv /\ AdmittedInPast /\ [Next]_vars
        => [\A k \in Keys, w \in Independent :
              diskWin[k][w] # Idle /\ diskWin'[k][w] # diskWin[k][w]
                => clock >= diskWin[k][w] + Duration[w]]_vars
  <2> SUFFICES ASSUME TypeOK, IInv, AdmittedInPast, [Next]_vars,
                      NEW k \in Keys, NEW w \in Independent,
                      diskWin[k][w] # Idle, diskWin'[k][w] # diskWin[k][w]
               PROVE  clock >= diskWin[k][w] + Duration[w]
    OBVIOUS
  <2>1. PICK r \in Requests : Admit(r)
    BY OnlyAdmitWrites
  <2>2. k = KeyOf[r] /\ w \in Opened(KeyOf[r], at[r])
    BY <2>1 DEF Admit, PersistWindows, TypeOK
  <2>3. open /\ windows = diskWin
    BY <2>1, <2>2 DEF Admit, IInv, WindowsKnown
  <2>4. at[r] >= diskWin[k][w] + Duration[w]
    <3>1. ~Active(k, w, at[r])
      BY <2>2 DEF Opened
    <3>2. at[r] \in Int /\ diskWin[k][w] \in Int /\ Duration[w] \in Int
      BY WindowType, StartsInt, WindowAssumption DEF TypeOK
    <3> QED
      BY <2>3, <3>1, <3>2 DEF Active
  <2>5. at[r] <= clock /\ at[r] \in Int /\ clock \in Int
    BY StartsInt DEF AdmittedInPast, TypeOK
  <2>6. diskWin[k][w] + Duration[w] \in Int
    BY WindowType, WindowAssumption
  <2> QED
    BY <2>4, <2>5, <2>6
<1> QED
  BY <1>1, TypeCorrect, Inductive, PastInvariant, PTL DEF Spec, WindowKeptToItsEnd

(* A new window has nothing counted in it, in memory, in a flush, waiting  *)
(* for one or on disk: the row an older version left under the same start  *)
(* goes in the transaction that opens the window.                          *)
THEOREM WindowsStartEmpty == Spec => WindowStartsEmpty
<1>1. TypeOK /\ IInv /\ [Next]_vars
        => [\A k \in Keys, w \in Independent :
              diskWin'[k][w] # diskWin[k][w]
                => LET c == <<k, w, diskWin'[k][w]>>
                   IN mem'[c] = 0 /\ disk'[c] = 0 /\ dirty'[c] = 0 /\ taken'[c] = 0]_vars
  <2> SUFFICES ASSUME TypeOK, IInv, [Next]_vars, NEW k \in Keys, NEW w \in Independent,
                      diskWin'[k][w] # diskWin[k][w]
               PROVE  LET c == <<k, w, diskWin'[k][w]>>
                      IN mem'[c] = 0 /\ disk'[c] = 0 /\ dirty'[c] = 0 /\ taken'[c] = 0
    OBVIOUS
  <2>1. PICK r \in Requests : Admit(r)
    BY OnlyAdmitWrites
  <2> DEFINE t == at[r]
             c == <<k, w, t>>
  <2>2. k = KeyOf[r] /\ w \in Opened(k, t) /\ diskWin'[k][w] = t /\ t \in Times
    BY <2>1 DEF Admit, PersistWindows, TypeOK
  <2>3. w \in Independent /\ windows[k][w] < t /\ c \in Cells
    BY <2>2, OpenedLater DEF Cells, Windows
  <2>4. mem[c] = 0 /\ dirty[c] = 0 /\ taken[c] = 0
    BY <2>3 DEF IInv, FutureEmpty
  <2>5. disk'[c] = 0 /\ UNCHANGED <<mem, dirty, taken>>
    BY <2>1, <2>2, <2>3 DEF Admit, PersistWindows, flushVars
  <2> QED
    BY <2>2, <2>4, <2>5
<1> QED
  BY <1>1, TypeCorrect, Inductive, PTL DEF Spec, WindowStartsEmpty

(* Of the steps that go on with a connection, only a record changes a      *)
(* counter of a window.                                                    *)
LEMMA OnlyRecordCounts ==
  ASSUME TypeOK, IInv, [Next]_vars, open, phase' # "down",
         NEW c, c \in Cells, c[2] # Lifetime, mem'[c] # mem[c]
  PROVE  \E r \in Requests, amount \in Charges : Record(r, amount)
<1>1. \A r \in Requests : Arrive(r) \/ Admit(r) \/ Drop(r) => UNCHANGED mem
  BY DEF Arrive, Admit, Drop
<1>2. \A connected \in BOOLEAN : ~Start(connected)
  BY DEF Start, IInv, DownParts
<1>3. ~ConnectInstall /\ ~Exit
  BY DEF ConnectInstall, Exit, IInv, LoadParts
<1>4. ConnectRead \/ ConnectFail \/ Tick \/ Shutdown \/ CloseDatabase => UNCHANGED mem
  BY DEF ConnectRead, ConnectFail, Tick, Shutdown, CloseDatabase
<1>5. FlushBegin \/ CloseFlush \/ FlushCommit \/ FlushFail \/ UNCHANGED vars => UNCHANGED mem
  BY DEF FlushBegin, CloseFlush, TakeDirty, FlushCommit, FlushFail, vars
<1>6. Bootstrap => mem'[c] = mem[c]
  <2>1. \A k \in Keys : c # Life(k)
    BY DEF Life
  <2>2. c \notin {Life(k) : k \in {k \in Keys : mem[Life(k)] = 0 /\ Legacy[k] # 0}}
    BY <2>1
  <2> QED
    BY <2>2 DEF Bootstrap
<1> QED
  BY <1>1, <1>2, <1>3, <1>4, <1>5, <1>6 DEF Next

(* A window that is open grows only by requests that were admitted in it:  *)
(* a request that outlives its own window does not count in the next one.  *)
THEOREM WindowsCountTheirOwn == Spec => LateCompletionKeepsOut
<1>1. TypeOK /\ IInv /\ [Next]_vars
        => [\A k \in Keys, w \in Independent :
              LET c == <<k, w, windows[k][w]>>
              IN open /\ windows[k][w] # Idle /\ phase' # "down" /\ mem'[c] # mem[c]
                 => \E r \in Requests : /\ stage[r] = "admitted" /\ stage'[r] = "done"
                                        /\ KeyOf[r] = k /\ bound[r][w] = windows[k][w]]_vars
  <2> SUFFICES ASSUME TypeOK, IInv, [Next]_vars, NEW k \in Keys, NEW w \in Independent,
                      open, windows[k][w] # Idle, phase' # "down",
                      mem'[<<k, w, windows[k][w]>>] # mem[<<k, w, windows[k][w]>>]
               PROVE  \E r \in Requests : /\ stage[r] = "admitted" /\ stage'[r] = "done"
                                          /\ KeyOf[r] = k /\ bound[r][w] = windows[k][w]
    OBVIOUS
  <2> DEFINE c == <<k, w, windows[k][w]>>
  <2>1. c \in Cells /\ w # Lifetime /\ w \notin Fixed
    BY WindowType, WindowAssumption DEF Cells, Windows, Starts
  <2>2. PICK r \in Requests, amount \in Charges : Record(r, amount)
    BY <2>1, OnlyRecordCounts
  <2>3. c \in Touched(r)
    BY <2>1, <2>2 DEF Record
  <2>4. KeyOf[r] = k /\ bound[r][w] = windows[k][w]
    BY <2>1, <2>3 DEF Touched, Life
  <2> QED
    BY <2>2, <2>4 DEF Record, TypeOK
<1> QED
  BY <1>1, TypeCorrect, Inductive, PTL DEF Spec, LateCompletionKeepsOut

----------------------------------------------------------------------------
(* The manager keeps the promises of DurableUsage, once nothing is left to *)
(* import from the control database.                                       *)

NothingToImport == \A k \in Keys : Legacy[k] = 0
used == [k \in Keys |-> Plus(Plus(disk[Life(k)], taken[Life(k)]), dirty[Life(k)])]
saved == [k \in Keys |-> disk[Life(k)]]
countable == {r \in Requests : stage[r] # "done"}

LEMMA LifeCell ==
  ASSUME NEW k \in Keys
  PROVE  /\ Life(k) \in Cells
         /\ TypeOK => /\ disk[Life(k)] \in Amounts /\ taken[Life(k)] \in Amounts
                      /\ dirty[Life(k)] \in Amounts
<1>1. Life(k) \in Cells
  BY DEF Cells
<1> QED
  BY <1>1 DEF TypeOK

LEMMA LifeTouched ==
  ASSUME NEW k \in Keys, NEW r \in Requests
  PROVE  Life(k) \in Touched(r) <=> k = KeyOf[r]
BY WindowAssumption DEF Life, Touched

(* A flush moves deltas between the three places and changes no sum.       *)
LEMMA FlushKeepsUsed ==
  ASSUME TypeOK, IInv, TakeDirty \/ FlushCommit \/ FlushFail
  PROVE  used' = used
<1> SUFFICES ASSUME NEW k \in Keys
             PROVE  Plus(Plus(disk'[Life(k)], taken'[Life(k)]), dirty'[Life(k)])
                      = Plus(Plus(disk[Life(k)], taken[Life(k)]), dirty[Life(k)])
  BY DEF used
<1> DEFINE c == Life(k)
<1>1. /\ c \in Cells /\ Zero[c] = 0
      /\ disk[c] \in Amounts /\ taken[c] \in Amounts /\ dirty[c] \in Amounts
  BY LifeCell, ZeroType
<1> HIDE DEF c
<1>2. CASE TakeDirty
  <2>1. taken = Zero /\ taken' = dirty /\ dirty' = Zero /\ disk' = disk
    BY <1>2 DEF TakeDirty, MoveDirty, diskVars, IInv, FlushParts, NothingStranded
  <2> QED
    BY <1>1, <2>1, PlusZero, PlusType DEF c
<1>3. CASE FlushCommit
  <2>1. disk'[c] = Plus(disk[c], taken[c]) /\ taken' = Zero /\ dirty' = dirty
    BY <1>1, <1>3 DEF FlushCommit, Sum
  <2> QED
    BY <1>1, <2>1, PlusZero, PlusType DEF c
<1>4. CASE FlushFail
  <2>1. disk' = disk /\ taken' = Zero /\ dirty'[c] = Plus(dirty[c], taken[c])
    BY <1>1, <1>4 DEF FlushFail, RestoreDirty, Sum, diskVars
  <2> QED
    BY <1>1, <2>1, PlusZero, PlusLaws DEF c
<1> QED
  BY <1>2, <1>3, <1>4

LEMMA RecordCounts ==
  ASSUME TypeOK, IInv, NEW r \in Requests, NEW amount \in Charges, Record(r, amount)
  PROVE  Durable!Count(r, amount)
<1>1. r \in countable /\ countable' = countable \ {r} /\ saved' = saved
  BY DEF Record, countable, saved, TypeOK, diskVars
<1>2. ASSUME NEW k \in Keys
      PROVE  used'[k] = IF k = KeyOf[r] THEN Plus(used[k], amount) ELSE used[k]
  <2> DEFINE c == Life(k)
  <2>1. /\ c \in Cells /\ disk[c] \in Amounts /\ taken[c] \in Amounts
        /\ dirty[c] \in Amounts /\ amount \in Amounts
    BY LifeCell, BoundAssumption DEF Amounts
  <2>2. /\ dirty'[c] = IF k = KeyOf[r] THEN Plus(dirty[c], amount) ELSE dirty[c]
        /\ disk' = disk /\ taken' = taken
    BY <2>1, LifeTouched DEF Record, diskVars
  <2> HIDE DEF c
  <2>3. Plus(Plus(Plus(disk[c], taken[c]), dirty[c]), amount)
          = Plus(Plus(disk[c], taken[c]), Plus(dirty[c], amount))
    <3>1. Plus(disk[c], taken[c]) \in Amounts
      BY <2>1, PlusType
    <3> QED
      BY <2>1, <3>1, PlusLaws
  <2> QED
    BY <2>2, <2>3 DEF used, c
<1>3. used' = [used EXCEPT ![KeyOf[r]] = Plus(@, amount)]
  BY <1>2, KeyAssumption DEF used
<1> QED
  BY <1>1, <1>3 DEF Durable!Count, Durable!Add, Plus, used, saved, countable

(* A commit saves some of what is used; a lost process falls back to it.   *)
LEMMA CommitSaves ==
  ASSUME TypeOK, IInv, FlushCommit
  PROVE  Durable!Save
<1>1. used' = used /\ countable' = countable
  BY FlushKeepsUsed DEF FlushCommit, requestVars, countable
<1>2. ASSUME NEW k \in Keys
      PROVE  /\ saved'[k] \in 0 .. Cap
             /\ saved[k] <= saved'[k] /\ saved'[k] <= used[k]
  <2> DEFINE c == Life(k)
  <2>1. c \in Cells /\ disk[c] \in Amounts /\ taken[c] \in Amounts /\ dirty[c] \in Amounts
    BY LifeCell
  <2>2. saved'[k] = Plus(disk[c], taken[c]) /\ saved[k] = disk[c]
        /\ used[k] = Plus(Plus(disk[c], taken[c]), dirty[c])
    BY <2>1 DEF FlushCommit, Sum, saved, used
  <2> HIDE DEF c
  <2> QED
    BY <2>1, <2>2, BoundAssumption DEF Plus, Amounts
<1>3. saved' \in [Keys -> 0 .. Cap]
  BY <1>2 DEF saved
<1> QED
  BY <1>1, <1>2, <1>3 DEF Durable!Save, used, saved, countable

LEMMA ExitLoses ==
  ASSUME TypeOK, Exit
  PROVE  Durable!Lose
<1>1. countable' \in SUBSET countable
  BY DEF Exit, countable, TypeOK
<1>2. saved' = saved /\ used' = saved
  <2> SUFFICES ASSUME NEW k \in Keys
               PROVE  Plus(Plus(disk[Life(k)], 0), 0) = disk[Life(k)]
    BY LifeCell, ZeroType DEF Exit, diskVars, used, saved
  <2> QED
    BY LifeCell, PlusZero
<1> QED
  BY <1>1, <1>2 DEF Durable!Lose, used, saved, countable

(* Every other step changes nothing the specification speaks of.           *)
LEMMA OthersStutter ==
  ASSUME NothingToImport, TypeOK, IInv,
         \/ UNCHANGED vars \/ Tick \/ Bootstrap \/ ConnectRead \/ ConnectInstall
         \/ ConnectFail \/ Shutdown \/ CloseDatabase
         \/ \E connected \in BOOLEAN : Start(connected)
  PROVE  used' = used /\ saved' = saved /\ countable' = countable
<1> USE DEF flushVars, loadVars, diskVars, requestVars, used, saved, countable
<1>1. CASE Bootstrap
  <2>1. dirty' = dirty
    BY <1>1, LifeCell DEF Bootstrap, NothingToImport, TypeOK
  <2> QED
    BY <1>1, <2>1 DEF Bootstrap
<1>2. CASE ConnectRead \/ ConnectInstall \/ ConnectFail
  BY <1>2 DEF ConnectRead, ConnectInstall, ConnectFail
<1>3. CASE Tick \/ Shutdown \/ CloseDatabase \/ UNCHANGED vars
  BY <1>3 DEF Tick, Shutdown, CloseDatabase, vars
<1>4. CASE \E connected \in BOOLEAN : Start(connected)
  BY <1>4 DEF Start
<1> QED
  BY <1>1, <1>2, <1>3, <1>4

(* Arriving and being admitted use nothing yet.                            *)
LEMMA AdmissionStutters ==
  ASSUME TypeOK, NEW r \in Requests, Arrive(r) \/ Admit(r)
  PROVE  used' = used /\ saved' = saved /\ countable' = countable
<1>1. countable' = countable
  BY DEF Arrive, Admit, countable, TypeOK
<1>2. CASE Arrive(r)
  BY <1>1, <1>2 DEF Arrive, used, saved, flushVars, diskVars
<1>3. CASE Admit(r)
  <2>1. ASSUME NEW k \in Keys PROVE disk'[Life(k)] = disk[Life(k)]
    <3>1. Life(k) \in Cells /\ Life(k)[2] \notin Opened(KeyOf[r], at[r])
      BY LifeCell, WindowAssumption DEF Life, Opened
    <3> QED
      BY <1>3, <3>1 DEF Admit, PersistWindows
  <2>2. UNCHANGED <<taken, dirty>>
    BY <1>3 DEF Admit, flushVars
  <2> QED
    BY <1>1, <2>1, <2>2 DEF used, saved
<1> QED
  BY <1>2, <1>3

(* Whatever happens to flushes, connections and the process, a key's usage *)
(* is counted once per request, checkpointed monotonically and never falls *)
(* below its last checkpoint.                                              *)
THEOREM ImplementsDurableUsage ==
  ASSUME NothingToImport
  PROVE  Spec => KeepsUsage
<1>1. Init => Durable!Init
  <2> SUFFICES ASSUME Init PROVE Durable!Init
    OBVIOUS
  <2>1. ASSUME NEW k \in Keys PROVE disk[Life(k)] = 0
    <3>1. PICK old \in OldBuckets : disk = [c \in Cells |-> IF c \in old THEN Cap ELSE 0]
      BY DEF Init
    <3>2. Life(k) \notin old
      BY OldBucketAssumption, WindowAssumption DEF Life
    <3> QED
      BY <3>1, <3>2, LifeCell
  <2>2. Plus(Plus(0, 0), 0) = 0
    BY BoundAssumption DEF Plus
  <2>3. /\ used = [k \in Keys |-> 0] /\ saved = [k \in Keys |-> 0]
        /\ countable = Requests
    BY <2>1, <2>2, LifeCell, ZeroType DEF Init, used, saved, countable
  <2> QED
    BY <2>3 DEF Durable!Init, used, saved, countable
<1>2. TypeOK /\ IInv /\ [Next]_vars => [Durable!Next]_Durable!vars
  <2> SUFFICES ASSUME TypeOK, IInv, [Next]_vars
               PROVE  \/ Durable!Next
                      \/ used' = used /\ saved' = saved /\ countable' = countable
    BY DEF Durable!vars, used, saved, countable
  <2>1. CASE FlushBegin \/ CloseFlush
    BY <2>1, FlushKeepsUsed
    DEF FlushBegin, CloseFlush, TakeDirty, diskVars, requestVars, saved, countable
  <2>2. CASE FlushCommit
    BY <2>2, CommitSaves DEF Durable!Next
  <2>3. CASE FlushFail
    BY <2>3, FlushKeepsUsed DEF FlushFail, diskVars, requestVars, saved, countable
  <2>4. CASE Exit
    BY <2>4, ExitLoses DEF Durable!Next
  <2>5. ASSUME NEW r \in Requests, Arrive(r) \/ Admit(r)
        PROVE  used' = used /\ saved' = saved /\ countable' = countable
    BY <2>5, AdmissionStutters
  <2>6. ASSUME NEW r \in Requests, Drop(r) PROVE Durable!Refuse(r)
    BY <2>6 DEF Drop, Durable!Refuse, TypeOK, diskVars, flushVars
  <2>7. ASSUME NEW r \in Requests, NEW amount \in Charges, Record(r, amount)
        PROVE  Durable!Count(r, amount)
    BY <2>7, RecordCounts
  <2>8. CASE \/ UNCHANGED vars \/ Tick \/ Bootstrap \/ ConnectRead \/ ConnectInstall
             \/ ConnectFail \/ Shutdown \/ CloseDatabase
             \/ \E connected \in BOOLEAN : Start(connected)
    BY <2>8, OthersStutter
  <2> QED
    BY <2>1, <2>2, <2>3, <2>4, <2>5, <2>6, <2>7, <2>8 DEF Next, Durable!Next
<1> QED
  BY <1>1, <1>2, TypeCorrect, Inductive, PTL DEF Spec, KeepsUsage, Durable!Spec

----------------------------------------------------------------------------
(* The inductive invariant behind SoftQuota: a limit is overshot by at     *)
(* most what the requests that run at the same time may still add. That    *)
(* needs more than IInv, for the room must hold for what a restart or a    *)
(* reconnection will read, too.                                            *)

(* All that is known of a cell, wherever it is kept.                       *)
Held(c) == Plus(Plus(disk[c], taken[c]), dirty[c])

(* The admitted requests that may still count in a cell.                   *)
Counting(c) == {r \in Requests : stage[r] = "admitted" /\ c \in Touched(r)}

(* An amount and what the given requests may still add to it stay below    *)
(* the ceiling.                                                            *)
HasQuota(c) == c[2] \in Limits[c[1]] \cup {Lifetime} /\ Quota[c[1]][c[2]] > 0
Ceiling(c) == Base(c) + MaxConcurrent * MaxCharge
Fits(c, amount, counting) == amount + MaxCharge * Cardinality(counting) <= Ceiling(c)

(* The limiter: the requests of a key are never more than its slots.       *)
SlotsKept ==
  \A k \in Keys : IsFiniteSet(InFlight(k)) /\ Cardinality(InFlight(k)) <= MaxConcurrent

(* A window the manager knows is counted exactly, connected or not.        *)
AnchoredCounts ==
  \A c \in Cells :
    c[2] \in Independent /\ windows[c[1]][c[2]] = c[3] => mem[c] = Held(c)

(* Nothing is counted in a calendar window that has not begun.             *)
CalendarAhead ==
  \A c \in Cells :
    c[2] \in Fixed /\ FixedStart(c[2], clock) < c[3]
      => mem[c] = 0 /\ dirty[c] = 0 /\ taken[c] = 0 /\ disk[c] = 0

(* Nor was there anything of it when connect read the database.            *)
CalendarRead ==
  loading =>
    /\ snapshot.at <= clock
    /\ \A c \in Cells :
         c[2] \in Fixed /\ FixedStart(c[2], snapshot.at) < c[3] => disk[c] = 0

(* A calendar window that is not over is counted exactly.                  *)
CalendarCounts ==
  \A c \in Cells :
    c[2] \in Fixed /\ FixedStart(c[2], clock) <= c[3]
      => /\ open => mem[c] = Held(c)
         /\ ~open /\ disk[c] = 0 => mem[c] = dirty[c]

(* The cells a start or a connect under way may still install.             *)
Readable(c) ==
  \/ c[2] = Lifetime
  \/ c[2] \in Independent /\ diskWin[c[1]][c[2]] = c[3]
  \/ c[2] \in Fixed /\ \/ FixedStart(c[2], clock) <= c[3]
                       \/ loading /\ FixedStart(c[2], snapshot.at) <= c[3]

(* What is counted, and what may be read again, fits.                      *)
Bounded ==
  \A c \in Cells :
    Limited(c) => /\ Fits(c, mem[c], Counting(c))
                  /\ Readable(c) => Fits(c, Held(c), Counting(c))

QInv ==
  /\ SlotsKept /\ AnchoredCounts
  /\ CalendarAhead /\ CalendarRead /\ CalendarCounts
  /\ Bounded

----------------------------------------------------------------------------
(* Arithmetic.                                                             *)

LEMMA Division ==
  ASSUME NEW t \in Nat, NEW d \in Nat, d > 0
  PROVE  t \div d \in Int /\ t % d \in 0 .. d - 1 /\ t = d * (t \div d) + (t % d)
OBVIOUS

(* Calendar windows begin in the order of time.                            *)
LEMMA FixedMonotone ==
  ASSUME NEW w \in Fixed, NEW s \in Times, NEW t \in Times, s <= t
  PROVE  /\ FixedStart(w, s) \in Int /\ FixedStart(w, t) \in Int
         /\ FixedStart(w, s) <= FixedStart(w, t)
<1> DEFINE d == Duration[w]
           p == s \div d
           q == t \div d
<1>1. d \in Nat /\ d > 0 /\ s \in Nat /\ t \in Nat
  BY WindowAssumption, BoundAssumption DEF Times
<1>2. /\ p \in Int /\ q \in Int
      /\ s = d * p + (s % d) /\ t = d * q + (t % d)
      /\ s % d \in 0 .. d - 1 /\ t % d \in 0 .. d - 1
  BY <1>1, Division
<1>3. FixedStart(w, s) = s - (s % d) /\ FixedStart(w, t) = t - (t % d)
  BY DEF FixedStart
<1> HIDE DEF d, p, q
<1>4. p <= q
  <2> SUFFICES ASSUME p >= q + 1 PROVE FALSE
    BY <1>2
  <2>1. d * p \in Int /\ d * q \in Int /\ d * p >= d * q + d
    <3>1. d * (q + 1) = d * q + d
      BY <1>1, <1>2
    <3>2. d * p >= d * (q + 1)
      BY <1>1, <1>2
    <3> QED
      BY <1>1, <1>2, <3>1, <3>2
  <2> DEFINE a == d * p
             b == d * q
  <2>2. a \in Int /\ b \in Int /\ a >= b + d /\ s = a + (s % d) /\ t = b + (t % d)
    BY <1>2, <2>1
  <2> HIDE DEF a, b
  <2> QED
    BY <1>1, <1>2, <2>2
<1>5. d * p <= d * q /\ d * p \in Int /\ d * q \in Int
  BY <1>1, <1>2, <1>4
<1> DEFINE a == d * p
           b == d * q
<1>6. /\ a \in Int /\ b \in Int /\ a <= b /\ s = a + (s % d) /\ t = b + (t % d)
  BY <1>2, <1>5
<1> HIDE DEF a, b
<1> QED
  BY <1>1, <1>2, <1>3, <1>6

LEMMA TimesLess == ASSUME NEW m \in Nat, NEW a \in Nat, NEW b \in Nat, a <= b
                   PROVE  m * a \in Nat /\ m * b \in Nat /\ m * a <= m * b
OBVIOUS

LEMMA TimesOneLess == ASSUME NEW m \in Nat, NEW a \in Nat
                      PROVE  m * (a + 1) = m * a + m /\ m * a \in Nat
OBVIOUS

----------------------------------------------------------------------------
(* Room below a ceiling.                                                   *)

LEMMA CeilingBase ==
  ASSUME NEW c \in Cells, HasQuota(c)
  PROVE  /\ Base(c) \in Nat /\ Quota[c[1]][c[2]] - 1 <= Base(c)
         /\ Quota[c[1]][c[2]] \in Nat
         /\ c[2] = Lifetime => Legacy[c[1]] <= Base(c)
<1>1. c[1] \in Keys /\ c[2] \in Independent \cup Fixed \cup {Lifetime}
  BY CellParts DEF Windows
<1>2. Quota[c[1]][c[2]] \in Nat /\ Legacy[c[1]] \in Nat
  BY <1>1, KeyAssumption, BoundAssumption
<1> QED
  BY <1>2 DEF Base, HasQuota

LEMMA CeilingType ==
  ASSUME NEW c \in Cells, HasQuota(c)
  PROVE  Ceiling(c) \in Nat
<1> DEFINE room == MaxConcurrent * MaxCharge
<1>1. Base(c) \in Nat
  BY CeilingBase
<1>2. MaxConcurrent \in Nat /\ MaxCharge \in Nat
  BY BoundAssumption
<1>3. room \in Nat
  BY <1>2
<1>4. Ceiling(c) = Base(c) + room
  BY DEF Ceiling
<1> QED
  <2> HIDE DEF room
  <2> QED
    BY <1>1, <1>3, <1>4

(* Less counted and fewer requests fit where more did.                     *)
LEMMA FitsSmaller ==
  ASSUME NEW c \in Cells, HasQuota(c), NEW a \in Nat, NEW b \in Nat, a <= b,
         NEW S, NEW T, IsFiniteSet(T), S \subseteq T, Fits(c, b, T)
  PROVE  Fits(c, a, S)
<1>1. Cardinality(S) \in Nat /\ Cardinality(T) \in Nat /\ Cardinality(S) <= Cardinality(T)
  BY FS_Subset, FS_CardinalityType
<1>2. /\ MaxCharge * Cardinality(S) \in Nat /\ MaxCharge * Cardinality(T) \in Nat
      /\ MaxCharge * Cardinality(S) <= MaxCharge * Cardinality(T)
  BY <1>1, TimesLess, BoundAssumption
<1>3. Ceiling(c) \in Nat
  BY CeilingType
<1> QED
  BY <1>2, <1>3 DEF Fits

(* What the slots of a key allow always fits above the base.               *)
LEMMA FitsFresh ==
  ASSUME NEW c \in Cells, HasQuota(c), NEW a \in Nat, a <= Base(c),
         NEW S, IsFiniteSet(S), Cardinality(S) <= MaxConcurrent
  PROVE  Fits(c, a, S)
<1>1. Cardinality(S) \in Nat
  BY FS_CardinalityType
<1>2. /\ MaxCharge * Cardinality(S) \in Nat /\ MaxCharge * MaxConcurrent \in Nat
      /\ MaxCharge * Cardinality(S) <= MaxCharge * MaxConcurrent
  BY <1>1, TimesLess, BoundAssumption
<1>3. MaxConcurrent * MaxCharge = MaxCharge * MaxConcurrent
  BY BoundAssumption
<1> QED
  BY <1>2, <1>3, CeilingBase DEF Fits, Ceiling

(* A request that counts once gives up its room for it.                    *)
LEMMA FitsRecorded ==
  ASSUME NEW c \in Cells, HasQuota(c), NEW a \in Nat, NEW b \in Nat,
         NEW amount \in Charges, b <= a + amount,
         NEW S, IsFiniteSet(S), NEW r \in S, Fits(c, a, S)
  PROVE  Fits(c, b, S \ {r})
<1>1. /\ Cardinality(S) \in Nat /\ Cardinality(S \ {r}) \in Nat
      /\ Cardinality(S) = Cardinality(S \ {r}) + 1
  <2>1. IsFiniteSet(S \ {r}) /\ Cardinality(S \ {r}) = Cardinality(S) - 1
    BY FS_RemoveElement
  <2>2. Cardinality(S) \in Nat /\ Cardinality(S \ {r}) \in Nat
    BY <2>1, FS_CardinalityType
  <2> QED
    BY <2>1, <2>2
<1>2. /\ MaxCharge * Cardinality(S) = MaxCharge * Cardinality(S \ {r}) + MaxCharge
      /\ MaxCharge * Cardinality(S \ {r}) \in Nat
  BY <1>1, TimesOneLess, BoundAssumption
<1>3. amount \in Nat /\ amount <= MaxCharge /\ MaxCharge \in Nat
  BY BoundAssumption
<1>4. Ceiling(c) \in Nat
  BY CeilingType
<1> QED
  BY <1>2, <1>3, <1>4 DEF Fits

LEMMA TouchedKey ==
  ASSUME NEW r \in Requests, NEW c \in Touched(r)
  PROVE  c[1] = KeyOf[r]
BY DEF Touched, Life

(* Only requests that hold a slot of its key may still count in a cell.    *)
LEMMA CountingSlots ==
  SlotsKept => \A c \in Cells : /\ IsFiniteSet(Counting(c))
                                /\ Cardinality(Counting(c)) <= MaxConcurrent
<1> SUFFICES ASSUME SlotsKept, NEW c \in Cells
             PROVE  IsFiniteSet(Counting(c)) /\ Cardinality(Counting(c)) <= MaxConcurrent
  OBVIOUS
<1>1. Counting(c) \subseteq InFlight(c[1])
  BY TouchedKey DEF Counting, InFlight
<1>2. IsFiniteSet(InFlight(c[1])) /\ Cardinality(InFlight(c[1])) <= MaxConcurrent
  BY CellParts DEF SlotsKept
<1>3. /\ IsFiniteSet(Counting(c)) /\ Cardinality(Counting(c)) \in Nat
      /\ Cardinality(InFlight(c[1])) \in Nat
      /\ Cardinality(Counting(c)) <= Cardinality(InFlight(c[1]))
  BY <1>1, <1>2, FS_Subset, FS_CardinalityType
<1> QED
  BY <1>2, <1>3, BoundAssumption

----------------------------------------------------------------------------
(* What most steps keep.                                                   *)

LEMMA PlusBounds ==
  \A a, b \in Amounts : /\ Plus(a, b) \in Amounts /\ Plus(a, b) \in Nat
                        /\ a <= Plus(a, b) /\ Plus(a, b) <= a + b
  BY BoundAssumption DEF Plus, Amounts

LEMMA HeldType ==
  ASSUME TypeOK, NEW c \in Cells
  PROVE  /\ Held(c) \in Amounts /\ Held(c) \in Nat /\ mem[c] \in Nat
         /\ disk[c] \in Amounts /\ taken[c] \in Amounts /\ dirty[c] \in Amounts
         /\ disk[c] \in Nat /\ disk[c] <= Held(c)
<1>1. /\ disk[c] \in Amounts /\ taken[c] \in Amounts /\ dirty[c] \in Amounts
      /\ mem[c] \in Amounts
  BY DEF TypeOK
<1>2. \A a \in Amounts : a \in Nat
  BY BoundAssumption DEF Amounts
<1> DEFINE s == Plus(disk[c], taken[c])
<1>3. s \in Amounts /\ disk[c] <= s
  BY <1>1, PlusBounds
<1> HIDE DEF s
<1>4. Plus(s, dirty[c]) \in Amounts /\ s <= Plus(s, dirty[c])
  BY <1>1, <1>3, PlusBounds
<1> QED
  BY <1>1, <1>2, <1>3, <1>4 DEF Held, s

LEMMA NextHeldType ==
  ASSUME TypeOK', NEW c \in Cells
  PROVE  mem'[c] \in Nat /\ Held(c)' \in Nat
<1>1. /\ disk'[c] \in Amounts /\ taken'[c] \in Amounts /\ dirty'[c] \in Amounts
      /\ mem'[c] \in Amounts
  BY DEF TypeOK
<1>2. Plus(disk'[c], taken'[c]) \in Amounts
  BY <1>1, PlusBounds
<1>3. Plus(Plus(disk'[c], taken'[c]), dirty'[c]) \in Nat
  BY <1>1, <1>2, PlusBounds
<1> QED
  BY <1>1, <1>3, BoundAssumption DEF Held, Amounts

LEMMA SlotsFewer ==
  ASSUME SlotsKept,
         \A r \in Requests :
           stage'[r] \in {"arrived", "admitted"} => stage[r] \in {"arrived", "admitted"}
  PROVE  SlotsKept'
<1> SUFFICES ASSUME NEW k \in Keys
             PROVE  /\ IsFiniteSet(InFlight(k)')
                    /\ Cardinality(InFlight(k)') <= MaxConcurrent
  BY DEF SlotsKept
<1>1. InFlight(k)' \subseteq InFlight(k)
  BY DEF InFlight
<1>2. IsFiniteSet(InFlight(k)) /\ Cardinality(InFlight(k)) <= MaxConcurrent
  BY DEF SlotsKept
<1>3. /\ IsFiniteSet(InFlight(k)') /\ Cardinality(InFlight(k)') \in Nat
      /\ Cardinality(InFlight(k)) \in Nat
      /\ Cardinality(InFlight(k)') <= Cardinality(InFlight(k))
  BY <1>1, <1>2, FS_Subset, FS_CardinalityType
<1> QED
  BY <1>2, <1>3, BoundAssumption

LEMMA CountingFewer ==
  ASSUME UNCHANGED bound,
         \A r \in Requests :
           stage'[r] = "admitted" => stage[r] = "admitted" /\ at'[r] = at[r]
  PROVE  \A c \in Cells : Counting(c)' \subseteq Counting(c)
BY DEF Counting, Touched

(* A step that admits nobody leaves everything fitting, if it counts no    *)
(* more than what could be read before.                                    *)
LEMMA BoundedKept ==
  ASSUME TypeOK, TypeOK', SlotsKept, Bounded, blind => blind',
         \A c \in Cells : Counting(c)' \subseteq Counting(c),
         \A c \in Cells : \/ mem'[c] = 0 \/ mem'[c] = mem[c]
                          \/ Readable(c) /\ mem'[c] <= Held(c),
         \A c \in Cells : Readable(c)' => Readable(c) /\ Held(c)' <= Held(c)
  PROVE  Bounded'
<1> SUFFICES ASSUME NEW c \in Cells, Limited(c)'
             PROVE  /\ Fits(c, mem'[c], Counting(c)')
                    /\ Readable(c)' => Fits(c, Held(c)', Counting(c)')
  BY DEF Bounded, Fits
<1>1. /\ HasQuota(c) /\ Limited(c)
      /\ IsFiniteSet(Counting(c)) /\ Counting(c)' \subseteq Counting(c)
  BY CountingSlots DEF Limited, HasQuota
<1>2. Fits(c, mem[c], Counting(c)) /\ (Readable(c) => Fits(c, Held(c), Counting(c)))
  BY <1>1 DEF Bounded
<1>3. mem[c] \in Nat /\ Held(c) \in Nat
  BY HeldType
<1>4. mem'[c] \in Nat /\ Held(c)' \in Nat
  BY NextHeldType
<1>5. Fits(c, mem'[c], Counting(c)')
  <2>1. CASE mem'[c] = 0 \/ mem'[c] = mem[c]
    BY <1>1, <1>2, <1>3, <1>4, <2>1, FitsSmaller
  <2>2. CASE Readable(c) /\ mem'[c] <= Held(c)
    BY <1>1, <1>2, <1>3, <1>4, <2>2, FitsSmaller
  <2> QED
    BY <2>1, <2>2
<1>6. ASSUME Readable(c)' PROVE Fits(c, Held(c)', Counting(c)')
  BY <1>1, <1>2, <1>3, <1>4, <1>6, FitsSmaller
<1> QED
  BY <1>5, <1>6

----------------------------------------------------------------------------
(* The steps.                                                              *)

LEMMA CalendarCell ==
  ASSUME NEW c \in Cells, c[2] \in Fixed, NEW s \in Times, NEW t \in Times, s <= t
  PROVE  /\ FixedStart(c[2], s) \in Int /\ FixedStart(c[2], t) \in Int /\ c[3] \in Int
         /\ FixedStart(c[2], s) <= FixedStart(c[2], t)
BY FixedMonotone, CellParts, StartsInt

LEMMA QInit == Init /\ TypeOK => QInv
<1> SUFFICES ASSUME Init, TypeOK PROVE QInv
  OBVIOUS
<1>0. /\ mem = Zero /\ dirty = Zero /\ taken = Zero /\ ~loading /\ ~open
      /\ windows = Unopened /\ diskWin = Unopened
      /\ \A r \in Requests : stage[r] = "new"
  BY DEF Init
<1>1. SlotsKept
  <2> SUFFICES ASSUME NEW k \in Keys
               PROVE  IsFiniteSet(InFlight(k)) /\ Cardinality(InFlight(k)) <= MaxConcurrent
    BY DEF SlotsKept
  <2>1. InFlight(k) = {}
    BY <1>0 DEF InFlight
  <2>2. IsFiniteSet({}) /\ Cardinality({}) = 0
    BY FS_EmptySet
  <2> QED
    BY <2>1, <2>2, BoundAssumption
<1>2. ASSUME NEW c \in Cells
      PROVE  /\ c[2] \notin Independent => disk[c] = 0
             /\ c[2] \in Independent
                  => windows[c[1]][c[2]] # c[3] /\ diskWin[c[1]][c[2]] # c[3]
  <2>1. c[1] \in Keys /\ c[3] \in Int /\ Idle < c[3]
    BY CellParts, StartsInt
  <2>2. PICK old \in OldBuckets : disk = [q \in Cells |-> IF q \in old THEN Cap ELSE 0]
    BY DEF Init
  <2>3. c \in old => c[2] \in Independent
    BY OldBucketAssumption
  <2> QED
    BY <1>0, <2>1, <2>2, <2>3 DEF Unopened
<1>3. AnchoredCounts /\ CalendarRead
  BY <1>0, <1>2 DEF AnchoredCounts, CalendarRead
<1>4. CalendarAhead /\ CalendarCounts
  BY <1>0, <1>2, WindowAssumption, ZeroType DEF CalendarAhead, CalendarCounts
<1>5. Bounded
  <2> SUFFICES ASSUME NEW c \in Cells, Limited(c)
               PROVE  /\ Fits(c, mem[c], Counting(c))
                      /\ Readable(c) => Fits(c, Held(c), Counting(c))
    BY DEF Bounded
  <2>1. /\ HasQuota(c) /\ IsFiniteSet(Counting(c))
        /\ Cardinality(Counting(c)) <= MaxConcurrent
    BY <1>1, CountingSlots DEF Limited, HasQuota
  <2>2. 0 \in Nat /\ 0 <= Base(c)
    BY <2>1, CeilingBase
  <2>3. Fits(c, 0, Counting(c))
    BY <2>1, <2>2, FitsFresh
  <2>4. mem[c] = 0
    BY <1>0, ZeroType
  <2>5. Readable(c) => Held(c) = 0
    <3>1. Readable(c) => disk[c] = 0
      BY <1>2, WindowAssumption DEF Readable
    <3> QED
      BY <1>0, <3>1, ZeroType, BoundAssumption, PlusZero DEF Held, Amounts
  <2> QED
    BY <2>3, <2>4, <2>5
<1> QED
  BY <1>1, <1>3, <1>4, <1>5 DEF QInv

LEMMA QQuiet ==
  ASSUME TypeOK, TypeOK', QInv, SlotsKept',
         UNCHANGED <<clock, open, mem, windows, dirty, taken, loading, snapshot,
                     disk, diskWin, blind, bound>>,
         \A r \in Requests :
           stage'[r] = "admitted" => stage[r] = "admitted" /\ at'[r] = at[r]
  PROVE  QInv'
<1> USE DEF QInv
<1>1. /\ \A c \in Cells : Counting(c)' \subseteq Counting(c)
      /\ \A c \in Cells : Held(c)' = Held(c) /\ (Readable(c)' <=> Readable(c))
  BY CountingFewer DEF Held, Readable
<1>2. (AnchoredCounts /\ CalendarAhead /\ CalendarRead /\ CalendarCounts)'
  BY <1>1 DEF AnchoredCounts, CalendarAhead, CalendarRead, CalendarCounts
<1>3. \A c \in Cells : Readable(c)' => Readable(c) /\ Held(c)' <= Held(c)
  BY <1>1, HeldType
<1>4. Bounded'
  BY <1>1, <1>3, BoundedKept
<1> QED
  BY <1>2, <1>4

LEMMA QTick ==
  ASSUME TypeOK, TypeOK', QInv, Tick
  PROVE  QInv'
<1> USE DEF QInv, Tick, flushVars, loadVars, diskVars, requestVars
<1>0. /\ clock \in Times /\ clock' \in Times /\ clock <= clock'
      /\ UNCHANGED <<open, mem, windows, dirty, taken, loading, snapshot, disk, diskWin,
                     blind, bound, stage, at>>
  BY StartsInt DEF TypeOK
<1>1. ASSUME NEW c \in Cells, c[2] \in Fixed
      PROVE  /\ FixedStart(c[2], clock) \in Int /\ FixedStart(c[2], clock') \in Int
             /\ c[3] \in Int /\ FixedStart(c[2], clock) <= FixedStart(c[2], clock')
  BY <1>0, <1>1, CalendarCell
<1>2. ASSUME NEW c \in Cells
      PROVE  Held(c)' = Held(c) /\ Counting(c)' = Counting(c) /\ (Readable(c)' => Readable(c))
  BY <1>0, <1>1 DEF Held, Readable, Counting, Touched
<1>3. SlotsKept'
  BY <1>0, SlotsFewer
<1>4. AnchoredCounts'
  BY <1>0, <1>2 DEF AnchoredCounts
<1>5. CalendarAhead' /\ CalendarCounts'
  BY <1>0, <1>1, <1>2 DEF CalendarAhead, CalendarCounts
<1>6. CalendarRead'
  <2> SUFFICES ASSUME loading PROVE snapshot.at <= clock'
    BY <1>0 DEF CalendarRead
  <2>1. snapshot.at \in Times /\ snapshot.at <= clock
    BY DEF CalendarRead, TypeOK
  <2>2. snapshot.at \in Int /\ clock \in Int /\ clock' = clock + 1
    BY <1>0, <2>1, StartsInt
  <2> QED
    BY <2>1, <2>2
<1>7. Bounded'
  <2>1. \A c \in Cells : Readable(c)' => Readable(c) /\ Held(c)' <= Held(c)
    BY <1>2, HeldType
  <2> QED
    BY <1>0, <1>2, <2>1, BoundedKept
<1> QED
  BY <1>3, <1>4, <1>5, <1>6, <1>7

(* A slot is taken only while one is free.                                 *)
LEMMA QArrive ==
  ASSUME TypeOK, TypeOK', QInv, NEW r \in Requests, Arrive(r)
  PROVE  QInv'
<1> USE DEF Arrive, flushVars, loadVars, diskVars
<1>1. SlotsKept'
  <2> SUFFICES ASSUME NEW k \in Keys
               PROVE  /\ IsFiniteSet(InFlight(k)')
                      /\ Cardinality(InFlight(k)') <= MaxConcurrent
    BY DEF SlotsKept
  <2>1. IsFiniteSet(InFlight(k)) /\ Cardinality(InFlight(k)) <= MaxConcurrent
    BY DEF QInv, SlotsKept
  <2>2. CASE k = KeyOf[r]
    <3>1. InFlight(k)' = InFlight(k) \cup {r} /\ r \notin InFlight(k)
      BY <2>2 DEF InFlight, TypeOK
    <3>2. /\ IsFiniteSet(InFlight(k)')
          /\ Cardinality(InFlight(k)') = Cardinality(InFlight(k)) + 1
      BY <2>1, <3>1, FS_AddElement
    <3>3. Cardinality(InFlight(k)) \in Nat /\ Cardinality(InFlight(k)) < MaxConcurrent
      BY <2>1, <2>2, FS_CardinalityType
    <3> QED
      BY <3>2, <3>3, BoundAssumption
  <2>3. CASE k # KeyOf[r]
    <3>1. InFlight(k)' = InFlight(k)
      BY <2>3 DEF InFlight, TypeOK
    <3> QED
      BY <2>1, <3>1
  <2> QED
    BY <2>2, <2>3
<1>2. \A q \in Requests : stage'[q] = "admitted" => stage[q] = "admitted" /\ at'[q] = at[q]
  BY DEF TypeOK
<1> QED
  BY <1>1, <1>2, QQuiet

LEMMA QStart ==
  ASSUME TypeOK, TypeOK', IInv, QInv, NEW connected \in BOOLEAN, Start(connected)
  PROVE  QInv'
<1> USE DEF QInv, diskVars, flushVars, loadVars, requestVars
<1>0. /\ mem = Zero /\ dirty = Zero /\ taken = Zero /\ ~loading /\ open' = connected
      /\ mem' = IF connected THEN Installed(Read, Zero, Zero) ELSE Zero
      /\ windows' = IF connected THEN diskWin ELSE Unopened
      /\ UNCHANGED <<clock, dirty, taken, loading, snapshot, disk, diskWin, stage, at, bound,
                     blind>>
  BY DEF Start, IInv, DownParts, FlushParts
<1>1. clock \in Times /\ \A a \in Amounts : a \in Nat
  BY BoundAssumption DEF TypeOK, Amounts
<1>2. ASSUME NEW c \in Cells
      PROVE  /\ mem'[c] = IF connected /\ Loaded(Read, c) THEN disk[c] ELSE 0
             /\ Held(c) = disk[c] /\ Held(c)' = disk[c]
             /\ Counting(c)' = Counting(c) /\ (Readable(c)' <=> Readable(c))
             /\ Loaded(Read, c) => Readable(c)
  <2>1. disk[c] \in Amounts
    BY DEF TypeOK
  <2>2. mem'[c] = IF connected /\ Loaded(Read, c) THEN disk[c] ELSE 0
    BY <1>0, <2>1, PlusZero, ZeroType DEF Installed, Read
  <2>3. Held(c) = disk[c] /\ Held(c)' = disk[c]
    BY <1>0, <2>1, PlusZero, ZeroType DEF Held
  <2>4. Counting(c)' = Counting(c) /\ (Readable(c)' <=> Readable(c))
    BY <1>0 DEF Counting, Touched, Readable
  <2>5. Loaded(Read, c) => Readable(c)
    <3>1. c[2] \in Fixed => FixedStart(c[2], clock) \in Int
      BY <1>1, StartsInt, CalendarCell
    <3> QED
      BY <3>1 DEF Loaded, Read, Readable
  <2> QED
    BY <2>2, <2>3, <2>4, <2>5
<1>3. SlotsKept'
  BY <1>0, SlotsFewer
<1>4. AnchoredCounts'
  <2> SUFFICES ASSUME NEW c \in Cells, c[2] \in Independent, windows'[c[1]][c[2]] = c[3]
               PROVE  mem'[c] = disk[c]
    BY <1>2 DEF AnchoredCounts
  <2>1. c[1] \in Keys /\ c[3] \in Int /\ Idle < c[3]
    BY CellParts, StartsInt
  <2>2. connected /\ diskWin[c[1]][c[2]] = c[3]
    BY <1>0, <2>1 DEF Unopened
  <2> QED
    BY <1>2, <2>2 DEF Loaded, Read
<1>5. CalendarAhead' /\ CalendarRead'
  BY <1>0, <1>2 DEF CalendarAhead, CalendarRead
<1>6. CalendarCounts'
  <2> SUFFICES ASSUME NEW c \in Cells, c[2] \in Fixed, FixedStart(c[2], clock) <= c[3]
               PROVE  /\ connected => mem'[c] = disk[c]
                      /\ ~connected => mem'[c] = dirty[c]
    BY <1>0, <1>2 DEF CalendarCounts
  <2>1. FixedStart(c[2], clock) \in Int /\ c[3] \in Int
    BY <1>1, StartsInt, CalendarCell
  <2>2. CASE c[3] = FixedStart(c[2], clock)
    BY <1>0, <1>2, <2>2, ZeroType DEF Loaded, Read
  <2>3. CASE FixedStart(c[2], clock) < c[3]
    BY <1>0, <1>2, <2>3, ZeroType DEF CalendarAhead
  <2> QED
    BY <2>1, <2>2, <2>3
<1>7. Bounded'
  <2>1. \A c \in Cells : \/ mem'[c] = 0 \/ mem'[c] = mem[c]
                         \/ Readable(c) /\ mem'[c] <= Held(c)
    BY <1>2, HeldType
  <2>2. \A c \in Cells : Readable(c)' => Readable(c) /\ Held(c)' <= Held(c)
    BY <1>2, HeldType
  <2> QED
    BY <1>0, <1>2, <2>1, <2>2, BoundedKept
<1> QED
  BY <1>3, <1>4, <1>5, <1>6, <1>7

(* A total taken over from the control database may be over its quota;     *)
(* that is what Base allows.                                               *)
LEMMA QBootstrap ==
  ASSUME TypeOK, TypeOK', IInv, QInv, Bootstrap
  PROVE  QInv'
<1> USE DEF QInv, diskVars, loadVars, requestVars
<1> DEFINE imported == {Life(k) : k \in {k \in Keys : mem[Life(k)] = 0 /\ Legacy[k] # 0}}
<1>0. /\ blind' = (blind \/ (imported # {} /\ ~open))
      /\ UNCHANGED <<clock, open, taken, windows, loading, snapshot, disk, diskWin, stage, at,
                     bound>>
  BY DEF Bootstrap
<1>1. ASSUME NEW c \in Cells
      PROVE  /\ mem'[c] = IF c \in imported THEN Legacy[c[1]] ELSE mem[c]
             /\ dirty'[c] = IF c \in imported THEN Legacy[c[1]] ELSE dirty[c]
             /\ Counting(c)' = Counting(c) /\ (Readable(c)' <=> Readable(c))
  BY <1>0 DEF Bootstrap, Counting, Touched, Readable
<1>2. \A c \in imported : c[2] = Lifetime /\ c[1] \in Keys /\ mem[c] = 0
  <2> SUFFICES ASSUME NEW k \in Keys, mem[Life(k)] = 0
               PROVE  Life(k)[2] = Lifetime /\ Life(k)[1] \in Keys
    OBVIOUS
  <2> QED
    BY DEF Life
<1> HIDE DEF imported
<1>3. ASSUME NEW c \in Cells, c \notin imported
      PROVE  mem'[c] = mem[c] /\ dirty'[c] = dirty[c] /\ Held(c)' = Held(c)
  BY <1>0, <1>1, <1>3 DEF Held
<1>4. SlotsKept'
  BY <1>0, SlotsFewer
<1>5. AnchoredCounts'
  BY <1>0, <1>2, <1>3, WindowAssumption DEF AnchoredCounts
<1>6. CalendarAhead' /\ CalendarRead'
  BY <1>0, <1>2, <1>3, WindowAssumption DEF CalendarAhead, CalendarRead
<1>7. CalendarCounts'
  BY <1>0, <1>2, <1>3, WindowAssumption DEF CalendarCounts
<1>8. Bounded'
  <2> SUFFICES ASSUME NEW c \in Cells, Limited(c)'
               PROVE  /\ Fits(c, mem'[c], Counting(c)')
                      /\ Readable(c)' => Fits(c, Held(c)', Counting(c)')
    BY DEF Bounded, Fits
  <2>1. HasQuota(c) /\ Limited(c)
    BY <1>0 DEF Limited, HasQuota
  <2>2. CASE c \notin imported
    BY <1>1, <1>3, <2>1, <2>2 DEF Bounded
  <2>3. CASE c \in imported
    <3>1. open
      BY <1>0, <1>2, <2>3, WindowAssumption DEF Limited
    <3>2. Held(c) = 0
      BY <1>2, <2>3, <3>1 DEF IInv, KnownCounts, Known, Held
    <3>3. /\ disk[c] \in Amounts /\ taken[c] \in Amounts /\ dirty[c] \in Amounts
          /\ Legacy[c[1]] \in Amounts /\ Legacy[c[1]] \in Nat
      BY <1>2, <2>3, HeldType, KeyAssumption, BoundAssumption DEF Amounts
    <3>4. Plus(disk[c], taken[c]) = 0
      <4> DEFINE s == Plus(disk[c], taken[c])
      <4>1. s \in Amounts /\ s \in Nat /\ Plus(s, dirty[c]) = 0
        BY <3>2, <3>3, PlusBounds DEF Held
      <4> HIDE DEF s
      <4>2. s <= Plus(s, dirty[c])
        BY <3>3, <4>1, PlusBounds
      <4> QED
        BY <4>1, <4>2 DEF s
    <3>5. mem'[c] = Legacy[c[1]] /\ Held(c)' = Legacy[c[1]]
      BY <1>0, <1>1, <2>3, <3>3, <3>4, PlusZero DEF Held
    <3>6. Legacy[c[1]] <= Base(c)
      BY <1>2, <2>1, <2>3, CeilingBase
    <3> QED
      BY <1>1, <2>1, <3>3, <3>5, <3>6, CountingSlots, FitsFresh
  <2> QED
    BY <2>2, <2>3
<1> QED
  BY <1>4, <1>5, <1>6, <1>7, <1>8

LEMMA QConnectRead ==
  ASSUME TypeOK, TypeOK', QInv, ConnectRead
  PROVE  QInv'
<1> USE DEF QInv, diskVars, flushVars, requestVars
<1>0. /\ ~loading /\ loading' /\ snapshot'.at = clock /\ clock \in Times
      /\ UNCHANGED <<clock, open, mem, windows, dirty, taken, disk, diskWin, stage, at, bound,
                     blind>>
  BY DEF ConnectRead, Read, TypeOK
<1>1. ASSUME NEW c \in Cells
      PROVE  Held(c)' = Held(c) /\ Counting(c)' = Counting(c) /\ (Readable(c)' => Readable(c))
  BY <1>0 DEF Held, Counting, Touched, Readable
<1>2. SlotsKept'
  BY <1>0, SlotsFewer
<1>3. (AnchoredCounts /\ CalendarAhead /\ CalendarCounts)'
  BY <1>0, <1>1 DEF AnchoredCounts, CalendarAhead, CalendarCounts
<1>4. CalendarRead'
  BY <1>0, StartsInt DEF CalendarRead, CalendarAhead
<1>5. Bounded'
  <2>1. \A c \in Cells : Readable(c)' => Readable(c) /\ Held(c)' <= Held(c)
    BY <1>1, HeldType
  <2> QED
    BY <1>0, <1>1, <2>1, BoundedKept
<1> QED
  BY <1>2, <1>3, <1>4, <1>5

(* The clock may have gone on since connect read the database, and records *)
(* may have come in.                                                       *)
LEMMA QConnectInstall ==
  ASSUME TypeOK, TypeOK', IInv, IInv', QInv, ConnectInstall
  PROVE  QInv'
<1> USE DEF QInv, diskVars, flushVars, requestVars
<1>0. /\ loading /\ ~open /\ open' /\ ~loading' /\ taken = Zero
      /\ snapshot.cells = disk /\ snapshot.windows = diskWin /\ windows' = diskWin
      /\ UNCHANGED <<clock, dirty, taken, disk, diskWin, stage, at, bound, blind>>
  BY DEF ConnectInstall, IInv, LoadParts, FlushParts
<1>1. snapshot.at \in Times /\ clock \in Times /\ snapshot.at <= clock
  BY <1>0 DEF TypeOK, CalendarRead
<1>2. ASSUME NEW c \in Cells
      PROVE  /\ Held(c) = Plus(disk[c], dirty[c]) /\ Held(c)' = Held(c)
             /\ mem'[c] = IF Loaded(snapshot, c) /\ disk[c] # 0 THEN Held(c) ELSE mem[c]
             /\ Counting(c)' = Counting(c) /\ (Readable(c)' => Readable(c))
  <2>1. Held(c) = Plus(disk[c], dirty[c]) /\ Held(c)' = Held(c)
    BY <1>0, HeldType, PlusZero, ZeroType DEF Held
  <2>2. mem'[c] = IF Loaded(snapshot, c) /\ disk[c] # 0 THEN Held(c) ELSE mem[c]
    BY <1>0, <2>1 DEF ConnectInstall, Installed
  <2>3. Counting(c)' = Counting(c) /\ (Readable(c)' => Readable(c))
    BY <1>0 DEF Counting, Touched, Readable
  <2> QED
    BY <2>1, <2>2, <2>3
<1>3. ASSUME NEW c \in Cells, c[2] \in Fixed
      PROVE  /\ FixedStart(c[2], snapshot.at) \in Int /\ FixedStart(c[2], clock) \in Int
             /\ c[3] \in Int /\ FixedStart(c[2], snapshot.at) <= FixedStart(c[2], clock)
  BY <1>1, <1>3, CalendarCell
<1>4. \A c \in Cells : Loaded(snapshot, c) => Readable(c)
  BY <1>0, <1>3 DEF Loaded, Readable
<1>5. SlotsKept'
  BY <1>0, SlotsFewer
<1>6. AnchoredCounts'
  BY <1>0 DEF IInv, KnownCounts, Known, AnchoredCounts, Held
<1>7. CalendarAhead' /\ CalendarRead'
  BY <1>0, <1>2 DEF CalendarAhead, CalendarRead
<1>8. CalendarCounts'
  <2> SUFFICES ASSUME NEW c \in Cells, c[2] \in Fixed, FixedStart(c[2], clock) <= c[3]
               PROVE  mem'[c] = Held(c)
    BY <1>0, <1>2 DEF CalendarCounts
  <2>1. CASE disk[c] # 0
    <3>1. c[3] = FixedStart(c[2], snapshot.at)
      BY <1>0, <1>3, <2>1 DEF CalendarRead
    <3> QED
      BY <1>2, <2>1, <3>1 DEF Loaded
  <2>2. CASE disk[c] = 0
    <3>1. mem'[c] = dirty[c]
      BY <1>0, <1>2, <2>2 DEF CalendarCounts
    <3>2. Plus(0, dirty[c]) = dirty[c]
      BY HeldType, PlusZero
    <3> QED
      BY <1>2, <2>2, <3>1, <3>2
  <2> QED
    BY <2>1, <2>2
<1>9. Bounded'
  <2>1. \A c \in Cells : \/ mem'[c] = 0 \/ mem'[c] = mem[c]
                         \/ Readable(c) /\ mem'[c] <= Held(c)
    BY <1>2, <1>4, HeldType
  <2>2. \A c \in Cells : Readable(c)' => Readable(c) /\ Held(c)' <= Held(c)
    BY <1>2, HeldType
  <2> QED
    BY <1>0, <1>2, <2>1, <2>2, BoundedKept
<1> QED
  BY <1>5, <1>6, <1>7, <1>8, <1>9

(* A flush moves deltas between the three places a cell is kept in.        *)
LEMMA FlushKeepsHeld ==
  ASSUME TypeOK, IInv, TakeDirty \/ FlushCommit \/ FlushFail, NEW c \in Cells
  PROVE  /\ Held(c)' = Held(c)
         /\ disk[c] = 0 /\ taken[c] = 0 /\ dirty[c] = 0
              => disk'[c] = 0 /\ taken'[c] = 0 /\ dirty'[c] = 0
<1>1. /\ Zero[c] = 0 /\ 0 \in Amounts
      /\ disk[c] \in Amounts /\ taken[c] \in Amounts /\ dirty[c] \in Amounts
  BY HeldType, ZeroType, BoundAssumption DEF Amounts
<1>2. CASE TakeDirty
  <2>1. taken = Zero /\ taken' = dirty /\ dirty' = Zero /\ disk' = disk
    BY <1>2 DEF TakeDirty, MoveDirty, diskVars, IInv, FlushParts, NothingStranded
  <2> QED
    BY <1>1, <2>1, PlusZero, PlusType DEF Held
<1>3. CASE FlushCommit
  <2>1. disk'[c] = Plus(disk[c], taken[c]) /\ taken' = Zero /\ dirty' = dirty
    BY <1>3 DEF FlushCommit, Sum
  <2> QED
    BY <1>1, <2>1, PlusZero, PlusType DEF Held
<1>4. CASE FlushFail
  <2>1. disk' = disk /\ taken' = Zero /\ dirty'[c] = Plus(dirty[c], taken[c])
    BY <1>4 DEF FlushFail, RestoreDirty, Sum, diskVars
  <2> QED
    BY <1>1, <2>1, PlusZero, PlusLaws DEF Held
<1> QED
  BY <1>2, <1>3, <1>4

LEMMA QFlush ==
  ASSUME TypeOK, TypeOK', IInv, QInv, TakeDirty \/ FlushCommit \/ FlushFail
  PROVE  QInv'
<1> USE DEF QInv, diskVars, loadVars, requestVars
<1>0. /\ open /\ ~loading
      /\ UNCHANGED <<clock, open, mem, windows, loading, snapshot, diskWin, stage, at, bound,
                     blind>>
  BY DEF TakeDirty, FlushCommit, FlushFail, IInv, FlushParts, LoadParts
<1>1. ASSUME NEW c \in Cells
      PROVE  /\ Held(c)' = Held(c) /\ Counting(c)' = Counting(c)
             /\ Readable(c)' => Readable(c)
             /\ disk[c] = 0 /\ taken[c] = 0 /\ dirty[c] = 0
                  => disk'[c] = 0 /\ taken'[c] = 0 /\ dirty'[c] = 0
  BY <1>0, FlushKeepsHeld DEF Counting, Touched, Readable
<1>2. SlotsKept'
  BY <1>0, SlotsFewer
<1>3. (AnchoredCounts /\ CalendarAhead /\ CalendarRead /\ CalendarCounts)'
  BY <1>0, <1>1 DEF AnchoredCounts, CalendarAhead, CalendarRead, CalendarCounts
<1>4. Bounded'
  <2>1. \A c \in Cells : Readable(c)' => Readable(c) /\ Held(c)' <= Held(c)
    BY <1>1, HeldType
  <2> QED
    BY <1>0, <1>1, <2>1, BoundedKept
<1> QED
  BY <1>2, <1>3, <1>4

LEMMA QCloseDatabase ==
  ASSUME TypeOK, TypeOK', IInv, QInv, CloseDatabase
  PROVE  QInv'
<1> USE DEF QInv, diskVars, flushVars, loadVars, requestVars
<1>0. /\ taken = Zero /\ ~open'
      /\ UNCHANGED <<clock, mem, windows, dirty, taken, loading, snapshot, disk, diskWin,
                     stage, at, bound, blind>>
  BY DEF CloseDatabase, IInv, FlushParts
<1>1. ASSUME NEW c \in Cells
      PROVE  /\ Held(c)' = Held(c) /\ Counting(c)' = Counting(c)
             /\ Readable(c)' => Readable(c)
             /\ disk[c] = 0 => Held(c) = dirty[c]
  <2>1. disk[c] = 0 => Held(c) = dirty[c]
    BY <1>0, HeldType, PlusZero, ZeroType DEF Held
  <2> QED
    BY <1>0, <2>1 DEF Held, Counting, Touched, Readable
<1>2. SlotsKept'
  BY <1>0, SlotsFewer
<1>3. (AnchoredCounts /\ CalendarAhead /\ CalendarRead)'
  BY <1>0, <1>1 DEF AnchoredCounts, CalendarAhead, CalendarRead
<1>4. CalendarCounts'
  BY <1>0, <1>1 DEF CalendarCounts
<1>5. Bounded'
  <2>1. \A c \in Cells : Readable(c)' => Readable(c) /\ Held(c)' <= Held(c)
    BY <1>1, HeldType
  <2> QED
    BY <1>0, <1>1, <2>1, BoundedKept
<1> QED
  BY <1>2, <1>3, <1>4, <1>5

(* What a lost process leaves is never more than what it had.              *)
LEMMA QExit ==
  ASSUME TypeOK, TypeOK', IInv, QInv, Exit
  PROVE  QInv'
<1> USE DEF QInv, diskVars
<1>0. /\ mem' = Zero /\ dirty' = Zero /\ taken' = Zero /\ windows' = Unopened
      /\ ~open' /\ ~loading' /\ UNCHANGED <<clock, disk, diskWin, at, bound, blind>>
      /\ \A r \in Requests : stage'[r] \notin {"arrived", "admitted"}
  BY DEF Exit
<1>1. ASSUME NEW c \in Cells
      PROVE  /\ mem'[c] = 0 /\ dirty'[c] = 0 /\ taken'[c] = 0
             /\ Counting(c)' = {} /\ (Readable(c)' => Readable(c))
             /\ Held(c)' = disk[c] /\ disk[c] <= Held(c)
  <2>1. mem'[c] = 0 /\ dirty'[c] = 0 /\ taken'[c] = 0
    BY <1>0, ZeroType
  <2>2. Held(c)' = disk[c] /\ disk[c] <= Held(c)
    BY <1>0, <2>1, HeldType, PlusZero DEF Held
  <2>3. Counting(c)' = {} /\ (Readable(c)' => Readable(c))
    BY <1>0 DEF Counting, Readable
  <2> QED
    BY <2>1, <2>2, <2>3
<1>2. SlotsKept'
  BY <1>0, SlotsFewer
<1>3. AnchoredCounts'
  <2> SUFFICES ASSUME NEW c \in Cells, c[2] \in Independent
               PROVE  windows'[c[1]][c[2]] # c[3]
    BY DEF AnchoredCounts
  <2>1. c[1] \in Keys /\ c[3] \in Int /\ Idle < c[3]
    BY CellParts, StartsInt
  <2> QED
    BY <1>0, <2>1 DEF Unopened
<1>4. (CalendarAhead /\ CalendarRead /\ CalendarCounts)'
  BY <1>0, <1>1 DEF CalendarAhead, CalendarRead, CalendarCounts
<1>5. Bounded'
  <2>1. \A c \in Cells : Readable(c)' => Readable(c) /\ Held(c)' <= Held(c)
    BY <1>1
  <2>2. \A c \in Cells : Counting(c)' \subseteq Counting(c)
    BY <1>1
  <2> QED
    BY <1>0, <1>1, <2>1, <2>2, BoundedKept
<1> QED
  BY <1>2, <1>3, <1>4, <1>5

LEMMA UsedParts ==
  ASSUME NEW k, NEW t
  PROVE  /\ Used(k, Lifetime, t) = mem[Life(k)]
         /\ \A w \in Fixed : Used(k, w, t) = mem[<<k, w, FixedStart(w, t)>>]
         /\ \A w \in Independent :
              Active(k, w, t) => Used(k, w, t) = mem[<<k, w, windows[k][w]>>]
<1>1. Used(k, Lifetime, t) = mem[Life(k)]
  BY WindowAssumption DEF Used
<1>2. ASSUME NEW w \in Fixed PROVE Used(k, w, t) = mem[<<k, w, FixedStart(w, t)>>]
  BY WindowAssumption DEF Used
<1>3. ASSUME NEW w \in Independent, Active(k, w, t)
      PROVE  Used(k, w, t) = mem[<<k, w, windows[k][w]>>]
  BY <1>3, WindowAssumption DEF Used
<1> QED
  BY <1>1, <1>2, <1>3

(* The cells of an admitted request were below their quotas when it was    *)
(* checked: the check reads the very cells the request will count in.      *)
LEMMA AdmittedBelow ==
  ASSUME TypeOK, IInv, NEW r \in Requests, Admit(r),
         NEW c \in Cells, HasQuota(c), c \in Touched(r)'
  PROVE  mem[c] < Quota[c[1]][c[2]]
<1> DEFINE k == KeyOf[r]
           t == at[r]
<1>1. /\ k \in Keys /\ t \in Times /\ at'[r] = at[r] /\ c[1] = k
      /\ mem[c] \in Nat /\ Quota[c[1]][c[2]] \in Nat /\ Quota[c[1]][c[2]] > 0
  <2>1. k \in Keys /\ t \in Times /\ at'[r] = at[r]
    BY KeyAssumption DEF Admit, TypeOK
  <2>2. c[1] = k
    BY DEF Touched, Life
  <2>3. Quota[c[1]][c[2]] > 0
    BY DEF HasQuota
  <2> QED
    BY <2>1, <2>2, <2>3, HeldType, CeilingBase
<1>2. ASSUME NEW w \in Limits[k] \cup {Lifetime}, w = c[2], Used(k, w, t) = mem[c]
      PROVE  mem[c] < Quota[c[1]][c[2]]
  <2>1. ~(Quota[k][w] > 0 /\ Used(k, w, t) >= Quota[k][w])
    BY DEF Admit, Exhausted
  <2> QED
    BY <1>1, <1>2, <2>1
<1>3. CASE c = Life(k)
  <2>1. c[2] = Lifetime /\ Used(k, c[2], t) = mem[c]
    BY <1>3, UsedParts DEF Life
  <2> QED
    BY <1>2, <2>1
<1>4. CASE \E w \in Fixed : c = <<k, w, FixedStart(w, t)>>
  <2>1. PICK w \in Fixed : c = <<k, w, FixedStart(w, t)>>
    BY <1>4
  <2>2. w = c[2] /\ Used(k, w, t) = mem[c]
    BY <2>1, UsedParts
  <2> QED
    BY <1>1, <1>2, <2>2 DEF HasQuota
<1>5. CASE \E w \in Independent : c = <<k, w, bound'[r][w]>>
  <2>1. PICK w \in Independent : c = <<k, w, bound'[r][w]>>
    BY <1>5
  <2>2. w = c[2] /\ w \in Limits[k]
    BY <1>1, <2>1, WindowAssumption DEF HasQuota
  <2>3. bound'[r][w] = IF w \in Opened(k, t) THEN t ELSE windows[k][w]
    BY <2>2 DEF Admit, TypeOK
  <2>4. CASE w \in Opened(k, t)
    <3>1. windows[c[1]][c[2]] < c[3]
      BY <1>1, <2>1, <2>3, <2>4, OpenedLater
    <3> QED
      BY <1>1, <2>2, <3>1 DEF IInv, FutureEmpty
  <2>5. CASE w \notin Opened(k, t)
    <3>1. Active(k, w, t) /\ c = <<k, w, windows[k][w]>>
      BY <2>1, <2>2, <2>3, <2>5 DEF Opened
    <3>2. Used(k, w, t) = mem[c]
      BY <3>1, UsedParts
    <3> QED
      BY <1>2, <2>2, <3>2
  <2> QED
    BY <2>4, <2>5
<1>6. \/ c = Life(k) \/ \E w \in Fixed : c = <<k, w, FixedStart(w, t)>>
      \/ \E w \in Independent : c = <<k, w, bound'[r][w]>>
  BY <1>1 DEF Touched
<1> QED
  BY <1>3, <1>4, <1>5, <1>6

(* A cell the request does not count in is left as it was.                 *)
LEMMA AdmitLeaves ==
  ASSUME TypeOK, NEW r \in Requests, Admit(r), NEW c \in Cells, c \notin Touched(r)'
  PROVE  /\ Counting(c)' = Counting(c) /\ Held(c)' = Held(c)
         /\ Readable(c)' => Readable(c)
<1> DEFINE k == KeyOf[r]
           t == at[r]
           new == Opened(k, t)
<1>1. /\ UNCHANGED <<at, clock, taken, dirty, loading, snapshot>> /\ t \in Times
      /\ stage[r] = "arrived"
      /\ \A q \in Requests : q # r => stage'[q] = stage[q] /\ bound'[q] = bound[q]
  BY DEF Admit, TypeOK, flushVars, loadVars
<1>2. Counting(c)' = Counting(c)
  <2>1. \A q \in Requests : q # r => (c \in Touched(q)' <=> c \in Touched(q))
    BY <1>1 DEF Touched
  <2> QED
    BY <1>1, <2>1 DEF Counting
<1>3. ~(c[1] = k /\ c[2] \in new /\ c[3] = t)
  <2> SUFFICES ASSUME c[1] = k, c[2] \in new, c[3] = t PROVE FALSE
    OBVIOUS
  <2>1. c[2] \in Independent /\ c[2] \in Limits[k]
    BY DEF Opened
  <2>2. bound'[r][c[2]] = t /\ t # Idle
    BY <1>1, <2>1, StartsInt DEF Admit, TypeOK
  <2>3. c = <<k, c[2], bound'[r][c[2]]>>
    BY <2>2, CellParts
  <2> QED
    BY <2>1, <2>2, <2>3 DEF Touched
<1>4. disk'[c] = disk[c]
  <2>1. c \notin {k} \X new \X {t}
    BY <1>3
  <2> QED
    BY <2>1 DEF Admit, PersistWindows
<1>5. c[2] \in Independent /\ diskWin'[c[1]][c[2]] = c[3] => diskWin[c[1]][c[2]] = c[3]
  <2>1. c[1] \in Keys
    BY CellParts
  <2> QED
    BY <1>3, <2>1 DEF Admit, PersistWindows, TypeOK
<1> QED
  BY <1>1, <1>2, <1>4, <1>5 DEF Held, Readable

LEMMA QAdmit ==
  ASSUME TypeOK, TypeOK', IInv, QInv, NEW r \in Requests, Admit(r)
  PROVE  QInv'
<1> USE DEF QInv
<1> DEFINE k == KeyOf[r]
           t == at[r]
           new == Opened(k, t)
<1>0. /\ UNCHANGED <<clock, open, mem, taken, dirty, loading, snapshot, at>>
      /\ blind' = (blind \/ ~open) /\ k \in Keys /\ t \in Times
      /\ stage[r] = "arrived" /\ \A q \in Requests : q # r => stage'[q] = stage[q]
  BY KeyAssumption DEF Admit, TypeOK, flushVars, loadVars
<1>1. ASSUME NEW c \in Cells
      PROVE  /\ disk'[c] = IF c[1] = k /\ c[2] \in new /\ c[3] = t THEN 0 ELSE disk[c]
             /\ c[2] \in Independent =>
                  windows'[c[1]][c[2]] = IF c[1] = k /\ c[2] \in new THEN t
                                         ELSE windows[c[1]][c[2]]
  <2>1. c[1] \in Keys /\ (c \in {k} \X new \X {t} <=> c[1] = k /\ c[2] \in new /\ c[3] = t)
    BY CellParts
  <2>2. disk'[c] = IF c \in {k} \X new \X {t} THEN 0 ELSE disk[c]
    BY DEF Admit, PersistWindows
  <2>3. c[2] \in Independent =>
          windows'[c[1]][c[2]] = IF c[1] = k /\ c[2] \in new THEN t ELSE windows[c[1]][c[2]]
    BY <2>1 DEF Admit, TypeOK
  <2> QED
    BY <2>1, <2>2, <2>3
<1>2. new \subseteq Independent
  BY DEF Opened
<1>3. SlotsKept'
  <2>1. \A q \in Requests :
          stage'[q] \in {"arrived", "admitted"} => stage[q] \in {"arrived", "admitted"}
    BY <1>0
  <2> QED
    BY <2>1, SlotsFewer
<1>4. AnchoredCounts'
  <2> SUFFICES ASSUME NEW c \in Cells, c[2] \in Independent, windows'[c[1]][c[2]] = c[3]
               PROVE  mem[c] = Held(c)'
    BY <1>0 DEF AnchoredCounts
  <2>1. CASE c[1] = k /\ c[2] \in new
    <3>1. c[3] = t /\ windows[c[1]][c[2]] < c[3]
      BY <1>0, <1>1, <2>1, OpenedLater
    <3>2. mem[c] = 0 /\ dirty[c] = 0 /\ taken[c] = 0
      BY <3>1 DEF IInv, FutureEmpty
    <3>3. disk'[c] = 0
      BY <1>1, <2>1, <3>1
    <3> QED
      BY <1>0, <3>2, <3>3, PlusZero, BoundAssumption DEF Held, Amounts
  <2>2. CASE ~(c[1] = k /\ c[2] \in new)
    <3>1. disk'[c] = disk[c] /\ windows[c[1]][c[2]] = c[3]
      BY <1>1, <2>2
    <3> QED
      BY <1>0, <3>1 DEF AnchoredCounts, Held
  <2> QED
    BY <2>1, <2>2
<1>5. CalendarAhead' /\ CalendarRead'
  BY <1>0, <1>1 DEF CalendarAhead, CalendarRead
<1>6. \A c \in Cells : c[2] \notin Independent => disk'[c] = disk[c] /\ Held(c)' = Held(c)
  BY <1>0, <1>1, <1>2 DEF Held
<1>7. CalendarCounts'
  BY <1>0, <1>6, WindowAssumption DEF CalendarCounts
<1>8. ASSUME NEW c \in Cells, c \in Touched(r)', Limited(c)', Readable(c)'
      PROVE  Held(c)' = mem[c]
  <2>1. c[2] \notin Independent => open
    BY <1>0, <1>8 DEF Limited
  <2>2. CASE c[2] = Lifetime
    BY <1>6, <2>1, <2>2, WindowAssumption DEF IInv, KnownCounts, Known, Held
  <2>3. CASE c[2] \in Fixed
    <3>1. open /\ ~loading /\ c[2] \notin Independent
      BY <2>1, <2>3, WindowAssumption DEF IInv, LoadParts
    <3>2. FixedStart(c[2], clock) <= c[3]
      BY <1>0, <1>8, <2>3, <3>1, WindowAssumption DEF Readable
    <3> QED
      BY <1>6, <2>3, <3>1, <3>2 DEF CalendarCounts
  <2>4. CASE c[2] \in Independent
    <3>1. c[2] # Lifetime /\ c[2] \notin Fixed /\ c[2] \in Limits[c[1]]
      BY <1>8, <2>4, WindowAssumption DEF Limited
    <3>2. c[1] = k /\ c[3] = bound'[r][c[2]]
      BY <1>8, <3>1 DEF Touched, Life
    <3>3. bound'[r][c[2]] = windows'[c[1]][c[2]]
      BY <1>1, <2>4, <3>1, <3>2 DEF Admit, TypeOK
    <3> QED
      BY <1>0, <1>4, <2>4, <3>2, <3>3 DEF AnchoredCounts
  <2> QED
    BY <2>2, <2>3, <2>4, CellParts DEF Windows
<1>9. Bounded'
  <2> SUFFICES ASSUME NEW c \in Cells, Limited(c)'
               PROVE  /\ Fits(c, mem'[c], Counting(c)')
                      /\ Readable(c)' => Fits(c, Held(c)', Counting(c)')
    BY DEF Bounded, Fits
  <2>1. HasQuota(c) /\ Limited(c)
    BY <1>0 DEF Limited, HasQuota
  <2>2. CASE c \notin Touched(r)'
    BY <1>0, <2>1, <2>2, AdmitLeaves DEF Bounded
  <2>3. CASE c \in Touched(r)'
    <3>1. mem[c] \in Nat /\ mem[c] <= Base(c)
      BY <2>1, <2>3, AdmittedBelow, CeilingBase, HeldType
    <3>2. IsFiniteSet(Counting(c)') /\ Cardinality(Counting(c)') <= MaxConcurrent
      <4>1. Counting(c)' \subseteq InFlight(c[1])
        <5>1. \A q \in Requests : c \in Touched(q)' => c[1] = KeyOf[q]
          BY DEF Touched, Life
        <5> QED
          BY <1>0, <5>1 DEF Counting, InFlight
      <4>2. IsFiniteSet(InFlight(c[1])) /\ Cardinality(InFlight(c[1])) <= MaxConcurrent
        BY CellParts DEF SlotsKept
      <4>3. /\ IsFiniteSet(Counting(c)') /\ Cardinality(Counting(c)') \in Nat
            /\ Cardinality(InFlight(c[1])) \in Nat
            /\ Cardinality(Counting(c)') <= Cardinality(InFlight(c[1]))
        BY <4>1, <4>2, FS_Subset, FS_CardinalityType
      <4> QED
        BY <4>2, <4>3, BoundAssumption
    <3>3. Fits(c, mem[c], Counting(c)')
      BY <2>1, <3>1, <3>2, FitsFresh
    <3> QED
      BY <1>0, <1>8, <2>3, <3>3
  <2> QED
    BY <2>2, <2>3
<1> QED
  BY <1>3, <1>4, <1>5, <1>7, <1>9

LEMMA QRecord ==
  ASSUME TypeOK, TypeOK', QInv, AdmittedInPast,
         NEW r \in Requests, NEW amount \in Charges, Record(r, amount)
  PROVE  QInv'
<1> USE DEF QInv, loadVars, diskVars
<1>0. /\ UNCHANGED <<clock, open, windows, taken, loading, snapshot, disk, diskWin, at, bound,
                     blind>>
      /\ stage[r] = "admitted" /\ stage'[r] = "done"
      /\ \A q \in Requests : q # r => stage'[q] = stage[q]
      /\ amount \in Amounts /\ amount \in Nat
  BY BoundAssumption DEF Record, TypeOK, Amounts
<1>1. ASSUME NEW c \in Cells
      PROVE  /\ mem'[c] = IF c \in Touched(r) THEN Plus(mem[c], amount) ELSE mem[c]
             /\ dirty'[c] = IF c \in Touched(r) THEN Plus(dirty[c], amount) ELSE dirty[c]
             /\ Counting(c)' = Counting(c) \ {r} /\ (Readable(c)' => Readable(c))
  <2>1. Counting(c)' = Counting(c) \ {r} /\ (Readable(c)' => Readable(c))
    BY <1>0 DEF Counting, Touched, Readable
  <2> QED
    BY <2>1 DEF Record
<1>2. ASSUME NEW c \in Cells
      PROVE  Held(c)' = IF c \in Touched(r) THEN Plus(Held(c), amount) ELSE Held(c)
  <2>1. /\ disk[c] \in Amounts /\ taken[c] \in Amounts /\ dirty[c] \in Amounts
        /\ Plus(disk[c], taken[c]) \in Amounts
    BY HeldType, PlusType
  <2> DEFINE s == Plus(disk[c], taken[c])
  <2> HIDE DEF s
  <2>2. s \in Amounts /\ Held(c) = Plus(s, dirty[c]) /\ Held(c)' = Plus(s, dirty'[c])
    BY <1>0, <2>1 DEF Held, s
  <2>3. Plus(Plus(s, dirty[c]), amount) = Plus(s, Plus(dirty[c], amount))
    BY <1>0, <2>1, <2>2, PlusLaws
  <2> QED
    BY <1>1, <2>2, <2>3
<1>3. SlotsKept'
  <2>1. \A q \in Requests :
          stage'[q] \in {"arrived", "admitted"} => stage[q] \in {"arrived", "admitted"}
    BY <1>0
  <2> QED
    BY <2>1, SlotsFewer
<1>4. AnchoredCounts'
  BY <1>0, <1>1, <1>2 DEF AnchoredCounts
<1>5. ASSUME NEW c \in Cells, c[2] \in Fixed, FixedStart(c[2], clock) < c[3]
      PROVE  c \notin Touched(r)
  <2>1. at[r] \in Times /\ clock \in Times /\ at[r] <= clock
    BY DEF TypeOK, AdmittedInPast
  <2>2. /\ FixedStart(c[2], at[r]) \in Int /\ FixedStart(c[2], clock) \in Int /\ c[3] \in Int
        /\ FixedStart(c[2], at[r]) <= FixedStart(c[2], clock)
    BY <1>5, <2>1, CalendarCell
  <2>3. c[3] # FixedStart(c[2], at[r]) /\ c[2] # Lifetime /\ c[2] \notin Independent
    BY <1>5, <2>2, WindowAssumption
  <2> QED
    BY <2>3 DEF Touched, Life
<1>6. CalendarAhead' /\ CalendarRead'
  BY <1>0, <1>1, <1>5 DEF CalendarAhead, CalendarRead
<1>7. CalendarCounts'
  BY <1>0, <1>1, <1>2 DEF CalendarCounts
<1>8. Bounded'
  <2> SUFFICES ASSUME NEW c \in Cells, Limited(c)'
               PROVE  /\ Fits(c, mem'[c], Counting(c)')
                      /\ Readable(c)' => Fits(c, Held(c)', Counting(c)')
    BY DEF Bounded, Fits
  <2>1. /\ HasQuota(c) /\ IsFiniteSet(Counting(c))
        /\ Fits(c, mem[c], Counting(c))
        /\ Readable(c) => Fits(c, Held(c), Counting(c))
    BY <1>0, CountingSlots DEF Bounded, Limited, HasQuota
  <2>2. /\ mem[c] \in Nat /\ mem[c] \in Amounts /\ Held(c) \in Nat /\ Held(c) \in Amounts
        /\ mem'[c] \in Nat /\ Held(c)' \in Nat
    BY HeldType, NextHeldType DEF TypeOK
  <2>3. CASE c \in Touched(r)
    <3>1. r \in Counting(c)
      BY <1>0, <2>3 DEF Counting
    <3>2. mem'[c] <= mem[c] + amount /\ Held(c)' <= Held(c) + amount
      BY <1>0, <1>1, <1>2, <2>2, <2>3, PlusBounds
    <3> QED
      BY <1>1, <2>1, <2>2, <3>1, <3>2, FitsRecorded
  <2>4. CASE c \notin Touched(r)
    <3>1. mem'[c] = mem[c] /\ Held(c)' = Held(c) /\ Counting(c)' \subseteq Counting(c)
      BY <1>1, <1>2, <2>4
    <3> QED
      BY <1>1, <2>1, <2>2, <3>1, FitsSmaller
  <2> QED
    BY <2>3, <2>4
<1> QED
  BY <1>3, <1>4, <1>6, <1>7, <1>8

LEMMA QStep ==
  TypeOK /\ TypeOK' /\ IInv /\ IInv' /\ AdmittedInPast /\ QInv /\ [Next]_vars => QInv'
<1> SUFFICES ASSUME TypeOK, TypeOK', IInv, IInv', AdmittedInPast, QInv, [Next]_vars
             PROVE  QInv'
  OBVIOUS
<1> USE DEF flushVars, loadVars, diskVars, requestVars
<1>1. CASE UNCHANGED vars \/ ConnectFail \/ Shutdown
  <2>1. /\ UNCHANGED <<clock, open, mem, windows, dirty, taken, loading, snapshot,
                       disk, diskWin, blind, bound>>
        /\ UNCHANGED <<stage, at>>
    BY <1>1 DEF vars, ConnectFail, Shutdown
  <2>2. SlotsKept'
    BY <2>1, SlotsFewer DEF QInv
  <2> QED
    BY <2>1, <2>2, QQuiet
<1>2. ASSUME NEW r \in Requests, Drop(r) PROVE QInv'
  <2>1. /\ UNCHANGED <<clock, open, mem, windows, dirty, taken, loading, snapshot,
                       disk, diskWin, blind, bound>>
        /\ at' = at /\ \A q \in Requests : stage'[q] \in {stage[q], "done"}
    BY <1>2 DEF Drop, TypeOK
  <2>2. SlotsKept'
    BY <2>1, SlotsFewer DEF QInv
  <2>3. \A q \in Requests : stage'[q] = "admitted" => stage[q] = "admitted"
    BY <2>1
  <2> QED
    BY <2>1, <2>2, <2>3, QQuiet
<1>3. CASE FlushBegin \/ CloseFlush \/ FlushCommit \/ FlushFail
  BY <1>3, QFlush DEF FlushBegin, CloseFlush
<1>4. CASE Tick \/ Bootstrap \/ ConnectRead \/ ConnectInstall \/ CloseDatabase \/ Exit
  BY <1>4, QTick, QBootstrap, QConnectRead, QConnectInstall, QCloseDatabase, QExit
<1>5. ASSUME NEW r \in Requests, Arrive(r) \/ Admit(r) PROVE QInv'
  BY <1>5, QArrive, QAdmit
<1> QED
  BY <1>1, <1>2, <1>3, <1>4, <1>5, QStart, QRecord DEF Next

LEMMA QuotaInductive == Spec => []QInv
<1>1. Init => TypeOK /\ QInv
  BY QInit, TypeInit
<1> QED
  BY <1>1, QStep, TypeCorrect, Inductive, PastInvariant, PTL DEF Spec

(* While connected, the counters quotas are decided on are exactly what is *)
(* on disk, in a flush and waiting for one, the calendar windows current   *)
(* at the clock among them: no order of records, flushes, failures,        *)
(* reconnections, admissions, crashes and ends of windows loses or doubles *)
(* one.                                                                    *)
THEOREM UsageConserved == Spec => []Conservation
<1>1. TypeOK /\ IInv /\ QInv => Conservation
  <2> SUFFICES ASSUME TypeOK, IInv, QInv, open, NEW c \in Cells, Current(c)
               PROVE  mem[c] = Plus(Plus(disk[c], taken[c]), dirty[c])
    BY DEF Conservation
  <2>1. CASE c[2] \in Fixed /\ c[3] = FixedStart(c[2], clock)
    <3>1. FixedStart(c[2], clock) \in Int
      BY <2>1, CalendarCell, StartsInt DEF TypeOK
    <3>2. FixedStart(c[2], clock) <= c[3]
      BY <2>1, <3>1
    <3> QED
      BY <2>1, <3>2 DEF QInv, CalendarCounts, Held
  <2>2. CASE Known(c)
    BY <2>2 DEF IInv, KnownCounts
  <2> QED
    BY <2>1, <2>2 DEF Current, Known
<1> QED
  BY <1>1, TypeCorrect, Inductive, QuotaInductive, PTL

(* A limit is overshot by at most what the requests that run at the same   *)
(* time may still add, whatever happens to the process, the database and   *)
(* the clock in between.                                                   *)
THEOREM LimitsAreSoft == Spec => []SoftQuota
<1>1. TypeOK /\ QInv => SoftQuota
  <2> SUFFICES ASSUME TypeOK, QInv, NEW c \in Cells, Limited(c)
               PROVE  mem[c] <= Base(c) + MaxConcurrent * MaxCharge
    BY DEF SoftQuota
  <2>1. /\ Fits(c, mem[c], Counting(c)) /\ HasQuota(c) /\ mem[c] \in Nat
        /\ IsFiniteSet(Counting(c))
    BY HeldType, CountingSlots DEF QInv, Bounded, Limited, HasQuota
  <2>2. MaxCharge * Cardinality(Counting(c)) \in Nat
    BY <2>1, FS_CardinalityType, TimesLess, BoundAssumption
  <2>3. Ceiling(c) \in Nat
    BY <2>1, CeilingBase, TimesLess, BoundAssumption DEF Ceiling
  <2> QED
    BY <2>1, <2>2, <2>3 DEF Fits, Ceiling
<1> QED
  BY <1>1, TypeCorrect, QuotaInductive, PTL

=============================================================================
