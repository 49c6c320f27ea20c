----------------------------- MODULE RestartProofs -----------------------------
(***************************************************************************)
(* Proofs about the restarts of Supervisor: the counters that travel from  *)
(* a dead process to its successor, the delay they stand for, and the      *)
(* windows in which the start limit is counted.                            *)
(***************************************************************************)
EXTENDS SupervisorProofs

-------------------------------------------------------------------------------
(* Sets of times                                                           *)

\* The times of S in the window of length I that begins at a.
Window(S, a, I) == { x \in S : a <= x /\ x <= a + I }

\* A positive count has a predecessor.
LEMMA Predecessor ==
  ASSUME NEW c \in Nat, c # 0
  PROVE  c - 1 \in Nat
OBVIOUS

\* Times up to a moment n are finitely many.
LEMMA TimesFinite ==
  ASSUME NEW n \in Nat, NEW S \in SUBSET (0..n)
  PROVE  /\ IsFiniteSet(S) /\ Cardinality(S) \in Nat
         /\ S # {} => Cardinality(S) - 1 \in Nat
         /\ S = {} <=> Cardinality(S) = 0
<1>1. S \in SUBSET Nat /\ \A s \in S : s <= n
  OBVIOUS
<1>2. IsFiniteSet(S)
  BY <1>1, FS_BoundedSetOfNaturals
<1>3. Cardinality(S) \in Nat
  BY <1>2, FS_CardinalityType
<1>4. S = {} <=> Cardinality(S) = 0
  BY <1>2, FS_EmptySet
<1>5. S # {} => Cardinality(S) - 1 \in Nat
  BY <1>3, <1>4, Predecessor, Zenon
<1> QED
  BY <1>2, <1>3, <1>4, <1>5, Zenon

\* One more time, later than all others, counts once in every window that
\* is still open.
LEMMA LaterTimeCounts ==
  ASSUME NEW S \in SUBSET Nat, IsFiniteSet(S), NEW n \in Nat,
         \A t \in S : t < n,
         NEW a \in Nat, a <= n
  PROVE  /\ Cardinality(S \cup {n}) = Cardinality(S) + 1
         /\ Cardinality({ t \in S \cup {n} : t >= a })
              = Cardinality({ t \in S : t >= a }) + 1
<1>1. n \notin S
  OBVIOUS
<1> DEFINE since == { t \in S : t >= a }
<1>2. IsFiniteSet(since) /\ n \notin since
  BY <1>1, FS_Subset
<1>3. { t \in S \cup {n} : t >= a } = since \cup {n}
  OBVIOUS
<1>4. Cardinality(S \cup {n}) = Cardinality(S) + 1
  BY <1>1, FS_AddElement
<1>5. Cardinality(since \cup {n}) = Cardinality(since) + 1
  BY <1>2, FS_AddElement
<1> QED
  BY <1>3, <1>4, <1>5

\* When no time lies after n, the window that starts at n holds at most n.
LEMMA NewWindowCountsOne ==
  ASSUME NEW S \in SUBSET Nat, NEW n \in Nat, \A t \in S : t < n
  PROVE  Cardinality({ t \in S \cup {n} : t >= n }) = 1
<1>1. \A t \in S \cup {n} : t >= n <=> t = n
  OBVIOUS
<1>2. { t \in S \cup {n} : t >= n } = {n}
  BY <1>1
<1> QED
  BY <1>2, FS_Singleton

\* Windows of length I that do not overlap and cover S hold at most B times
\* each: then any stretch of length I that begins with a time of S meets at
\* most two of them.
LEMMA TwoWindows ==
  ASSUME NEW S \in SUBSET Nat, IsFiniteSet(S), NEW I \in Nat,
         NEW B \in Nat, B >= 1, NEW W \in SUBSET Nat,
         \A a, b \in W : a < b => a + I < b,
         \A x \in S : \E a \in W : x \in Window(S, a, I),
         \A a \in W : Window(S, a, I) = {} \/ Cardinality(Window(S, a, I)) <= B,
         NEW t \in S
  PROVE  Cardinality(Window(S, t, I)) <= 2 * B
<1> DEFINE X == Window(S, t, I)
<1>1. PICK a \in W : t \in Window(S, a, I)
  OBVIOUS
<1>2. /\ IsFiniteSet(X) /\ Cardinality(X) \in Nat
      /\ \A b : IsFiniteSet(Window(S, b, I)) /\ Cardinality(Window(S, b, I)) \in Nat
  <2>1. \A b : Window(S, b, I) \in SUBSET S
    BY DEF Window
  <2>2. \A b : IsFiniteSet(Window(S, b, I))
    BY <2>1, FS_Subset
  <2> QED
    BY <2>2, FS_CardinalityType
<1>3. Cardinality(Window(S, a, I)) <= B
  BY <1>1
<1>4. CASE X \subseteq Window(S, a, I)
  <2>1. Cardinality(X) <= Cardinality(Window(S, a, I))
    BY <1>2, <1>4, FS_Subset
  <2> QED
    BY <2>1, <1>2, <1>3
<1>5. ASSUME NEW x \in X, x \notin Window(S, a, I)
      PROVE  Cardinality(X) <= 2 * B
  <2>1. PICK b \in W : x \in Window(S, b, I)
    BY <1>5 DEF Window
  <2>2. /\ a \in Nat /\ b \in Nat /\ t \in Nat /\ x \in Nat
        /\ a <= t /\ t <= a + I /\ t <= x /\ x <= t + I
        /\ b <= x /\ x <= b + I
    BY <1>1, <1>5, <2>1 DEF Window
  <2>3. a < b /\ t < b
    <3>1. a # b
      BY <1>5, <2>1
    <3>2. ~(b < a)
      BY <2>2
    <3>3. a < b
      BY <3>1, <3>2, <2>2
    <3> QED
      BY <3>3, <2>2
  <2>4. ASSUME NEW y \in X, y \notin Window(S, a, I)
        PROVE  y \in Window(S, b, I)
    <3>1. PICK c \in W : y \in Window(S, c, I)
      BY <2>4 DEF Window
    <3>2. /\ c \in Nat /\ y \in Nat /\ t <= y /\ y <= t + I
          /\ c <= y /\ y <= c + I
      BY <2>4, <3>1 DEF Window
    <3>3. a # c /\ ~(c < a)
      BY <2>2, <2>4, <3>1, <3>2
    <3>4. a < c /\ t < c
      BY <3>3, <3>2, <2>2
    <3>5. ~(b < c) /\ ~(c < b)
      BY <3>2, <3>4, <2>2, <2>3
    <3>6. b = c
      BY <3>2, <3>5, <2>2
    <3> QED
      BY <3>1, <3>6
  <2>5. X \in SUBSET (Window(S, a, I) \cup Window(S, b, I))
    BY <2>4
  <2> DEFINE C == Cardinality(Window(S, a, I))
             D == Cardinality(Window(S, b, I))
             U == Window(S, a, I) \cup Window(S, b, I)
  <2>6. D <= B
    BY <2>1
  <2>7. IsFiniteSet(U) /\ Cardinality(U) <= C + D
    <3>1. /\ IsFiniteSet(Window(S, a, I) \cap Window(S, b, I))
          /\ IsFiniteSet(U)
          /\ Cardinality(U) = C + D - Cardinality(Window(S, a, I) \cap Window(S, b, I))
      BY <1>2, FS_Union, FS_Intersection
    <3>2. Cardinality(Window(S, a, I) \cap Window(S, b, I)) \in Nat
      BY <3>1, FS_CardinalityType
    <3> QED
      BY <3>1, <3>2, <1>2
  <2>8. Cardinality(X) <= Cardinality(U) /\ Cardinality(U) \in Nat
    BY <2>5, <2>7, FS_Subset, FS_CardinalityType
  <2> HIDE DEF C, D, U, X
  <2>9. C \in Nat /\ D \in Nat /\ Cardinality(X) \in Nat /\ C <= B
    BY <1>2, <1>3 DEF C, D
  <2> QED
    BY <2>6, <2>7, <2>8, <2>9
<1> QED
  BY <1>4, <1>5

\* The delay before a restart is never zero.
LEMMA BackoffPositive ==
  ASSUME NEW n \in Nat
  PROVE  BackoffDelay(n) \in Nat /\ BackoffDelay(n) >= 1
<1>1. Least(n, kMaxExponent) + 1 \in 1..14
  BY DEF Least, kMaxExponent
<1>2. \A k \in 1..14 : PowerOfTwo[k] \in Nat /\ PowerOfTwo[k] >= 1
  BY DEF PowerOfTwo
<1> DEFINE w == PowerOfTwo[Least(n, kMaxExponent) + 1]
<1>3. w \in Nat /\ w >= 1
  BY <1>1, <1>2
<1> HIDE DEF w
<1>4. kBaseDelay * w \in Nat /\ kBaseDelay * w >= 1
  BY <1>3, DelayAssumption
<1> QED
  BY <1>4, DelayAssumption DEF BackoffDelay, Least, w

-------------------------------------------------------------------------------
(* The history of a unit, and where it is kept                             *)

\* start_service is at work on u, or drain_pending_restarts has returned u.
Starting(u) == u \in ready \/ job.unit = u

\* The records that hold the counters of u at the moment.
Carried(u) ==
  { processes_[p] : p \in MainProcesses(u) } \cup PendingOf(u)
    \cup { c \in {restart_counts_[u]} : Starting(u) }

\* The delay that belongs to the last restart that was scheduled.
LastDelay(u) == BackoffDelay(Cardinality(scheduled[u]) - 1)

\* What the counters of u say of the past, and how far the clock is beyond
\* it: a process runs only after the delay of its own start, so its exit is
\* later than every exit that was counted before.
HistoryOf(u) ==
  /\ scheduled[u] \subseteq 0..now
  /\ \A c \in Carried(u) : CountersMatch(u, c) /\ c.burst_window_start <= now
  /\ MainProcesses(u) # {} => \A t \in scheduled[u] : t < now
  /\ \A pr \in PendingOf(u) : \A t \in scheduled[u] : pr.when >= t + LastDelay(u)
  /\ Starting(u) => \A t \in scheduled[u] : now >= t + LastDelay(u)
  /\ phase = "boot" => scheduled[u] = {} /\ restart_counts_[u] = NoMeta

\* W is the set of the windows that reap_children has opened for u: they do
\* not overlap, every restart fell into one of them, none holds more than
\* the limit, and the one the counters speak of is the last.
Windows(u, W) ==
  LET I == units_[u].restart_limit_interval IN
  /\ \A a, b \in W : a < b => a + I < b
  /\ \A t \in scheduled[u] : \E a \in W : t \in Window(scheduled[u], a, I)
  /\ \A a \in W : \/ Window(scheduled[u], a, I) = {}
                  \/ Cardinality(Window(scheduled[u], a, I))
                       <= units_[u].restart_limit_burst
  /\ \A c \in Carried(u) :
       c.burst_window_start \in W /\ \A a \in W : a <= c.burst_window_start

\* A unit that was ever restarted has a limit above zero, and windows exist
\* unless StartLimitIntervalSec= is negative, when every exit opens a window
\* that not even the exit itself falls into.
BurstsOf(u) ==
  /\ scheduled[u] # {} => units_[u].restart_limit_burst >= 1
  /\ units_[u].restart_limit_interval >= 0 => \E W \in SUBSET Nat : Windows(u, W)

RestartInv == \A u \in Unit : HistoryOf(u) /\ BurstsOf(u)

SameCounters(c, d) ==
  /\ c.restart_count = d.restart_count
  /\ c.burst_count = d.burst_count
  /\ c.burst_window_start = d.burst_window_start

\* A step that only moves the counters of u from one place to another, or
\* drops them, keeps what is known of u.
LEMMA KeepHistory ==
  ASSUME NEW u \in Unit, HistoryOf(u), BurstsOf(u), now \in Nat, now' \in Nat,
         now <= now', scheduled'[u] = scheduled[u], scheduled[u] \subseteq Nat,
         \A c \in Carried(u)' : c.burst_window_start \in Nat,
         \A c \in Carried(u)' : \E d \in Carried(u) : SameCounters(c, d),
         MainProcesses(u)' # {} => MainProcesses(u) # {} \/ Starting(u),
         PendingOf(u)' \subseteq PendingOf(u),
         Starting(u)' => Starting(u) \/ \E pr \in PendingOf(u) : pr.when <= now,
         \A pr \in PendingOf(u) : pr.when \in Nat,
         phase' = "boot" => phase = "boot" /\ restart_counts_'[u] = restart_counts_[u]
  PROVE  HistoryOf(u)' /\ BurstsOf(u)'
<1>1. scheduled'[u] \subseteq 0..now'
  BY DEF HistoryOf
<1>2. ASSUME NEW c \in Carried(u)'
      PROVE  CountersMatch(u, c)' /\ c.burst_window_start <= now'
  <2>1. PICK d \in Carried(u) : SameCounters(c, d)
    OBVIOUS
  <2>2. CountersMatch(u, d) /\ d.burst_window_start <= now
    BY <2>1 DEF HistoryOf
  <2>3. c.burst_window_start \in Nat
    OBVIOUS
  <2>4. c.burst_window_start <= now'
    BY <2>1, <2>2, <2>3 DEF SameCounters
  <2> QED
    BY <2>1, <2>2, <2>4 DEF CountersMatch, SameCounters
<1>3. LastDelay(u)' = LastDelay(u)
  BY DEF LastDelay, BackoffDelay
<1>a. ASSUME NEW t \in scheduled[u]
      PROVE  t \in Nat /\ LastDelay(u) \in Nat /\ LastDelay(u) >= 1
  <2>1. scheduled[u] # {} /\ scheduled[u] \subseteq 0..now
    BY <1>a DEF HistoryOf
  <2>2. Cardinality(scheduled[u]) - 1 \in Nat
    BY <2>1, TimesFinite
  <2> QED
    BY <2>2, BackoffPositive DEF LastDelay
<1>4. MainProcesses(u)' # {} => \A t \in scheduled'[u] : t < now'
  <2>1. MainProcesses(u) # {} => \A t \in scheduled[u] : t < now
    BY DEF HistoryOf
  <2>2. Starting(u) => \A t \in scheduled[u] : t < now
    BY <1>a DEF HistoryOf
  <2> QED
    BY <2>1, <2>2, <1>a
<1>5. \A pr \in PendingOf(u)' : \A t \in scheduled'[u] : pr.when >= t + LastDelay(u)'
  BY <1>3 DEF HistoryOf
<1>6. ASSUME Starting(u)', NEW t \in scheduled'[u]
      PROVE  now' >= t + LastDelay(u)'
  <2>1. t \in Nat /\ LastDelay(u) \in Nat
    BY <1>a, <1>6
  <2>2. CASE Starting(u)
    BY <2>1, <2>2, <1>3, <1>6 DEF HistoryOf
  <2>3. ASSUME NEW pr \in PendingOf(u), pr.when <= now
        PROVE  now' >= t + LastDelay(u)'
    BY <2>1, <2>3, <1>3, <1>6 DEF HistoryOf
  <2> QED
    BY <2>2, <2>3, <1>6
<1>7. phase' = "boot" => scheduled'[u] = {} /\ restart_counts_'[u] = NoMeta
  BY DEF HistoryOf
<1>8. HistoryOf(u)'
  BY <1>1, <1>2, <1>4, <1>5, <1>6, <1>7 DEF HistoryOf, NoMeta
<1>9. ASSUME NEW W \in SUBSET Nat, Windows(u, W)
      PROVE  Windows(u, W)'
  <2>1. \A c \in Carried(u)' :
          c.burst_window_start \in W /\ \A a \in W : a <= c.burst_window_start
    BY <1>9 DEF Windows, SameCounters
  <2> QED
    BY <1>9, <2>1 DEF Windows, Window
<1>10. BurstsOf(u)'
  BY <1>9 DEF BurstsOf
<1> QED
  BY <1>8, <1>10

\* The records that carry counters are typed.
LEMMA CarriedType ==
  ASSUME TypeOK, NEW u \in Unit
  PROVE  /\ \A c \in Carried(u) : /\ c.restart_count \in Nat
                                  /\ c.burst_count \in Int
                                  /\ c.burst_window_start \in Nat
         /\ \A pr \in PendingOf(u) : pr \in PendingRestart /\ pr.when \in Nat
         /\ scheduled[u] \in SUBSET Nat /\ now \in Nat
<1>1. /\ processes_ \in [Pid -> TrackedProcess]
      /\ pending_restarts_ \subseteq PendingRestart
      /\ restart_counts_ \in [Unit -> RestartMeta]
      /\ now \in Nat /\ scheduled \in [Unit -> SUBSET Nat]
  BY SupervisorAssumption DEF TypeOK
<1>2. \A p \in MainProcesses(u) : processes_[p] \in TrackedProcess
  BY <1>1 DEF MainProcesses, Tracked
<1>3. PendingOf(u) \subseteq PendingRestart /\ restart_counts_[u] \in RestartMeta
  BY <1>1 DEF PendingOf
<1>4. ASSUME NEW c \in Carried(u)
      PROVE  c \in TrackedProcess \/ c \in PendingRestart \/ c \in RestartMeta
  BY <1>2, <1>3 DEF Carried
<1> QED
  BY <1>1, <1>3, <1>4 DEF TrackedProcess, PendingRestart, RestartMeta

\* The same after a step.
LEMMA CarriedTypeNext ==
  ASSUME TypeOK', NEW u \in Unit
  PROVE  now' \in Nat /\ \A c \in Carried(u)' : c.burst_window_start \in Nat
<1>1. /\ processes_' \in [Pid -> TrackedProcess]
      /\ pending_restarts_' \subseteq PendingRestart
      /\ restart_counts_' \in [Unit -> RestartMeta] /\ now' \in Nat
  BY SupervisorAssumption DEF TypeOK
<1>2. \A p \in MainProcesses(u)' : processes_'[p] \in TrackedProcess
  BY <1>1 DEF MainProcesses, Tracked
<1>3. PendingOf(u)' \subseteq PendingRestart /\ restart_counts_'[u] \in RestartMeta
  BY <1>1 DEF PendingOf
<1>4. ASSUME NEW c \in Carried(u)'
      PROVE  c \in TrackedProcess \/ c \in PendingRestart \/ c \in RestartMeta
  BY <1>2, <1>3 DEF Carried
<1> QED
  BY <1>1, <1>4 DEF TrackedProcess, PendingRestart, RestartMeta

\* The steps that leave u alone.
LEMMA QuietHistory ==
  ASSUME TypeOK, TypeOK', RestartInv, NEW u \in Unit, now <= now',
         scheduled'[u] = scheduled[u],
         MainProcesses(u)' = MainProcesses(u),
         \A p \in MainProcesses(u) : SameCounters(processes_'[p], processes_[p]),
         PendingOf(u)' = PendingOf(u),
         Starting(u)' => Starting(u) /\ restart_counts_'[u] = restart_counts_[u],
         phase' = "boot" => phase = "boot" /\ restart_counts_'[u] = restart_counts_[u]
  PROVE  HistoryOf(u)' /\ BurstsOf(u)'
<1>1. HistoryOf(u) /\ BurstsOf(u)
  BY DEF RestartInv
<1>2. /\ \A pr \in PendingOf(u) : pr.when \in Nat
      /\ scheduled[u] \subseteq Nat /\ now \in Nat
  BY CarriedType
<1>4. now' \in Nat /\ \A c \in Carried(u)' : c.burst_window_start \in Nat
  BY CarriedTypeNext
<1>5. ASSUME NEW c \in Carried(u)'
      PROVE  \E d \in Carried(u) : SameCounters(c, d)
  <2>1. CASE \E p \in MainProcesses(u)' : c = processes_'[p]
    BY <2>1 DEF Carried
  <2>2. CASE c \in PendingOf(u)'
    BY <2>2 DEF Carried, SameCounters
  <2>3. CASE Starting(u)' /\ c = restart_counts_'[u]
    BY <2>3 DEF Carried, SameCounters
  <2> QED
    BY <2>1, <2>2, <2>3, <1>5 DEF Carried
<1> QED
  BY <1>1, <1>2, <1>4, <1>5, KeepHistory

\* A unit that was never restarted, and whose counters are all zero.
LEMMA FreshHistory ==
  ASSUME NEW u \in Unit, now' \in Nat, scheduled'[u] = {},
         \A c \in Carried(u)' : SameCounters(c, NoMeta),
         phase' = "boot" => restart_counts_'[u] = NoMeta
  PROVE  HistoryOf(u)' /\ BurstsOf(u)'
<1>1. ASSUME NEW c \in Carried(u)'
      PROVE  /\ CountersMatch(u, c)'
             /\ c.burst_window_start = 0
  <2>1. c.restart_count = 0 /\ c.burst_count = 0 /\ c.burst_window_start = 0
    BY <1>1 DEF SameCounters, NoMeta
  <2>2. Cardinality({}) = 0
    BY FS_EmptySet
  <2>3. { t \in scheduled'[u] : t >= c.burst_window_start } = {}
    OBVIOUS
  <2> QED
    BY <2>1, <2>2, <2>3 DEF CountersMatch
<1>2. HistoryOf(u)'
  BY <1>1 DEF HistoryOf, NoMeta
<1>3. Windows(u, {0})'
  <2>1. \A a, b \in {0} : ~(a < b)
    OBVIOUS
  <2>2. \A a, I : Window({}, a, I) = {}
    BY DEF Window
  <2> QED
    BY <1>1, <2>1, <2>2 DEF Windows
<1>4. {0} \in SUBSET Nat
  OBVIOUS
<1> QED
  BY <1>2, <1>3, <1>4 DEF BurstsOf

\* An exit is counted and a restart is scheduled: the counters move from the
\* dead process to the entry of pending_restarts_ and grow by one, in the
\* window that is open or in a new one.
LEMMA ScheduleStep ==
  ASSUME TypeOK, NEW u \in Unit, HistoryOf(u), BurstsOf(u),
         NEW p \in MainProcesses(u), NEW pr, now' = now, phase' # "boot",
         pr \in RestartsOf(processes_[p], child[p]),
         scheduled'[u] = scheduled[u] \cup {now},
         MainProcesses(u)' = {}, PendingOf(u)' = {pr}, ~Starting(u)'
  PROVE  HistoryOf(u)' /\ BurstsOf(u)'
<1> DEFINE tp == processes_[p]
           S == scheduled[u]
           T == S \cup {now}
           I == units_[u].restart_limit_interval
           B == units_[u].restart_limit_burst
<1>1. now \in Nat /\ S \in SUBSET Nat
  BY CarriedType
<1>2. /\ tp \in Carried(u) /\ tp.unit_name = u
      /\ tp.restart_count \in Nat /\ tp.burst_count \in Int
      /\ tp.burst_window_start \in Nat
  <2>1. tp \in Carried(u) /\ tp.unit_name = u
    BY DEF Carried, MainProcesses
  <2> QED
    BY <2>1, CarriedType
<1>3. CountersMatch(u, tp) /\ tp.burst_window_start <= now
  BY <1>2 DEF HistoryOf
<1>4. S \in SUBSET (0..now) /\ \A t \in S : t < now
  BY DEF HistoryOf
<1>5. IsFiniteSet(S) /\ Cardinality(S) \in Nat
  BY <1>1, <1>4, TimesFinite
<1>6. I \in Int /\ B \in Int
  BY SupervisorAssumption DEF UnitFile
<1> DEFINE new == now - tp.burst_window_start > I
<1>7. /\ pr.when = now + BackoffDelay(tp.restart_count)
      /\ pr.restart_count = tp.restart_count + 1
      /\ pr.burst_count = IF new THEN 1 ELSE tp.burst_count + 1
      /\ pr.burst_window_start = IF new THEN now ELSE tp.burst_window_start
      /\ pr.burst_count <= B
  BY <1>2 DEF RestartsOf, BurstAfterExit
<1>8. Carried(u)' = {pr}
  BY DEF Carried
<1>9. /\ Cardinality(T) = Cardinality(S) + 1
      /\ Cardinality({ t \in T : t >= pr.burst_window_start }) = pr.burst_count
  <2> DEFINE since == { t \in S : t >= tp.burst_window_start }
  <2>1. /\ Cardinality(T) = Cardinality(S) + 1
        /\ Cardinality({ t \in T : t >= tp.burst_window_start })
             = Cardinality(since) + 1
    <3>1. \A a \in Nat : a <= now =>
            /\ Cardinality(T) = Cardinality(S) + 1
            /\ Cardinality({ t \in T : t >= a }) = Cardinality({ t \in S : t >= a }) + 1
      BY <1>1, <1>4, <1>5, LaterTimeCounts, Zenon
    <3> QED
      BY <3>1, <1>2, <1>3, Zenon
  <2>2. Cardinality({ t \in T : t >= now }) = 1
    BY <1>1, <1>4, NewWindowCountsOne
  <2>3. Cardinality(since) = tp.burst_count
    BY <1>3 DEF CountersMatch
  <2>4. CASE new
    BY <2>1, <2>2, <2>4, <1>7
  <2>5. CASE ~new
    BY <2>1, <2>3, <2>5, <1>7
  <2> QED
    BY <2>4, <2>5
<1>10. tp.restart_count = Cardinality(S)
  BY <1>3 DEF CountersMatch
<1>11. CountersMatch(u, pr)'
  BY <1>7, <1>9, <1>10 DEF CountersMatch
<1>12. pr.burst_window_start <= now /\ pr.burst_window_start \in Nat
  BY <1>1, <1>2, <1>3, <1>7
<1>13. LastDelay(u)' = BackoffDelay(tp.restart_count)
  <2>1. Cardinality(T) - 1 = tp.restart_count
    BY <1>5, <1>9, <1>10
  <2> QED
    BY <2>1 DEF LastDelay, BackoffDelay
<1>14. BackoffDelay(tp.restart_count) \in Nat
  BY <1>2, BackoffNat
<1>15. \A t \in T : pr.when >= t + LastDelay(u)'
  BY <1>1, <1>4, <1>7, <1>13, <1>14
<1>16. HistoryOf(u)'
  BY <1>1, <1>4, <1>8, <1>11, <1>12, <1>15 DEF HistoryOf
<1>17. B >= 1
  <2>1. tp.burst_count \in Nat
    <3>1. IsFiniteSet({ t \in S : t >= tp.burst_window_start })
      BY <1>5, FS_Subset
    <3> QED
      BY <3>1, <1>3, FS_CardinalityType DEF CountersMatch
  <2> QED
    BY <2>1, <1>6, <1>7
<1>18. ASSUME I >= 0
       PROVE  \E W \in SUBSET Nat : Windows(u, W)'
  <2>1. PICK W \in SUBSET Nat : Windows(u, W)
    BY <1>18 DEF BurstsOf
  <2>2. /\ \A a, b \in W : a < b => a + I < b
        /\ \A t \in S : \E a \in W : t \in Window(S, a, I)
        /\ \A a \in W : Window(S, a, I) = {} \/ Cardinality(Window(S, a, I)) <= B
        /\ tp.burst_window_start \in W
        /\ \A a \in W : a <= tp.burst_window_start
    BY <2>1, <1>2 DEF Windows
  <2>3. CASE new
    <3> DEFINE V == W \cup {now}
    <3>1. \A a \in W : a \in Nat /\ a + I < now
      BY <2>2, <2>3, <1>1, <1>2, <1>6
    <3>2. \A a \in W : Window(T, a, I) = Window(S, a, I)
      BY <3>1, <1>1, <1>6 DEF Window
    <3>3. Window(T, now, I) = {now}
      BY <1>1, <1>4, <1>6, <1>18 DEF Window
    <3>4. \A a, b \in V : a < b => a + I < b
      BY <3>1, <2>2, <1>1, <1>6, <1>18
    <3>5. \A t \in T : \E a \in V : t \in Window(T, a, I)
      BY <3>2, <3>3, <2>2
    <3>6. \A a \in V : Window(T, a, I) = {} \/ Cardinality(Window(T, a, I)) <= B
      BY <3>2, <3>3, <2>2, <1>6, <1>17, FS_Singleton
    <3>7. now \in V /\ \A a \in V : a <= now
      BY <3>1, <1>1, <1>6, <1>18
    <3>8. pr.burst_window_start = now
      BY <2>3, <1>7
    <3>9. Windows(u, V)'
      BY <3>4, <3>5, <3>6, <3>7, <3>8, <1>8 DEF Windows
    <3>10. V \in SUBSET Nat
      BY <1>1
    <3> QED
      BY <3>9, <3>10
  <2>4. CASE ~new
    <3> DEFINE s == tp.burst_window_start
    <3>1. s \in W /\ s \in Nat /\ s <= now /\ now <= s + I
      BY <2>2, <2>4, <1>1, <1>2, <1>3, <1>6
    <3>2. \A a \in W : a # s => a \in Nat /\ a + I < now
      BY <2>2, <3>1, <1>1, <1>6
    <3>3. \A a \in W : a # s => Window(T, a, I) = Window(S, a, I)
      BY <3>2, <1>1, <1>6 DEF Window
    <3>4. Window(T, s, I) = Window(S, s, I) \cup {now}
      BY <3>1, <1>1 DEF Window
    <3>5. Window(T, s, I) = { t \in T : t >= s }
      <4>1. \A t \in T : t \in Nat /\ t <= s + I
        BY <3>1, <1>1, <1>4, <1>6
      <4> QED
        BY <4>1, <3>1 DEF Window
    <3>6. Cardinality(Window(T, s, I)) <= B
      BY <3>5, <2>4, <1>7, <1>9
    <3>7. \A t \in T : \E a \in W : t \in Window(T, a, I)
      BY <3>1, <3>3, <3>4, <2>2
    <3>8. \A a \in W : Window(T, a, I) = {} \/ Cardinality(Window(T, a, I)) <= B
      BY <3>3, <3>6, <2>2
    <3>9. pr.burst_window_start = s
      BY <2>4, <1>7
    <3>10. Windows(u, W)'
      BY <3>7, <3>8, <3>9, <2>2, <1>8 DEF Windows
    <3> QED
      BY <3>10
  <2> QED
    BY <2>3, <2>4
<1> QED
  BY <1>16, <1>17, <1>18 DEF BurstsOf

-------------------------------------------------------------------------------
(* The history through every step                                          *)

\* The steps outside start_service, reap_children and the restart queue.
LEMMA QuietRestarts ==
  ASSUME TypeOK, TypeOK', RestartInv, now <= now',
         UNCHANGED <<processes_, exit_callbacks_, pending_restarts_,
                     restart_counts_, scheduled>>,
         \A u \in Unit : Starting(u)' => Starting(u),
         phase' = "boot" => phase = "boot"
  PROVE  RestartInv'
<1> SUFFICES ASSUME NEW u \in Unit PROVE HistoryOf(u)' /\ BurstsOf(u)'
  BY DEF RestartInv
<1>1. MainProcesses(u)' = MainProcesses(u) /\ PendingOf(u)' = PendingOf(u)
  BY DEF MainProcesses, PendingOf, Tracked
<1>2. \A p : SameCounters(processes_'[p], processes_[p])
  BY DEF SameCounters
<1> QED
  BY <1>1, <1>2, QuietHistory

\* start_service has made a process: it starts with the counters that
\* drain_pending_restarts has left for it, or with none.
LEMMA SpawnHistory ==
  ASSUME TablesInv, TypeOK', ControlInv, InstanceInv, RestartInv, Spawn,
         ~UNCHANGED <<child, processes_, unit_to_pid_, restart_counts_>>
  PROVE  RestartInv'
<1>a. TypeOK /\ JobInv /\ KillTargetsAreChildren
  BY DEF TablesInv
<1>b. /\ processes_ \in [Pid -> TrackedProcess]
      /\ restart_counts_ \in [Unit -> RestartMeta]
  BY <1>a DEF TypeOK
<1>c. None \notin Unit
  BY SupervisorAssumption
<1>1. PICK u \in Unit : u = job.unit
  BY <1>a DEF Spawn, JobInv
<1> DEFINE new == NewProcess(u, parse_restart_policy(units_[u].restart_policy))
<1>d. PICK tp : tp = WithRestartCount(new, u)
  OBVIOUS
<1>2. PICK p \in Pid :
        /\ child[p] = "free"
        /\ processes_' = [processes_ EXCEPT ![p] = tp]
        /\ restart_counts_' = [restart_counts_ EXCEPT ![u] = NoMeta]
  BY <1>1, <1>d DEF Spawn, FreePids
<1>3. /\ job' = NoJob
      /\ UNCHANGED <<now, phase, ready, exit_callbacks_, pending_restarts_, scheduled>>
  BY DEF Spawn, ReturnFromStart, history
<1>4. p \notin Tracked /\ exit_callbacks_[p] = None
  BY <1>2, <1>a DEF KillTargetsAreChildren
<1>5. new \in TrackedProcess /\ new.unit_name = u
  BY <1>1, NewProcessType, PolicyType DEF NewProcess
<1>6. tp.unit_name = u
  BY <1>1, <1>5, <1>b, <1>d, WithRestartCountUnit
<1>7. processes_'[p] = tp /\ \A q \in Pid : q # p => processes_'[q] = processes_[q]
  BY <1>2, <1>b
<1>8. job'.unit = None
  BY <1>3 DEF NoJob
<1>9. ASSUME NEW v \in Unit, v # u
      PROVE  HistoryOf(v)' /\ BurstsOf(v)'
  <2>1. MainProcesses(v)' = MainProcesses(v)
    BY <1>3, <1>4, <1>6, <1>7, <1>9, <1>c DEF MainProcesses, Tracked
  <2>2. PendingOf(v)' = PendingOf(v)
    BY <1>3 DEF PendingOf
  <2>3. \A q \in MainProcesses(v) : SameCounters(processes_'[q], processes_[q])
    BY <1>4, <1>7 DEF SameCounters, MainProcesses, Tracked
  <2>4. restart_counts_'[v] = restart_counts_[v]
    BY <1>2, <1>9, <1>b
  <2>5. Starting(v)' => Starting(v)
    BY <1>3, <1>8, <1>c DEF Starting
  <2>6. now <= now' /\ scheduled'[v] = scheduled[v]
    BY <1>3, <1>a, SupervisorAssumption DEF TypeOK
  <2> QED
    BY <2>1, <2>2, <2>3, <2>4, <2>5, <2>6, <1>3, <1>a, QuietHistory
<1>10. /\ MainProcesses(u) = {} /\ PendingOf(u) = {} /\ u \notin ready
  BY <1>1 DEF InstanceInv, SingleInstance
<1>11. /\ MainProcesses(u)' = {p} /\ PendingOf(u)' = {} /\ ~Starting(u)'
  <2>1. p \in MainProcesses(u)'
    BY <1>1, <1>3, <1>4, <1>6, <1>7, <1>c DEF MainProcesses, Tracked
  <2>2. \A q \in MainProcesses(u)' : q = p
    BY <1>3, <1>7, <1>10 DEF MainProcesses, Tracked
  <2> QED
    BY <2>1, <2>2, <1>1, <1>3, <1>8, <1>10, <1>c DEF PendingOf, Starting
<1>12. Carried(u)' = {tp}
  BY <1>7, <1>11 DEF Carried
<1>13. restart_counts_[u] \in Carried(u) /\ Starting(u)
  BY <1>1 DEF Carried, Starting
<1>14. HistoryOf(u) /\ BurstsOf(u)
  BY <1>1 DEF RestartInv
<1>15. now \in Nat /\ now' \in Nat /\ now <= now' /\ scheduled[u] \in SUBSET Nat
  BY <1>1, <1>3, <1>a, CarriedType, CarriedTypeNext
<1>16. CASE restart_counts_[u].restart_count = 0
  <2>1. tp = new
    BY <1>16, <1>d DEF WithRestartCount
  <2>2. SameCounters(tp, NoMeta)
    BY <2>1 DEF SameCounters, NoMeta, NewProcess
  <2>3. scheduled[u] = {}
    <3>1. Cardinality(scheduled[u]) = 0 /\ scheduled[u] \in SUBSET (0..now)
      BY <1>13, <1>14, <1>16 DEF HistoryOf, CountersMatch
    <3> QED
      BY <3>1, <1>15, TimesFinite
  <2>4. restart_counts_'[u] = NoMeta
    BY <1>1, <1>2, <1>b
  <2>5. HistoryOf(u)' /\ BurstsOf(u)'
    BY <2>2, <2>3, <2>4, <1>3, <1>12, <1>15, FreshHistory
  <2> QED
    BY <2>5, <1>9 DEF RestartInv
<1>17. CASE restart_counts_[u].restart_count # 0
  <2>1. restart_counts_[u] \in RestartMeta
    BY <1>1, <1>b
  <2>2. SameCounters(tp, restart_counts_[u])
    BY <1>5, <1>17, <1>d, <2>1
    DEF WithRestartCount, SameCounters, TrackedProcess, RestartMeta
  <2>3. \A c \in Carried(u)' : c.burst_window_start \in Nat
    BY <1>1, CarriedTypeNext
  <2>4. phase' # "boot"
    <3>1. phase = "boot" => restart_counts_[u] = NoMeta
      BY <1>14 DEF HistoryOf
    <3> QED
      BY <3>1, <1>3, <1>17 DEF NoMeta
  <2>5. HistoryOf(u)' /\ BurstsOf(u)'
    BY <2>2, <2>3, <2>4, <1>1, <1>3, <1>10, <1>11, <1>12, <1>13, <1>14, <1>15,
       KeepHistory
  <2> QED
    BY <2>5, <1>9 DEF RestartInv
<1> QED
  BY <1>16, <1>17

\* reap_children takes a process out of the tables and, where its policy and
\* its burst ask for it, schedules the restart.
LEMMA ReapHistory ==
  ASSUME TablesInv, TypeOK', ControlInv, InstanceInv, RestartInv,
         NEW p \in Pid, ReapTracked(p)
  PROVE  RestartInv'
<1>a. TypeOK
  BY DEF TablesInv
<1>b. /\ processes_ \in [Pid -> TrackedProcess]
      /\ exit_callbacks_ \in [Pid -> Socket \cup {None}]
      /\ scheduled \in [Unit -> SUBSET Nat]
  BY <1>a DEF TypeOK
<1>c. None \notin Unit
  BY SupervisorAssumption
<1>1. PICK u \in Unit, tp \in TrackedProcess :
        tp = processes_[p] /\ u = tp.unit_name
  BY <1>b DEF ReapTracked, Tracked, TrackedProcess
<1>2. PICK restarts : restarts = RestartsOf(tp, child[p])
  OBVIOUS
<1>3. /\ processes_' = [processes_ EXCEPT ![p] = NoProcess]
      /\ exit_callbacks_' = [exit_callbacks_ EXCEPT ![p] = None]
      /\ pending_restarts_' = pending_restarts_ \cup restarts
      /\ scheduled' = [scheduled EXCEPT ![u] =
                         IF restarts = {} THEN @ ELSE @ \cup {now}]
      /\ p \in Tracked /\ pc = "reap"
      /\ UNCHANGED <<now, phase, ready, job, restart_counts_>>
  BY <1>1, <1>2 DEF ReapTracked, control
<1>4. NoProcess.unit_name = None
  BY DEF NoProcess, NewProcess
<1>5. /\ processes_'[p] = NoProcess
      /\ \A q \in Pid : q # p => /\ processes_'[q] = processes_[q]
                                 /\ exit_callbacks_'[q] = exit_callbacks_[q]
  BY <1>3, <1>b
<1>6. \A pr \in restarts : pr.unit_name = u
  BY <1>1, <1>2 DEF RestartsOf
<1>7. \A v \in Unit : MainProcesses(v)' = MainProcesses(v) \ {p}
  BY <1>4, <1>5, <1>c DEF MainProcesses, Tracked
<1>8. \A v \in Unit : Starting(v)' <=> Starting(v)
  BY <1>3 DEF Starting
<1>9. phase' # "boot"
  BY <1>3 DEF ControlInv
<1>10. now \in Nat /\ now' \in Nat /\ now <= now'
  BY <1>3, <1>a, SupervisorAssumption DEF TypeOK
<1>11. ASSUME NEW v \in Unit, v # u
       PROVE  HistoryOf(v)' /\ BurstsOf(v)'
  <2>1. MainProcesses(v)' = MainProcesses(v)
    BY <1>1, <1>7, <1>11 DEF MainProcesses
  <2>2. PendingOf(v)' = PendingOf(v)
    BY <1>3, <1>6, <1>11 DEF PendingOf
  <2>3. \A q \in MainProcesses(v) : SameCounters(processes_'[q], processes_[q])
    BY <1>1, <1>5, <1>11 DEF SameCounters, MainProcesses, Tracked
  <2>4. scheduled'[v] = scheduled[v] /\ restart_counts_'[v] = restart_counts_[v]
    BY <1>3, <1>11, <1>b
  <2> QED
    BY <2>1, <2>2, <2>3, <2>4, <1>8, <1>9, <1>10, <1>a, QuietHistory
<1>12. HistoryOf(u) /\ BurstsOf(u)
  BY DEF RestartInv
<1>13. CASE restarts = {}
  <2>1. scheduled'[u] = scheduled[u] /\ PendingOf(u)' = PendingOf(u)
    BY <1>3, <1>13, <1>b DEF PendingOf
  <2>2. MainProcesses(u)' \subseteq MainProcesses(u)
    BY <1>7
  <2>3. \A q \in MainProcesses(u)' : processes_'[q] = processes_[q]
    BY <1>5, <1>7 DEF MainProcesses, Tracked
  <2>4. Carried(u)' \subseteq Carried(u)
    BY <2>1, <2>2, <2>3, <1>3, <1>8 DEF Carried
  <2>5. \A c \in Carried(u)' : \E d \in Carried(u) : SameCounters(c, d)
    BY <2>4 DEF SameCounters
  <2>6. \A c \in Carried(u)' : c.burst_window_start \in Nat
    BY CarriedTypeNext
  <2>7. (\A pr \in PendingOf(u) : pr.when \in Nat) /\ scheduled[u] \subseteq Nat
    BY <1>a, CarriedType
  <2>8. /\ MainProcesses(u)' # {} => MainProcesses(u) # {}
        /\ PendingOf(u)' \subseteq PendingOf(u) /\ (Starting(u)' => Starting(u))
    BY <2>1, <2>2, <1>8
  <2>9. HistoryOf(u)' /\ BurstsOf(u)'
    BY <2>1, <2>5, <2>6, <2>7, <2>8, <1>9, <1>10, <1>12, KeepHistory
  <2> QED
    BY <2>9, <1>11 DEF RestartInv
<1>14. CASE restarts # {}
  <2>1. PICK pr : restarts = {pr}
    BY <1>2, <1>14 DEF RestartsOf
  <2>2. tp.restart_policy # "no"
    BY <1>2, <1>14 DEF RestartsOf, should_restart
  <2>3. p \in MainProcesses(u)
    BY <2>2, <1>1, <1>3 DEF MainProcesses, InstanceInv, QueueInv
  <2>4. MainProcesses(u)' = {}
    BY <2>3, <1>7 DEF InstanceInv, SingleInstance
  <2>5. PendingOf(u) = {} /\ ~Starting(u)
    BY <2>3 DEF InstanceInv, SingleInstance, Starting
  <2>6. PendingOf(u)' = {pr}
    BY <2>1, <2>5, <1>3, <1>6 DEF PendingOf
  <2>7. scheduled'[u] = scheduled[u] \cup {now}
    BY <1>3, <1>14, <1>b
  <2>8. pr \in RestartsOf(processes_[p], child[p])
    BY <2>1, <1>1, <1>2
  <2>9. HistoryOf(u)' /\ BurstsOf(u)'
    BY <2>3, <2>4, <2>5, <2>6, <2>7, <2>8, <1>3, <1>8, <1>9, <1>12, <1>a,
       ScheduleStep
  <2> QED
    BY <2>9, <1>11 DEF RestartInv
<1> QED
  BY <1>13, <1>14

\* drain_pending_restarts moves the counters of the units that are due into
\* restart_counts_.
LEMMA DrainHistory ==
  ASSUME TablesInv, TypeOK', ControlInv, InstanceInv, RestartInv,
         drain_pending_restarts
  PROVE  RestartInv'
<1>a. TypeOK /\ JobInv
  BY DEF TablesInv
<1> DEFINE dueOf(u) ==
      { pr \in { pr \in pending_restarts_ : IsDue(pr) } : pr.unit_name = u }
<1> DEFINE metaOf(pr) == [ restart_count      |-> pr.restart_count,
                           burst_count        |-> pr.burst_count,
                           burst_window_start |-> pr.burst_window_start ]
<1>1. /\ ready' = { pr.unit_name : pr \in { pr \in pending_restarts_ : IsDue(pr) } }
      /\ restart_counts_' =
           [u \in Unit |-> IF dueOf(u) = {} THEN restart_counts_[u]
                           ELSE metaOf(CHOOSE pr \in dueOf(u) : TRUE)]
      /\ pending_restarts_' =
           pending_restarts_ \ { pr \in pending_restarts_ : IsDue(pr) }
      /\ pc = "restart"
      /\ UNCHANGED <<now, phase, job, processes_, exit_callbacks_, scheduled>>
  BY DEF drain_pending_restarts, Remaining, kernel, history
<1>2. phase' # "boot" /\ ready = {}
  BY <1>1 DEF ControlInv
<1>3. now \in Nat /\ now' \in Nat /\ now <= now'
  BY <1>1, <1>a, SupervisorAssumption DEF TypeOK
<1> SUFFICES ASSUME NEW u \in Unit
             PROVE  HistoryOf(u)' /\ BurstsOf(u)'
  BY DEF RestartInv
<1>4. HistoryOf(u) /\ BurstsOf(u)
  BY DEF RestartInv
<1>5. MainProcesses(u)' = MainProcesses(u)
  BY <1>1 DEF MainProcesses, Tracked
<1>6. dueOf(u) = { pr \in PendingOf(u) : now >= pr.when }
  BY DEF PendingOf, IsDue
<1>7. PendingOf(u)' = PendingOf(u) \ dueOf(u)
  BY <1>1 DEF PendingOf
<1>8. u \in ready' <=> dueOf(u) # {}
  BY <1>1
<1>9. /\ restart_counts_'[u] = IF dueOf(u) = {} THEN restart_counts_[u]
                               ELSE metaOf(CHOOSE pr \in dueOf(u) : TRUE)
  BY <1>1
<1> HIDE DEF dueOf
<1>10. /\ \A pr \in PendingOf(u) : pr.when \in Nat
       /\ scheduled[u] \subseteq Nat
  BY <1>a, CarriedType
<1>11. \A c \in Carried(u)' : c.burst_window_start \in Nat
  BY CarriedTypeNext
<1>12. Starting(u)' => Starting(u) \/ \E pr \in PendingOf(u) : pr.when <= now
  <2>1. job'.unit = job.unit
    BY <1>1
  <2>2. u \in ready' => \E pr \in PendingOf(u) : pr.when <= now
    BY <1>3, <1>6, <1>8, <1>10
  <2> QED
    BY <2>1, <2>2 DEF Starting
<1>13. ASSUME NEW c \in Carried(u)'
       PROVE  \E d \in Carried(u) : SameCounters(c, d)
  <2>1. ASSUME NEW q \in MainProcesses(u)', c = processes_'[q]
        PROVE  \E d \in Carried(u) : SameCounters(c, d)
    <3>1. c \in Carried(u)
      BY <2>1, <1>1, <1>5 DEF Carried
    <3> QED
      BY <3>1 DEF SameCounters
  <2>2. CASE c \in PendingOf(u)'
    <3>1. c \in Carried(u)
      BY <2>2, <1>7 DEF Carried
    <3> QED
      BY <3>1 DEF SameCounters
  <2>3. CASE Starting(u)' /\ c = restart_counts_'[u]
    <3>1. CASE dueOf(u) # {}
      <4>1. PICK pr : pr = CHOOSE x \in dueOf(u) : TRUE
        OBVIOUS
      <4>2. pr \in dueOf(u)
        BY <3>1, <4>1
      <4>3. c = metaOf(pr)
        BY <2>3, <3>1, <4>1, <1>9
      <4>4. SameCounters(c, pr)
        BY <4>3 DEF SameCounters
      <4> QED
        BY <4>2, <4>4, <1>6 DEF Carried
    <3>2. CASE dueOf(u) = {}
      <4>1. job.unit = u /\ c = restart_counts_[u]
        BY <2>3, <3>2, <1>1, <1>8, <1>9 DEF Starting
      <4> QED
        BY <4>1 DEF Carried, Starting, SameCounters
    <3> QED
      BY <3>1, <3>2
  <2> QED
    BY <2>1, <2>2, <2>3, <1>13 DEF Carried
<1>14. scheduled'[u] = scheduled[u] /\ PendingOf(u)' \subseteq PendingOf(u)
  BY <1>1, <1>7
<1> QED
  BY <1>2, <1>3, <1>4, <1>5, <1>10, <1>11, <1>12, <1>13, <1>14, KeepHistory

\* A unit that UnitExecute starts has no past.
LEMMA BootHistory ==
  ASSUME TablesInv, TypeOK', ControlInv, InstanceInv, RestartInv, UnitExecute
  PROVE  RestartInv'
<1>a. TypeOK /\ JobInv
  BY DEF TablesInv
<1>1. PICK u \in Unit :
        /\ u = exec_order_[idx]
        /\ job'.unit \in {job.unit, u}
        /\ MainProcesses(u) = {}
  <2>1. phase = "boot" /\ idx \in 1..Len(exec_order_)
    BY <1>a DEF UnitExecute, JobInv, TypeOK
  <2>2. exec_order_[idx] \in Unit
    BY <2>1, SupervisorAssumption
  <2>3. MainProcesses(exec_order_[idx]) = {}
    BY <2>1 DEF InstanceInv, QueueInv
  <2>4. job'.unit \in {job.unit, exec_order_[idx]}
    BY DEF UnitExecute, BeginStart
  <2> QED
    BY <2>2, <2>3, <2>4
<1>2. /\ phase = "boot" /\ pending_restarts_ = {} /\ ready = {}
      /\ UNCHANGED <<phase, now, ready, processes_, exit_callbacks_,
                     pending_restarts_, restart_counts_, scheduled>>
  BY DEF UnitExecute, InstanceInv, QueueInv, ControlInv, kernel, tables, history
<1>3. \A v : MainProcesses(v)' = MainProcesses(v) /\ PendingOf(v)' = PendingOf(v)
  BY <1>2 DEF MainProcesses, PendingOf, Tracked
<1>4. now \in Nat /\ now' \in Nat /\ now <= now'
  BY <1>2, <1>a, SupervisorAssumption DEF TypeOK
<1>5. HistoryOf(u)' /\ BurstsOf(u)'
  <2>1. scheduled[u] = {} /\ restart_counts_[u] = NoMeta
    BY <1>2 DEF RestartInv, HistoryOf
  <2>2. Carried(u)' \subseteq {NoMeta}
    BY <2>1, <1>1, <1>2, <1>3 DEF Carried, PendingOf
  <2>3. \A c \in Carried(u)' : SameCounters(c, NoMeta)
    BY <2>2 DEF SameCounters
  <2> QED
    BY <2>1, <2>3, <1>2, <1>4, FreshHistory
<1>6. ASSUME NEW v \in Unit, v # u
      PROVE  HistoryOf(v)' /\ BurstsOf(v)'
  <2>1. Starting(v)' => Starting(v)
    BY <1>1, <1>2, <1>6 DEF Starting
  <2>2. \A p : SameCounters(processes_'[p], processes_[p])
    BY <1>2 DEF SameCounters
  <2> QED
    BY <2>1, <2>2, <1>2, <1>3, <1>4, <1>a, QuietHistory
<1> QED
  BY <1>5, <1>6 DEF RestartInv

\* Every step keeps the history of every unit.
LEMMA RestartStep ==
  ASSUME TablesInv, TypeOK', ControlInv, InstanceInv, RestartInv, [Next]_vars
  PROVE  RestartInv'
<1> USE DEF vars, kernel, tables, flags, control, history
<1> DEFINE Same ==
      /\ UNCHANGED <<processes_, exit_callbacks_, pending_restarts_,
                     restart_counts_, scheduled>>
      /\ now' \in {now, now + 1} /\ (phase' = "boot" => phase = "boot")
    Quiet == Same /\ ready' = ready /\ job'.unit \in {job.unit, None}
<1>a. TypeOK /\ JobInv /\ KillTargetsAreChildren
  BY DEF TablesInv
<1>b. /\ processes_ \in [Pid -> TrackedProcess] /\ job \in StartJob
      /\ exit_callbacks_ \in [Pid -> Socket \cup {None}]
  BY <1>a DEF TypeOK
<1>c. None \notin Unit /\ None \notin Socket
  BY SupervisorAssumption
<1>d. now \in Nat
  BY <1>a, SupervisorAssumption DEF TypeOK
<1>e. ASSUME Quiet
      PROVE  RestartInv'
  <2>1. \A u \in Unit : Starting(u)' => Starting(u)
    BY <1>e, <1>c DEF Starting
  <2>2. now <= now'
    BY <1>e, <1>d
  <2> QED
    BY <2>1, <2>2, <1>a, <1>e, QuietRestarts
<1>f. NoJob.unit = None
  BY DEF NoJob
<1>1. ASSUME NEW p, NEW status, Exit(p, status)
      PROVE  Quiet
  BY <1>1 DEF Exit
<1>2. ASSUME NEW p, Reparent(p) \/ ReapUntracked(p)
      PROVE  Quiet
  BY <1>2 DEF Reparent, ReapUntracked
<1>3. ASSUME NEW x, Connect(x) \/ SendSignal(x) \/ drain_signals(x)
                    \/ IgnoreSocketEvent(x) \/ RefuseConnection(x)
      PROVE  Quiet
  BY <1>3, RefuseStep DEF Connect, SendSignal, drain_signals, IgnoreSocketEvent
<1>4. Tick \/ Poll \/ DispatchSignals \/ SignalsDrained \/ ChildrenReaped => Quiet
  BY DEF Tick, Poll, DispatchSignals, SignalsDrained, ChildrenReaped
<1>5. EnterMainLoop \/ EventsHandled \/ EndOfIteration \/ KillAll => Quiet
  BY DEF EnterMainLoop, EventsHandled, EndOfIteration, KillAll
<1>6. CASE RunStartPre \/ WaitStartPre
  <2>1. job'.unit \in {job.unit, None}
    BY <1>6, <1>b, <1>f DEF RunStartPre, WaitStartPre, ReturnFromStart, StartJob
  <2>2. Quiet
    BY <1>6, <2>1 DEF RunStartPre, WaitStartPre
  <2> QED
    BY <2>2, <1>e
<1>7. CASE UnitExecute
  BY <1>7, BootHistory
<1>8. ASSUME NEW u \in Unit, process_restarts(u)
      PROVE  RestartInv'
  <2>1. Same /\ ready' = ready \ {u} /\ u \in ready /\ job'.unit = u
    BY <1>8 DEF process_restarts, BeginStart
  <2>2. \A v \in Unit : Starting(v)' => Starting(v)
    BY <2>1 DEF Starting
  <2>3. now <= now'
    BY <2>1, <1>d
  <2> QED
    BY <2>1, <2>2, <2>3, <1>a, QuietRestarts
<1>9. CASE Spawn
  <2>1. CASE UNCHANGED <<child, processes_, unit_to_pid_, restart_counts_>>
    <3>1. Quiet
      BY <1>9, <2>1, <1>f DEF Spawn, ReturnFromStart
    <3> QED
      BY <3>1, <1>e
  <2> QED
    BY <1>9, <2>1, SpawnHistory
<1>10. ASSUME NEW p \in Pid, ReapTracked(p)
       PROVE  RestartInv'
  BY <1>10, ReapHistory
<1>11. ASSUME NEW fd \in ListenFd, AcceptConnection(fd)
       PROVE  RestartInv'
  <2>1. PICK s \in Socket, u \in Unit, p \in Pid :
           /\ child[p] = "free"
           /\ processes_' = [processes_ EXCEPT ![p] = NewProcess(u, "no")]
           /\ exit_callbacks_' = [exit_callbacks_ EXCEPT ![p] = s]
    BY <1>11, AcceptStep
  <2>2. UNCHANGED <<phase, now, ready, job, pending_restarts_, restart_counts_,
                    scheduled>>
    BY <1>11 DEF AcceptConnection, TakeConnection
  <2>3. p \notin Tracked
    BY <2>1, <1>a DEF KillTargetsAreChildren
  <2>4. exit_callbacks_'[p] = s /\
        \A q \in Pid : q # p => /\ processes_'[q] = processes_[q]
                                /\ exit_callbacks_'[q] = exit_callbacks_[q]
    BY <2>1, <1>b
  <2>5. \A v \in Unit : MainProcesses(v)' = MainProcesses(v)
    BY <2>3, <2>4, <1>c DEF MainProcesses, Tracked
  <2>6. now <= now'
    BY <2>2, <1>d
  <2>7. ASSUME NEW v \in Unit
        PROVE  HistoryOf(v)' /\ BurstsOf(v)'
    <3>1. \A q \in MainProcesses(v) : SameCounters(processes_'[q], processes_[q])
      BY <2>3, <2>4 DEF SameCounters, MainProcesses, Tracked
    <3>2. PendingOf(v)' = PendingOf(v) /\ (Starting(v)' => Starting(v))
      BY <2>2 DEF PendingOf, Starting
    <3> QED
      BY <3>1, <3>2, <2>2, <2>5, <2>6, <1>a, QuietHistory
  <2> QED
    BY <2>7 DEF RestartInv
<1>12. CASE StopUnits
  <2>1. \A q \in Pid : /\ processes_'[q].unit_name = processes_[q].unit_name
                       /\ SameCounters(processes_'[q], processes_[q])
    BY <1>12, <1>b DEF StopUnits, TrackedProcess, SameCounters
  <2>2. /\ UNCHANGED <<now, ready, job, exit_callbacks_, pending_restarts_,
                       restart_counts_, scheduled>>
        /\ phase' = "grace"
    BY <1>12 DEF StopUnits
  <2>3. \A v \in Unit : MainProcesses(v)' = MainProcesses(v)
    BY <2>1, <2>2 DEF MainProcesses, Tracked
  <2>4. now <= now'
    BY <2>2, <1>d
  <2>5. ASSUME NEW v \in Unit
        PROVE  HistoryOf(v)' /\ BurstsOf(v)'
    <3>1. \A q \in MainProcesses(v) : SameCounters(processes_'[q], processes_[q])
      BY <2>1 DEF MainProcesses, Tracked
    <3>2. PendingOf(v)' = PendingOf(v) /\ (Starting(v)' => Starting(v))
      BY <2>2 DEF PendingOf, Starting
    <3> QED
      BY <3>1, <3>2, <2>2, <2>3, <2>4, <1>a, QuietHistory
  <2> QED
    BY <2>5 DEF RestartInv
<1>13. CASE drain_pending_restarts
  BY <1>13, DrainHistory
<1>14. UNCHANGED vars => Quiet
  OBVIOUS
<1> HIDE DEF Quiet
<1> QED
  BY <1>e, <1>1, <1>2, <1>3, <1>4, <1>5, <1>6, <1>7, <1>8, <1>9, <1>10, <1>11,
     <1>12, <1>13, <1>14
  DEF Next, Environment, InitThread, Terminated

\* The history of every unit is kept throughout.
LEMMA RestartInvariant == Spec => []RestartInv
<1>1. Init => RestartInv
  <2> SUFFICES ASSUME Init, NEW u \in Unit
               PROVE  HistoryOf(u) /\ BurstsOf(u)
    BY DEF RestartInv
  <2>1. /\ MainProcesses(u) = {} /\ PendingOf(u) = {} /\ ~Starting(u)
    BY SupervisorAssumption
    DEF Init, MainProcesses, PendingOf, Starting, Tracked, NoProcess, NewProcess, NoJob
  <2>2. Carried(u) = {}
    BY <2>1 DEF Carried
  <2>3. scheduled[u] = {} /\ restart_counts_[u] = NoMeta
    BY DEF Init
  <2>4. HistoryOf(u)
    BY <2>1, <2>2, <2>3 DEF HistoryOf
  <2>5. Windows(u, {})
    BY <2>2, <2>3 DEF Windows
  <2> QED
    BY <2>3, <2>4, <2>5 DEF BurstsOf
<1>2. TablesInv /\ TypeOK' /\ ControlInv /\ InstanceInv /\ RestartInv /\ [Next]_vars
        => RestartInv'
  BY RestartStep
<1> QED
  BY <1>1, <1>2, TablesInvariant, TypeCorrect, ControlInvariant, InstanceInvariant,
     PTL
  DEF Spec

\* No restart is forgotten or counted twice: wherever the counters of a unit
\* are, they agree with the restarts that were ever scheduled.
THEOREM HistoryKept == Spec => []RestartHistoryKept
<1>1. RestartInv => RestartHistoryKept
  BY DEF RestartInv, HistoryOf, RestartHistoryKept, Carried, Starting
<1> QED
  BY <1>1, RestartInvariant, PTL

\* start_service is never at work on a unit before the back-off delay that
\* belongs to its number of restarts has passed since every one of its exits.
THEOREM BackoffKept == Spec => []BackoffHonoured
<1>1. TypeOK /\ RestartInv => BackoffHonoured
  <2> SUFFICES ASSUME TypeOK, RestartInv,
                      NEW u \in ready \cup ({job.unit} \ {None}),
                      NEW t \in scheduled[u]
               PROVE  now >= t + BackoffDelay(Cardinality(scheduled[u]) - 1)
    BY DEF BackoffHonoured
  <2>1. u \in Unit /\ Starting(u)
    BY DEF TypeOK, StartJob, Starting
  <2> QED
    BY <2>1 DEF RestartInv, HistoryOf, LastDelay
<1> QED
  BY <1>1, TypeCorrect, RestartInvariant, PTL

\* Whatever StartLimitBurst= and StartLimitIntervalSec= say, no stretch of
\* that length that begins with a restart holds more than twice the limit.
THEOREM BurstLimit == Spec => []BurstBound
<1>1. TypeOK /\ RestartInv => BurstBound
  <2> SUFFICES ASSUME TypeOK, RestartInv, NEW u \in Unit, NEW t \in scheduled[u]
               PROVE  Cardinality({ x \in scheduled[u] :
                         t <= x /\ x <= t + units_[u].restart_limit_interval })
                        <= 2 * units_[u].restart_limit_burst
    BY DEF BurstBound
  <2> DEFINE I == units_[u].restart_limit_interval
             B == units_[u].restart_limit_burst
             S == scheduled[u]
  <2>1. I \in Int /\ B \in Int
    BY SupervisorAssumption DEF UnitFile
  <2>2. HistoryOf(u) /\ BurstsOf(u)
    BY DEF RestartInv
  <2>3. now \in Nat /\ S \in SUBSET Nat /\ S \in SUBSET (0..now)
    BY <2>2, CarriedType DEF HistoryOf
  <2>4. IsFiniteSet(S)
    BY <2>3, TimesFinite
  <2>5. B >= 1 /\ B \in Nat
    BY <2>1, <2>2 DEF BurstsOf
  <2>6. CASE I >= 0
    <3>1. PICK W \in SUBSET Nat : Windows(u, W)
      BY <2>2, <2>6 DEF BurstsOf
    <3>2. /\ \A a, b \in W : a < b => a + I < b
          /\ \A x \in S : \E a \in W : x \in Window(S, a, I)
          /\ \A a \in W : Window(S, a, I) = {} \/ Cardinality(Window(S, a, I)) <= B
      BY <3>1 DEF Windows
    <3>3. I \in Nat
      BY <2>1, <2>6
    <3>4. t \in S
      OBVIOUS
    <3> HIDE DEF I, B, S
    <3>5. Cardinality(Window(S, t, I)) <= 2 * B
      BY <3>2, <3>3, <3>4, <2>3, <2>4, <2>5, TwoWindows
    <3> QED
      BY <3>5 DEF Window, I, B, S
  <2>7. CASE I < 0
    <3>1. t \in Nat /\ \A x \in S : x \in Nat
      BY <2>3
    <3>2. { x \in S : t <= x /\ x <= t + I } = {}
      BY <3>1, <2>1, <2>7
    <3>3. Cardinality({}) = 0
      BY FS_EmptySet
    <3> QED
      BY <3>2, <3>3, <2>5
  <2> QED
    BY <2>1, <2>6, <2>7
<1> QED
  BY <1>1, TypeCorrect, RestartInvariant, PTL

-------------------------------------------------------------------------------
(* No unit is forgotten                                                    *)

\* Until stop_unit revokes it, a main process has the policy of its unit.
PolicyInv ==
  phase \in {"boot", "run"} =>
    \A p \in Tracked : exit_callbacks_[p] = None =>
      processes_[p].restart_policy =
        parse_restart_policy(units_[processes_[p].unit_name].restart_policy)

\* Every step keeps the policies until the services are stopped.
LEMMA PolicyStep ==
  ASSUME TablesInv, PolicyInv, [Next]_vars
  PROVE  PolicyInv'
<1> USE DEF vars, kernel, tables, flags, control
<1> DEFINE Quiet == /\ UNCHANGED <<processes_, exit_callbacks_>>
                    /\ phase' \in {"boot", "run"} => phase \in {"boot", "run"}
<1>a. TypeOK /\ JobInv /\ KillTargetsAreChildren
  BY DEF TablesInv
<1>b. /\ processes_ \in [Pid -> TrackedProcess]
      /\ exit_callbacks_ \in [Pid -> Socket \cup {None}]
  BY <1>a DEF TypeOK
<1>c. None \notin Unit /\ None \notin Socket
  BY SupervisorAssumption
<1>d. Quiet => PolicyInv'
  BY DEF PolicyInv, Tracked, parse_restart_policy
<1>1. ASSUME NEW p, NEW status, Exit(p, status)
      PROVE  Quiet
  BY <1>1 DEF Exit
<1>2. ASSUME NEW p, Reparent(p) \/ ReapUntracked(p)
      PROVE  Quiet
  BY <1>2 DEF Reparent, ReapUntracked
<1>3. ASSUME NEW x, Connect(x) \/ SendSignal(x) \/ drain_signals(x)
                    \/ IgnoreSocketEvent(x) \/ RefuseConnection(x)
                    \/ process_restarts(x)
      PROVE  Quiet
  BY <1>3, RefuseStep
  DEF Connect, SendSignal, drain_signals, IgnoreSocketEvent, process_restarts
<1>4. Tick \/ Poll \/ DispatchSignals \/ SignalsDrained \/ ChildrenReaped
        \/ EndOfIteration \/ drain_pending_restarts => Quiet
  BY DEF Tick, Poll, DispatchSignals, SignalsDrained, ChildrenReaped,
         EndOfIteration, drain_pending_restarts
<1>5. EnterMainLoop \/ UnitExecute \/ RunStartPre \/ WaitStartPre => Quiet
  BY DEF EnterMainLoop, UnitExecute, RunStartPre, WaitStartPre
<1>6. EventsHandled \/ KillAll => Quiet
  BY DEF EventsHandled, KillAll
<1>7. CASE Spawn
  <2>1. CASE UNCHANGED <<child, processes_, unit_to_pid_, restart_counts_>>
    BY <1>7, <2>1, <1>d DEF Spawn
  <2>2. CASE ~UNCHANGED <<child, processes_, unit_to_pid_, restart_counts_>>
    <3>1. PICK u \in Unit : u = job.unit
      BY <1>7, <1>a DEF Spawn, JobInv
    <3> DEFINE new == NewProcess(u, parse_restart_policy(units_[u].restart_policy))
    <3>2. PICK tp : tp = WithRestartCount(new, u)
      OBVIOUS
    <3>3. PICK p \in Pid : processes_' = [processes_ EXCEPT ![p] = tp]
      BY <1>7, <2>2, <3>1, <3>2 DEF Spawn, FreePids
    <3>4. /\ tp.unit_name = u
          /\ tp.restart_policy = parse_restart_policy(units_[u].restart_policy)
      BY <3>2 DEF WithRestartCount, NewProcess
    <3>5. UNCHANGED <<phase, exit_callbacks_>>
      BY <1>7 DEF Spawn
    <3>6. processes_'[p] = tp /\ \A q \in Pid : q # p => processes_'[q] = processes_[q]
      BY <3>3, <1>b
    <3>7. ASSUME NEW q \in Tracked', exit_callbacks_'[q] = None, phase \in {"boot", "run"}
          PROVE  processes_'[q].restart_policy =
                   parse_restart_policy(units_[processes_'[q].unit_name].restart_policy)
      <4>1. CASE q = p
        BY <4>1, <3>4, <3>6
      <4>2. CASE q # p
        <5>1. q \in Tracked /\ processes_'[q] = processes_[q]
          BY <4>2, <3>6, <3>7 DEF Tracked
        <5> QED
          BY <5>1, <3>5, <3>7 DEF PolicyInv
      <4> QED
        BY <4>1, <4>2
    <3> QED
      BY <3>5, <3>7 DEF PolicyInv, parse_restart_policy
  <2> QED
    BY <2>1, <2>2
<1>8. ASSUME NEW p \in Pid, ReapTracked(p)
      PROVE  PolicyInv'
  <2>1. /\ processes_' = [processes_ EXCEPT ![p] = NoProcess]
        /\ exit_callbacks_' = [exit_callbacks_ EXCEPT ![p] = None]
        /\ phase' = phase
    BY <1>8 DEF ReapTracked
  <2>2. NoProcess.unit_name = None
    BY DEF NoProcess, NewProcess
  <2>3. \A q \in Tracked' : /\ q \in Tracked
                            /\ processes_'[q] = processes_[q]
                            /\ exit_callbacks_'[q] = exit_callbacks_[q]
    BY <2>1, <2>2, <1>b DEF Tracked
  <2> QED
    BY <2>1, <2>3 DEF PolicyInv, parse_restart_policy
<1>9. ASSUME NEW fd \in ListenFd, AcceptConnection(fd)
      PROVE  PolicyInv'
  <2>1. PICK s \in Socket, u \in Unit, p \in Pid :
           /\ child[p] = "free"
           /\ processes_' = [processes_ EXCEPT ![p] = NewProcess(u, "no")]
           /\ exit_callbacks_' = [exit_callbacks_ EXCEPT ![p] = s]
    BY <1>9, AcceptStep
  <2>2. phase' = phase
    BY <1>9 DEF AcceptConnection, TakeConnection
  <2>3. ASSUME NEW q \in Tracked', exit_callbacks_'[q] = None
        PROVE  /\ q \in Tracked /\ processes_'[q] = processes_[q]
               /\ exit_callbacks_[q] = None
    <3>1. q \in Pid /\ q # p
      BY <2>1, <2>3, <1>b, <1>c DEF Tracked
    <3> QED
      BY <3>1, <2>1, <2>3, <1>b DEF Tracked
  <2> QED
    BY <2>2, <2>3 DEF PolicyInv, parse_restart_policy
<1>10. CASE StopUnits
  BY <1>10 DEF StopUnits, PolicyInv
<1>11. UNCHANGED vars => Quiet
  OBVIOUS
<1> HIDE DEF Quiet
<1> QED
  BY <1>d, <1>1, <1>2, <1>3, <1>4, <1>5, <1>6, <1>7, <1>8, <1>9, <1>10, <1>11
  DEF Next, Environment, InitThread, Terminated

\* The policies are kept throughout.
LEMMA PolicyInvariant == Spec => []PolicyInv
<1>1. Init => PolicyInv
  <2>1. Init => Tracked = {}
    BY DEF Init, Tracked, NoProcess, NewProcess
  <2> QED
    BY <2>1 DEF PolicyInv
<1>2. TablesInv /\ PolicyInv /\ [Next]_vars => PolicyInv'
  BY PolicyStep
<1> QED
  BY <1>1, <1>2, TablesInvariant, PTL DEF Spec

\* A main process that is reaped and leaves no restart behind had an exit
\* that its policy does not react to, or its limit is used up, or PID 1 is
\* stopping its services.
LEMMA FinalExit ==
  ASSUME TypeOK, ControlInv, RestartInv, PolicyInv, NEW u \in Unit,
         NEW p \in MainProcesses(u), ReapTracked(p),
         RestartsOf(processes_[p], child[p]) = {}
  PROVE  ExitIsFinal(u)
<1> DEFINE tp == processes_[p]
           I == units_[u].restart_limit_interval
           B == units_[u].restart_limit_burst
           S == scheduled[u]
           since == { t \in S : t >= tp.burst_window_start }
           recent == { t \in S : now - t <= I }
<1>1. child[p] \in ExitStatus /\ pc = "reap"
  BY DEF ReapTracked
<1>2. p \in Tracked /\ exit_callbacks_[p] = None /\ tp.unit_name = u
  BY DEF MainProcesses
<1>3. CASE phase \notin {"boot", "run"}
  <2>1. phase \in {"grace", "final"}
    BY <1>1, <1>3 DEF ControlInv, TypeOK
  <2> QED
    BY <2>1, <1>1 DEF ExitIsFinal
<1>4. CASE phase \in {"boot", "run"}
  <2>1. tp.restart_policy = parse_restart_policy(units_[u].restart_policy)
    BY <1>2, <1>4 DEF PolicyInv
  <2>2. CASE ~should_restart(tp.restart_policy, child[p])
    BY <2>1, <2>2, <1>1 DEF ExitIsFinal
  <2>3. CASE should_restart(tp.restart_policy, child[p])
    <3>1. ~(BurstAfterExit(tp).count <= B)
      BY <2>3, <1>2 DEF RestartsOf
    <3>2. tp \in Carried(u)
      BY DEF Carried
    <3>3. /\ tp.burst_window_start \in Nat /\ tp.burst_count \in Int
          /\ S \in SUBSET Nat /\ now \in Nat
      BY <3>2, CarriedType
    <3>4. /\ S \in SUBSET (0..now)
          /\ tp.burst_count = Cardinality(since)
      BY <3>2 DEF RestartInv, HistoryOf, CountersMatch
    <3>5. I \in Int /\ B \in Int
      BY SupervisorAssumption DEF UnitFile
    <3>6. IsFiniteSet(recent) /\ Cardinality(recent) \in Nat
      <4>1. IsFiniteSet(S)
        BY <3>3, <3>4, TimesFinite
      <4>2. recent \in SUBSET S
        OBVIOUS
      <4> QED
        BY <4>1, <4>2, FS_Subset, FS_CardinalityType
    <3>7. CASE now - tp.burst_window_start > I
      <4>1. B < 1
        BY <3>1, <3>5, <3>7, <1>2 DEF BurstAfterExit
      <4>2. Cardinality(recent) >= B
        BY <4>1, <3>5, <3>6
      <4> QED
        BY <4>2, <1>1 DEF ExitIsFinal, LimitUsedUp
    <3>8. CASE ~(now - tp.burst_window_start > I)
      <4>1. tp.burst_count >= B
        BY <3>1, <3>3, <3>5, <3>8, <1>2 DEF BurstAfterExit
      <4>2. since \in SUBSET recent
        BY <3>3, <3>5, <3>8
      <4>3. Cardinality(since) <= Cardinality(recent)
        BY <4>2, <3>6, FS_Subset
      <4>4. Cardinality(recent) >= B
        BY <4>1, <4>3, <3>3, <3>4, <3>5, <3>6
      <4> QED
        BY <4>4, <1>1 DEF ExitIsFinal, LimitUsedUp
    <3> QED
      BY <3>7, <3>8
  <2> QED
    BY <2>2, <2>3
<1> QED
  BY <1>3, <1>4

\* A unit in hand stays in hand, but for a final exit or a failed start.
LEMMA InHandStep ==
  ASSUME TablesInv, ControlInv, InstanceInv, RestartInv, PolicyInv, [Next]_vars,
         NEW u \in Unit, InHand(u), ~InHand(u)'
  PROVE  ExitIsFinal(u) \/ StartFails(u)
<1> USE DEF vars, kernel, tables, flags, control
<1> DEFINE Quiet ==
      /\ MainProcesses(u)' = MainProcesses(u) /\ PendingOf(u)' = PendingOf(u)
      /\ u \in ready => u \in ready' \/ job'.unit = u
      /\ job.unit = u => job'.unit = u
    Same == UNCHANGED <<processes_, exit_callbacks_, pending_restarts_, ready, job>>
<1>a. TypeOK /\ JobInv /\ KillTargetsAreChildren
  BY DEF TablesInv
<1>b. /\ processes_ \in [Pid -> TrackedProcess] /\ job \in StartJob
      /\ exit_callbacks_ \in [Pid -> Socket \cup {None}]
  BY <1>a DEF TypeOK
<1>c. None \notin Unit /\ None \notin Socket
  BY SupervisorAssumption
<1>d. Quiet => FALSE
  BY DEF InHand
<1>e. UNCHANGED <<processes_, exit_callbacks_, pending_restarts_>>
        => MainProcesses(u)' = MainProcesses(u) /\ PendingOf(u)' = PendingOf(u)
  BY DEF MainProcesses, PendingOf, Tracked
<1>f. Same => FALSE
  BY <1>d, <1>e
<1>g. pc \notin {"start", "waitpre"} => job.unit # u
  BY <1>a, <1>c DEF JobInv, NoJob
<1>1. ASSUME NEW p, NEW status, Exit(p, status)
      PROVE  Same
  BY <1>1 DEF Exit
<1>2. ASSUME NEW p, Reparent(p) \/ ReapUntracked(p)
      PROVE  Same
  BY <1>2 DEF Reparent, ReapUntracked
<1>3. ASSUME NEW x, Connect(x) \/ SendSignal(x) \/ drain_signals(x)
                    \/ IgnoreSocketEvent(x) \/ RefuseConnection(x)
      PROVE  Same
  BY <1>3, RefuseStep DEF Connect, SendSignal, drain_signals, IgnoreSocketEvent
<1>4. Tick \/ Poll \/ DispatchSignals \/ SignalsDrained \/ ChildrenReaped => Same
  BY DEF Tick, Poll, DispatchSignals, SignalsDrained, ChildrenReaped
<1>5. EnterMainLoop \/ EventsHandled \/ EndOfIteration \/ KillAll => Same
  BY DEF EnterMainLoop, EventsHandled, EndOfIteration, KillAll
<1>6. UnitExecute => FALSE
  BY <1>d, <1>e, <1>g DEF UnitExecute
<1>7. RunStartPre => FALSE
  <2>1. RunStartPre => job'.unit = job.unit
    BY <1>b DEF RunStartPre, StartJob
  <2> QED
    BY <2>1, <1>d, <1>e DEF RunStartPre
<1>8. CASE WaitStartPre
  <2>1. UNCHANGED <<processes_, exit_callbacks_, pending_restarts_, ready>>
    BY <1>8 DEF WaitStartPre
  <2>2. job.unit = u /\ job'.unit # u
    BY <2>1, <1>d, <1>e
  <2>3. pc = "waitpre" /\ child[job.pid] \in ExitStatus
    BY <1>8 DEF WaitStartPre
  <2>4. child[job.pid] # "success" /\ ~Head(job.pre)
    BY <1>8, <2>2, <1>b DEF WaitStartPre, StartJob
  <2> QED
    BY <2>2, <2>3, <2>4 DEF StartFails, ExitStatus
<1>9. ASSUME NEW v \in Unit, process_restarts(v)
      PROVE  FALSE
  <2>1. /\ ready' = ready \ {v} /\ job'.unit = v /\ job.unit # u
        /\ UNCHANGED <<processes_, exit_callbacks_, pending_restarts_>>
    BY <1>9, <1>g DEF process_restarts, BeginStart
  <2> QED
    BY <2>1, <1>d, <1>e
<1>10. CASE Spawn
  <2>1. CASE job.unit = u
    BY <1>10, <2>1 DEF Spawn, StartFails
  <2>2. CASE job.unit # u
    <3>1. UNCHANGED <<ready, exit_callbacks_, pending_restarts_>>
      BY <1>10 DEF Spawn
    <3>2. CASE UNCHANGED <<child, processes_, unit_to_pid_, restart_counts_>>
      BY <3>1, <3>2, <2>2, <1>d, <1>e
    <3>3. CASE ~UNCHANGED <<child, processes_, unit_to_pid_, restart_counts_>>
      <4>1. PICK v \in Unit, p \in Pid, tp \in TrackedProcess :
              /\ v = job.unit /\ child[p] = "free" /\ tp.unit_name = v
              /\ processes_' = [processes_ EXCEPT ![p] = tp]
        BY <1>10, <3>3, SpawnStep
      <4>2. p \notin Tracked
        BY <4>1, <1>a DEF KillTargetsAreChildren
      <4>3. processes_'[p] = tp /\ \A q \in Pid : q # p => processes_'[q] = processes_[q]
        BY <4>1, <1>b
      <4>4. MainProcesses(u)' = MainProcesses(u)
        BY <4>1, <4>2, <4>3, <3>1, <2>2 DEF MainProcesses, Tracked
      <4>5. PendingOf(u)' = PendingOf(u)
        BY <3>1 DEF PendingOf
      <4> QED
        BY <4>4, <4>5, <3>1, <2>2, <1>d
    <3> QED
      BY <3>2, <3>3
  <2> QED
    BY <2>1, <2>2
<1>11. ASSUME NEW p \in Pid, ReapTracked(p)
       PROVE  ExitIsFinal(u)
  <2>1. PICK restarts : restarts = RestartsOf(processes_[p], child[p])
    OBVIOUS
  <2>2. /\ processes_' = [processes_ EXCEPT ![p] = NoProcess]
        /\ exit_callbacks_' = [exit_callbacks_ EXCEPT ![p] = None]
        /\ pending_restarts_' = pending_restarts_ \cup restarts
        /\ UNCHANGED <<ready, job>>
    BY <1>11, <2>1 DEF ReapTracked
  <2>3. NoProcess.unit_name = None
    BY DEF NoProcess, NewProcess
  <2>4. MainProcesses(u)' = MainProcesses(u) \ {p}
    <3>1. /\ processes_'[p] = NoProcess
          /\ \A q \in Pid : q # p => /\ processes_'[q] = processes_[q]
                                     /\ exit_callbacks_'[q] = exit_callbacks_[q]
      BY <2>2, <1>b
    <3> QED
      BY <3>1, <2>3, <1>c DEF MainProcesses, Tracked
  <2>5. PendingOf(u)' = {} /\ PendingOf(u) = {} /\ u \notin ready /\ job.unit # u
    BY <2>2 DEF InHand, PendingOf
  <2>6. p \in MainProcesses(u)
    BY <2>4, <2>5 DEF InHand
  <2>7. restarts = {}
    <3>1. \A pr \in restarts : pr.unit_name = u
      BY <2>1, <2>6 DEF RestartsOf, MainProcesses
    <3> QED
      BY <3>1, <2>2, <2>5 DEF PendingOf
  <2> QED
    BY <2>1, <2>6, <2>7, <1>11, <1>a, FinalExit
<1>12. ASSUME NEW fd \in ListenFd, AcceptConnection(fd)
       PROVE  FALSE
  <2>1. PICK s \in Socket, v \in Unit, p \in Pid :
           /\ child[p] = "free"
           /\ processes_' = [processes_ EXCEPT ![p] = NewProcess(v, "no")]
           /\ exit_callbacks_' = [exit_callbacks_ EXCEPT ![p] = s]
    BY <1>12, AcceptStep
  <2>2. UNCHANGED <<ready, job, pending_restarts_>>
    BY <1>12 DEF AcceptConnection, TakeConnection
  <2>3. p \notin Tracked
    BY <2>1, <1>a DEF KillTargetsAreChildren
  <2>4. exit_callbacks_'[p] = s /\
        \A q \in Pid : q # p => /\ processes_'[q] = processes_[q]
                                /\ exit_callbacks_'[q] = exit_callbacks_[q]
    BY <2>1, <1>b
  <2>5. MainProcesses(u)' = MainProcesses(u)
    BY <2>3, <2>4, <1>c DEF MainProcesses, Tracked
  <2>6. PendingOf(u)' = PendingOf(u)
    BY <2>2 DEF PendingOf
  <2> QED
    BY <2>2, <2>5, <2>6, <1>d
<1>13. StopUnits => FALSE
  <2> SUFFICES ASSUME StopUnits PROVE FALSE
    OBVIOUS
  <2>1. \A q \in Pid : processes_'[q].unit_name = processes_[q].unit_name
    BY <1>b DEF StopUnits, TrackedProcess
  <2>2. UNCHANGED <<ready, job, exit_callbacks_, pending_restarts_>>
    BY DEF StopUnits
  <2>3. MainProcesses(u)' = MainProcesses(u) /\ PendingOf(u)' = PendingOf(u)
    BY <2>1, <2>2 DEF MainProcesses, PendingOf, Tracked
  <2> QED
    BY <2>2, <2>3, <1>d
<1>14. drain_pending_restarts => FALSE
  <2> SUFFICES ASSUME drain_pending_restarts PROVE FALSE
    OBVIOUS
  <2>1. PICK due : due = { pr \in pending_restarts_ : IsDue(pr) }
    OBVIOUS
  <2>2. /\ ready' = { pr.unit_name : pr \in due }
        /\ pending_restarts_' = pending_restarts_ \ due
        /\ pc = "restart" /\ UNCHANGED <<processes_, exit_callbacks_, job>>
    BY <2>1 DEF drain_pending_restarts, Remaining
  <2>3. ready = {} /\ job.unit # u
    BY <2>2, <1>g DEF ControlInv
  <2>4. MainProcesses(u)' = MainProcesses(u)
    BY <2>2 DEF MainProcesses, Tracked
  <2>5. PICK pr \in PendingOf(u) : TRUE
    BY <2>3, <2>4 DEF InHand
  <2>6. pr \in pending_restarts_ /\ pr.unit_name = u
    BY <2>5 DEF PendingOf
  <2>7. CASE pr \in due
    BY <2>2, <2>6, <2>7 DEF InHand
  <2>8. CASE pr \notin due
    BY <2>2, <2>6, <2>8 DEF InHand, PendingOf
  <2> QED
    BY <2>7, <2>8
<1>15. UNCHANGED vars => Same
  OBVIOUS
<1> HIDE DEF Same, Quiet
<1> QED
  BY <1>f, <1>1, <1>2, <1>3, <1>4, <1>5, <1>6, <1>7, <1>8, <1>9, <1>10, <1>11,
     <1>12, <1>13, <1>14, <1>15
  DEF Next, Environment, InitThread, Terminated

\* On its way from reap_children over pending_restarts_, the list of due
\* units and start_service back to a process, no unit gets lost: it is given
\* up only after a final exit or a failed start.
THEOREM NoUnitForgotten == Spec => RestartNotLost
<1>1. TablesInv /\ ControlInv /\ InstanceInv /\ RestartInv /\ PolicyInv /\ [Next]_vars
        => [\A u \in Unit : InHand(u) /\ ~InHand(u)' =>
              ExitIsFinal(u) \/ StartFails(u)]_vars
  BY InHandStep
<1>2. Spec => [][\A u \in Unit : InHand(u) /\ ~InHand(u)' =>
                   ExitIsFinal(u) \/ StartFails(u)]_vars
  BY <1>1, TablesInvariant, ControlInvariant, InstanceInvariant, RestartInvariant,
     PolicyInvariant, PTL
  DEF Spec
<1> QED
  BY <1>2 DEF RestartNotLost
================================================================================
