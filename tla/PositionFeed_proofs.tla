------------------------- MODULE PositionFeed_proofs -------------------------
(***************************************************************************)
(* The server's feed of test positions, for any number of Tomcat's threads,*)
(* starts, games and players, orderly or not: its types, and when a stop   *)
(* reaches what publishes.                                                 *)
(***************************************************************************)
EXTENDS PositionFeed, SequenceTheorems, FiniteSetTheorems, TLAPS

(* Timers are made one after the other, and the field holds the newest. *)
Newest == \A i \in Timers : state[i] = "unborn" <=> i > timer

(* A Timer that is over, or that nobody has made yet, has no task. *)
TasksAreLive == \A i \in Timers : tasks[i] # {} => state[i] = "live"

(* Only a start that overlaps another feed leaves a Timer behind that feeds *)
(* and that the field no longer holds.                                      *)
NoneLeftBehind == overlapped \/ \A i \in Timers : tasks[i] # {} => i = timer

FeedInv == TypeOK /\ Newest /\ TasksAreLive /\ NoneLeftBehind

Steps == {"idle", "readRed", "readBlue"} \union Teams
HandlerType == [pc : Steps, red : Seq(Names), blue : Seq(Names)]

----------------------------------------------------------------------------
(* What the definitions yield. *)

LEMMA SeqWithin ==
    ASSUME NEW S, NEW T, NEW s \in Seq(S), \A i \in DOMAIN s : s[i] \in T
    PROVE  s \in Seq(T)
<1>1. Len(s) \in Nat /\ DOMAIN s = 1..Len(s) /\ s \in [1..Len(s) -> S]
  BY SeqDef, LenProperties
<1>2. s \in [1..Len(s) -> T]
  BY <1>1
<1> QED
  BY <1>1, <1>2, SeqDef

LEMMA ListType ==
    ASSUME RosterAssumption, NEW g \in Games \union {NoGame}, NEW t \in Teams
    PROVE  List(g, t) \in Seq(Names)
<1>1. CASE g = NoGame
  BY <1>1, EmptySeq DEF List
<1>2. CASE g # NoGame
  <2>1. g \in Games /\ List(g, t) = Roster[g][t]
    BY <1>2 DEF List
  <2>2. Roster[g][t] \in Seq(STRING)
    BY <2>1 DEF RosterAssumption
  <2>3. \A i \in DOMAIN List(g, t) : List(g, t)[i] \in Members(g)
    BY DEF Members
  <2>4. Members(g) \subseteq Names
    BY <2>1 DEF Names
  <2> QED
    BY <2>1, <2>2, <2>3, <2>4, SeqWithin
<1> QED
  BY <1>1, <1>2

LEMMA StepsFit ==
    ASSUME TypeOK, NEW h \in Handlers
    PROVE  /\ handler[h] \in HandlerType
           /\ handler[h].pc \in Steps /\ handler[h].red \in Seq(Names)
           /\ handler[h].blue \in Seq(Names)
BY DEF TypeOK, HandlerType, Steps

(* The timers that are born are counted by the field. *)
LEMMA NextTimer ==
    ASSUME BoundAssumption, TypeOK, Newest
    PROVE  Cardinality({j \in Timers : state[j] # "unborn"}) = timer
<1>1. timer \in Nat /\ timer <= MaxTimers /\ MaxTimers \in Nat
  BY DEF TypeOK, Timers, NoTimer, BoundAssumption
<1>2. \A j : j \in Timers /\ state[j] # "unborn" <=> j \in 1..timer
  BY <1>1 DEF Newest, Timers
<1>3. {j \in Timers : state[j] # "unborn"} = 1..timer
  BY <1>2
<1>4. Cardinality(1..timer) = timer
  BY <1>1, FS_Interval
<1> QED
  BY <1>3, <1>4

LEMMA HandlerMoves ==
    ASSUME TypeOK, NEW h \in Handlers, NEW r \in HandlerType,
           handler' = [handler EXCEPT ![h] = r],
           timer' # NoTimer \/ r.pc = "idle", timer # NoTimer => timer' # NoTimer
    PROVE  /\ handler' \in [Handlers -> HandlerType]
           /\ \A k \in Handlers : ~At(k, "idle")' => timer' # NoTimer
<1>1. handler \in [Handlers -> HandlerType]
  BY DEF TypeOK, HandlerType, Steps
<1>2. handler' \in [Handlers -> HandlerType]
  BY <1>1
<1>3. \A k \in Handlers : handler'[k] = IF k = h THEN r ELSE handler[k]
  BY <1>1
<1>4. \A k \in Handlers : ~At(k, "idle")' => timer' # NoTimer
  BY <1>3 DEF At, TypeOK
<1> QED
  BY <1>2, <1>4

LEMMA IdleType == Idle \in HandlerType /\ Idle.pc = "idle"
<1>1. <<>> \in Seq(Names)
  BY EmptySeq
<1> QED
  BY <1>1 DEF Idle, HandlerType, Steps

----------------------------------------------------------------------------
(* The invariant holds at the start and is kept by every action. *)

LEMMA FeedInit ==
    ASSUME BoundAssumption, Init
    PROVE  FeedInv
<1>1. Idle \in HandlerType /\ Idle.pc = "idle"
  BY IdleType
<1>2. TypeOK
  <2>1. handler \in [Handlers -> HandlerType]
    BY <1>1 DEF Init
  <2>2. \A h \in Handlers : At(h, "idle")
    BY <1>1 DEF Init, At
  <2> QED
    BY <2>1, <2>2 DEF Init, TypeOK, HandlerType, Steps
<1>3. Newest /\ TasksAreLive /\ NoneLeftBehind
  BY DEF Init, Newest, TasksAreLive, NoneLeftBehind, Timers, NoTimer, BoundAssumption
<1> QED
  BY <1>2, <1>3 DEF FeedInv

LEMMA NewTimerKeeps ==
    ASSUME BoundAssumption, FeedInv, NEW h \in Handlers, NewTimer(h)
    PROVE  FeedInv'
<1> DEFINE i == timer + 1
           r == [handler[h] EXCEPT !.pc = "readRed"]
<1>1. /\ TypeOK /\ Newest /\ TasksAreLive
      /\ timer \in Nat /\ MaxTimers \in Nat
  BY DEF FeedInv, TypeOK, Timers, NoTimer, BoundAssumption
<1>2. /\ i \in Timers /\ timer' = i /\ state' = [state EXCEPT ![i] = "live"]
      /\ handler' = [handler EXCEPT ![h].pc = "readRed"]
      /\ overlapped' = (overlapped \/ Feeding # {} \/ Serving)
      /\ UNCHANGED <<game, tasks, connected, beat>>
  BY <1>1, NextTimer DEF NewTimer, Assign, Goto
<1>3. r \in HandlerType /\ handler' = [handler EXCEPT ![h] = r]
  BY <1>1, <1>2, StepsFit DEF HandlerType, Steps
<1>4. timer' # NoTimer
  BY <1>1, <1>2 DEF NoTimer
<1>5. /\ handler' \in [Handlers -> HandlerType]
      /\ \A k \in Handlers : ~At(k, "idle")' => timer' # NoTimer
  BY <1>1, <1>3, <1>4, HandlerMoves
<1>6. overlapped' \in BOOLEAN
  BY <1>1, <1>2 DEF TypeOK
<1>7. TypeOK'
  <2>1. state' \in [Timers -> {"unborn", "live", "over"}]
    BY <1>1, <1>2 DEF TypeOK
  <2> QED
    BY <1>1, <1>2, <1>5, <1>6, <2>1 DEF TypeOK, HandlerType, Steps, At
<1>8. \A j \in Timers : state'[j] = IF j = i THEN "live" ELSE state[j]
  BY <1>1, <1>2 DEF TypeOK
<1>9. Newest'
  BY <1>1, <1>2, <1>8 DEF Newest, Timers
<1>10. TasksAreLive'
  BY <1>1, <1>2, <1>8 DEF TasksAreLive
<1>11. NoneLeftBehind'
  BY <1>2 DEF NoneLeftBehind, Feeding
<1> QED
  BY <1>7, <1>9, <1>10, <1>11 DEF FeedInv

LEMMA ReadKeeps ==
    ASSUME RosterAssumption, FeedInv, NEW h \in Handlers, ReadRed(h) \/ ReadBlue(h)
    PROVE  FeedInv'
<1>1. TypeOK
  BY DEF FeedInv
<1>2. handler[h] \in HandlerType /\ timer # NoTimer
  BY <1>1, StepsFit DEF ReadRed, ReadBlue, At, TypeOK
<1>3. List(game, "red") \in Seq(Names) /\ List(game, "blue") \in Seq(Names)
  BY <1>1, ListType DEF TypeOK, Teams
<1>4. UNCHANGED <<game, timer, state, tasks, connected, beat, overlapped>>
  BY DEF ReadRed, ReadBlue
<1>5. PICK r \in HandlerType : handler' = [handler EXCEPT ![h] = r]
  <2>1. CASE ReadRed(h)
    <3> DEFINE r == [handler[h] EXCEPT !.pc = "readBlue", !.red = List(game, "red")]
    <3>1. r \in HandlerType
      BY <1>2, <1>3 DEF HandlerType, Steps
    <3>2. handler' = [handler EXCEPT ![h] = r]
      BY <2>1 DEF ReadRed
    <3> QED
      BY <3>1, <3>2
  <2>2. CASE ReadBlue(h)
    <3> DEFINE r == [handler[h] EXCEPT !.pc = "red", !.blue = List(game, "blue")]
    <3>1. r \in HandlerType
      BY <1>2, <1>3 DEF HandlerType, Steps, Teams
    <3>2. handler' = [handler EXCEPT ![h] = r]
      BY <2>2 DEF ReadBlue
    <3> QED
      BY <3>1, <3>2
  <2> QED
    BY <2>1, <2>2
<1>6. /\ handler' \in [Handlers -> HandlerType]
      /\ \A k \in Handlers : ~At(k, "idle")' => timer' # NoTimer
  BY <1>1, <1>2, <1>4, <1>5, HandlerMoves
<1>7. TypeOK'
  BY <1>1, <1>4, <1>6 DEF TypeOK, HandlerType, Steps, At
<1> QED
  BY <1>4, <1>7 DEF FeedInv, Newest, TasksAreLive, NoneLeftBehind

(* A handler's moves that leave every Timer and its tasks alone. *)
LEMMA MoveKeeps ==
    ASSUME FeedInv, NEW h \in Handlers, NEW r \in HandlerType,
           handler' = [handler EXCEPT ![h] = r], timer # NoTimer,
           UNCHANGED <<game, timer, state, tasks, connected, beat, overlapped>>
    PROVE  FeedInv'
<1>1. TypeOK
  BY DEF FeedInv
<1>2. /\ handler' \in [Handlers -> HandlerType]
      /\ \A k \in Handlers : ~At(k, "idle")' => timer' # NoTimer
  BY <1>1, HandlerMoves
<1>3. TypeOK'
  BY <1>1, <1>2 DEF TypeOK, HandlerType, Steps, At
<1> QED
  BY <1>3 DEF FeedInv, Newest, TasksAreLive, NoneLeftBehind

LEMMA ScheduleKeeps ==
    ASSUME FeedInv, NEW h \in Handlers, NEW t \in Teams, Schedule(h, t)
    PROVE  FeedInv'
<1>1. TypeOK /\ Newest /\ TasksAreLive /\ NoneLeftBehind
  BY DEF FeedInv
<1>2. /\ handler[h] \in HandlerType /\ timer \in Timers
      /\ handler[h][t] \in Seq(Names)
      /\ UNCHANGED <<game, timer, state, connected, beat, overlapped>>
  BY <1>1, StepsFit DEF Schedule, At, TypeOK, Teams
<1>3. Idle \in HandlerType
  BY IdleType
<1>4. timer # NoTimer
  BY <1>1, <1>2 DEF TypeOK, Schedule, At, Teams
<1>5. CASE handler[h][t] = <<>> \/ ~Accepts(timer)
  <2>1. UNCHANGED tasks
    BY <1>5 DEF Schedule
  <2>2. PICK r \in HandlerType : handler' = [handler EXCEPT ![h] = r]
    <3>1. CASE Answer(h)
      BY <1>3, <3>1 DEF Answer
    <3>2. CASE OnToBlue(h)
      <4> DEFINE r == [handler[h] EXCEPT !.pc = "blue"]
      <4>1. r \in HandlerType
        BY <1>2 DEF HandlerType, Steps, Teams
      <4>2. handler' = [handler EXCEPT ![h] = r]
        BY <3>2 DEF OnToBlue, Goto
      <4> QED
        BY <4>1, <4>2
    <3>3. Answer(h) \/ OnToBlue(h)
      BY <1>5 DEF Schedule
    <3> QED
      BY <3>1, <3>2, <3>3
  <2> QED
    BY <1>2, <1>4, <2>1, <2>2, MoveKeeps
<1>6. CASE handler[h][t] # <<>> /\ Accepts(timer)
  <2> DEFINE p == Head(handler[h][t])
             r == [handler[h] EXCEPT ![t] = Tail(handler[h][t])]
  <2>1. /\ tasks' = [tasks EXCEPT ![timer] = @ \union {p}]
        /\ handler' = [handler EXCEPT ![h][t] = Tail(@)]
    BY <1>6 DEF Schedule
  <2>2. p \in Names /\ Tail(handler[h][t]) \in Seq(Names)
    BY <1>2, <1>6, HeadTailProperties
  <2>3. r \in HandlerType
    BY <1>2, <2>2 DEF HandlerType, Teams
  <2>4. handler' = [handler EXCEPT ![h] = r]
    BY <2>1
  <2>5. /\ handler' \in [Handlers -> HandlerType]
        /\ \A k \in Handlers : ~At(k, "idle")' => timer' # NoTimer
    BY <1>1, <1>2, <1>4, <2>3, <2>4, HandlerMoves
  <2>6. tasks' \in [Timers -> SUBSET Names]
    BY <1>1, <1>2, <2>1, <2>2 DEF TypeOK
  <2>7. TypeOK'
    BY <1>1, <1>2, <2>5, <2>6 DEF TypeOK, HandlerType, Steps, At
  <2>8. \A i \in Timers : i # timer => tasks'[i] = tasks[i]
    BY <1>1, <2>1 DEF TypeOK
  <2>9. state[timer] = "live"
    BY <1>6 DEF Accepts
  <2>10. Newest' /\ TasksAreLive'
    BY <1>1, <1>2, <2>8, <2>9 DEF Newest, TasksAreLive
  <2>11. NoneLeftBehind'
    BY <1>1, <1>2, <2>8 DEF NoneLeftBehind
  <2> QED
    BY <2>7, <2>10, <2>11 DEF FeedInv
<1> QED
  BY <1>5, <1>6

LEMMA FilterKeeps ==
    ASSUME FeedInv, NEW h \in Handlers, FilterThrows(h)
    PROVE  FeedInv'
<1>1. timer # NoTimer
  BY DEF FilterThrows, FeedInv, TypeOK, At, Teams
<1>2. Idle \in HandlerType
  BY IdleType
<1> QED
  BY <1>1, <1>2, MoveKeeps DEF FilterThrows, Answer

(* The end of a Timer that has been made. *)
LEMMA EndsKeeps ==
    ASSUME FeedInv, NEW i \in Timers, Ends(i), state[i] # "unborn",
           UNCHANGED <<game, timer, handler, connected, overlapped>>,
           beat' \in BOOLEAN
    PROVE  FeedInv'
<1>1. TypeOK /\ Newest /\ TasksAreLive /\ NoneLeftBehind
  BY DEF FeedInv
<1>2. /\ state' \in [Timers -> {"unborn", "live", "over"}]
      /\ tasks' \in [Timers -> SUBSET Names]
      /\ \A j \in Timers : state'[j] = IF j = i THEN "over" ELSE state[j]
      /\ \A j \in Timers : tasks'[j] = IF j = i THEN {} ELSE tasks[j]
  BY <1>1 DEF Ends, TypeOK
<1>3. TypeOK'
  BY <1>1, <1>2 DEF TypeOK, At
<1>4. Newest' /\ TasksAreLive' /\ NoneLeftBehind'
  BY <1>1, <1>2 DEF Newest, TasksAreLive, NoneLeftBehind
<1> QED
  BY <1>3, <1>4 DEF FeedInv

LEMMA StopKeeps ==
    ASSUME BoundAssumption, FeedInv, NEW h \in Handlers, Stop(h)
    PROVE  FeedInv'
<1>1. TypeOK /\ Newest
  BY DEF FeedInv
<1>2. CASE timer = NoTimer
  <2>1. UNCHANGED vars
    BY <1>2 DEF Stop, vars
  <2> QED
    BY <2>1 DEF vars, FeedInv, TypeOK, Newest, TasksAreLive, NoneLeftBehind, At
<1>3. CASE timer # NoTimer
  <2>1. timer \in Timers /\ Ends(timer)
    BY <1>1, <1>3 DEF Stop, TypeOK
  <2>2. state[timer] # "unborn"
    BY <1>1, <2>1 DEF Newest, Timers, BoundAssumption
  <2>3. beat' \in BOOLEAN
    BY <1>1 DEF Stop, TypeOK
  <2> QED
    BY <2>1, <2>2, <2>3, EndsKeeps DEF Stop
<1> QED
  BY <1>2, <1>3

LEMMA PublishKeeps ==
    ASSUME FeedInv, NEW i \in Timers, NEW p \in Names, Publish(i, p)
    PROVE  FeedInv'
<1>1. CASE connected
  <2>1. beat' \in BOOLEAN /\ UNCHANGED <<game, timer, state, tasks, handler, connected, overlapped>>
    BY <1>1 DEF Publish
  <2> QED
    BY <2>1 DEF FeedInv, TypeOK, Newest, TasksAreLive, NoneLeftBehind, At
<1>2. CASE ~connected
  <2>1. Ends(i) /\ beat' \in BOOLEAN
    BY <1>2 DEF Publish, FeedInv, TypeOK
  <2>2. state[i] # "unborn"
    BY DEF Publish, FeedInv, TasksAreLive
  <2> QED
    BY <2>1, <2>2, EndsKeeps DEF Publish
<1> QED
  BY <1>1, <1>2

LEMMA OthersKeep ==
    ASSUME FeedInv, LoseBroker \/ ChangeGame \/ UNCHANGED vars
    PROVE  FeedInv'
<1>1. /\ game' \in Games \union {NoGame} /\ connected' \in BOOLEAN
      /\ UNCHANGED <<timer, state, tasks, handler, beat, overlapped>>
  BY DEF LoseBroker, ChangeGame, vars, FeedInv, TypeOK
<1> QED
  BY <1>1 DEF FeedInv, TypeOK, Newest, TasksAreLive, NoneLeftBehind, At

LEMMA FeedNext ==
    ASSUME RosterAssumption, BoundAssumption, FeedInv, [Next]_vars
    PROVE  FeedInv'
<1>1. CASE \E h \in Handlers : NewTimer(h)
  BY <1>1, NewTimerKeeps
<1>2. CASE \E h \in Handlers : ReadRed(h) \/ ReadBlue(h)
  BY <1>2, ReadKeeps
<1>3. CASE \E h \in Handlers : \E t \in Teams : Schedule(h, t)
  BY <1>3, ScheduleKeeps
<1>4. CASE \E h \in Handlers : FilterThrows(h)
  BY <1>4, FilterKeeps
<1>5. CASE \E h \in Handlers : Stop(h)
  BY <1>5, StopKeeps
<1>6. CASE \E i \in Timers, p \in Names : Publish(i, p)
  BY <1>6, PublishKeeps
<1>7. CASE LoseBroker \/ ChangeGame \/ UNCHANGED vars
  BY <1>7, OthersKeep
<1> QED
  BY <1>1, <1>2, <1>3, <1>4, <1>5, <1>6, <1>7 DEF Next, Handle

LEMMA FeedMeans == FeedInv => StopReachesFeed
  BY DEF FeedInv, TasksAreLive, NoneLeftBehind, StopReachesFeed, Feeding

----------------------------------------------------------------------------
(* Theorems *)

THEOREM FeedInvariant ==
    ASSUME RosterAssumption, BoundAssumption
    PROVE  Spec => []FeedInv
<1>1. Init => FeedInv
  BY FeedInit
<1>2. FeedInv /\ [Next]_vars => FeedInv'
  BY FeedNext
<1> QED
  BY <1>1, <1>2, PTL DEF Spec

(* Every variable keeps its type, and no start schedules before the field was    *)
(* assigned: TestServiceImpl's lateinit timer.                                   *)
THEOREM FeedTypes ==
    ASSUME RosterAssumption, BoundAssumption
    PROVE  Spec => []TypeOK
<1>1. FeedInv => TypeOK
  BY DEF FeedInv
<1> QED
  BY <1>1, FeedInvariant, PTL

(* Whatever the order of starts, stops, publications, changes of the game and the *)
(* loss of the broker: unless a start came while a feed was on or being started,  *)
(* what publishes is the field's timer, which the next stop cancels.              *)
THEOREM StopReaches ==
    ASSUME RosterAssumption, BoundAssumption
    PROVE  Spec => []StopReachesFeed
<1> QED
  BY FeedMeans, FeedInvariant, PTL
=============================================================================
