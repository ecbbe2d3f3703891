-------------------------- MODULE GameServer_proofs --------------------------
(***************************************************************************)
(* The server's lists, for any number of handlers, players and games: what *)
(* they may hold whatever the races inside them; what they hold as long as *)
(* no two handlers met in one; and that nobody is in both teams where      *)
(* phones and creators are orderly.                                        *)
(***************************************************************************)
EXTENDS GameServer, SequenceTheorems, FiniteSetTheorems, WellFoundedInduction, TLAPS

(* What a list of team t may hold. *)
Allowed(t) == {Null} \union SeedNames(t) \union {p \in Players : <<p, t>> \in asked}

Placed == \A g \in Games, t \in Teams : slots[g][t] \in Seq(Allowed(t))

JoinSteps == {"remove", "search", "shift", "last", "clear", "add", "load", "size", "store"}

(* The steps of a join belong to a request that was made, and what it adds    *)
(* goes to the team that was asked for.                                       *)
StepsKnown ==
    \A h \in Handlers :
        /\ thread[h].pc \in JoinSteps <=> thread[h].op = "join"
        /\ thread[h].op = "join" => <<thread[h].player, thread[h].team>> \in asked
        /\ thread[h].pc \in {"load", "size", "store"} => thread[h].part = thread[h].team

IInv == TypeOK /\ Placed /\ StepsKnown

----------------------------------------------------------------------------
(* The operations on a list's array keep it a sequence of what it may hold.   *)

LEMMA SlotType ==
    ASSUME NEW S, Null \in S, NEW a \in Seq(S), NEW i
    PROVE  Slot(a, i) \in S
BY DEF Slot

LEMMA SeqOfFunction ==
    ASSUME NEW S, NEW m \in Nat, NEW f \in [1..m -> S]
    PROVE  f \in Seq(S)
BY SeqDef

LEMMA LongerType ==
    ASSUME NEW S, NEW a \in Seq(S), NEW k \in Int
    PROVE  \E m \in Nat : Longer(a, k) = 1..m
<1>1. CASE k > Len(a)
  BY <1>1 DEF Longer
<1>2. CASE ~(k > Len(a))
  BY <1>2 DEF Longer
<1> QED
  BY <1>1, <1>2

LEMMA StoredType ==
    ASSUME NEW S, Null \in S, NEW a \in Seq(S), NEW i \in Int, NEW x \in S
    PROVE  Stored(a, i, x) \in Seq(S)
<1>1. PICK m \in Nat : Longer(a, i + 1) = 1..m
  BY LongerType
<1>2. \A j : Slot(a, j) \in S
  BY SlotType
<1>3. Stored(a, i, x) \in [1..m -> S]
  BY <1>1, <1>2 DEF Stored
<1> QED
  BY <1>3, SeqOfFunction

LEMMA ShiftedType ==
    ASSUME NEW S, Null \in S, NEW a \in Seq(S), NEW i \in Int, NEW k \in Int
    PROVE  Shifted(a, i, k) \in Seq(S)
<1>1. \A j : Slot(a, j) \in S
  BY SlotType
<1>2. Shifted(a, i, k) \in [1..Len(a) -> S]
  BY <1>1 DEF Shifted
<1> QED
  BY <1>2, SeqOfFunction

LEMMA ExtendedType ==
    ASSUME NEW S, Null \in S, NEW a \in Seq(S), NEW k \in Int, NEW new \in Seq(S)
    PROVE  Extended(a, k, new) \in Seq(S)
<1>1. PICK m \in Nat : Longer(a, k + Len(new)) = 1..m
  BY LongerType
<1>2. \A j : Slot(a, j) \in S
  BY SlotType
<1>3. \A j \in 1..m : j \in (k + 1)..(k + Len(new)) => new[j - k] \in S
  OBVIOUS
<1>4. Extended(a, k, new) \in [1..m -> S]
  BY <1>1, <1>2, <1>3 DEF Extended
<1> QED
  BY <1>4, SeqOfFunction

LEMMA ElementsType ==
    ASSUME NEW S, Null \in S, NEW a \in Seq(S), NEW k
    PROVE  Elements(a, k) \subseteq S
BY SlotType DEF Elements

----------------------------------------------------------------------------
(* The inductive step, by the kind of action. *)

(* What a handler's step may change of its own record. *)
LEMMA ThreadStep ==
    ASSUME TypeOK, NEW h \in Handlers, NEW r \in ThreadType,
           thread' = [thread EXCEPT ![h] = r]
    PROVE  /\ thread' \in [Handlers -> ThreadType]
           /\ thread'[h] = r
           /\ \A k \in Handlers \ {h} : thread'[k] = thread[k]
BY DEF TypeOK

LEMMA EntersType ==
    ASSUME TypeOK, NEW h \in Handlers, NEW g \in Games, NEW t \in Teams, NEW steps,
           Enters(h, g, t, steps)
    PROVE  raced' \in [Games -> [Teams -> BOOLEAN]]
BY DEF TypeOK, Enters

LEMMA IdleType == Idle \in ThreadType /\ NoView \in [Teams -> SUBSET (Names \union {Null})]
BY DEF Idle, Fresh, ThreadType, Steps, NoView, Teams

LEMMA PlacedStays ==
    ASSUME Placed, UNCHANGED slots, asked \subseteq asked'
    PROVE  Placed'
<1>1. ASSUME NEW g \in Games, NEW t \in Teams PROVE slots[g][t] \in Seq(Allowed(t)')
  <2>1. Allowed(t) \subseteq Allowed(t)'
    BY DEF Allowed
  <2> QED
    BY <2>1, SeqMonotonic DEF Placed
<1> QED
  BY <1>1 DEF Placed

(* What TypeOK and StepsKnown say of one handler. *)
RecordOK(r) ==
    /\ r \in ThreadType
    /\ r.pc \in Reading \union Writing \union {"load", "shown"} => r.at # NoGame
    /\ r.pc \in JoinSteps <=> r.op = "join"
    /\ r.op = "join" => r.player \in Players /\ <<r.player, r.team>> \in asked
    /\ r.pc \in {"load", "size", "store"} => r.part = r.team

LEMMA RecordsOK == ASSUME IInv, NEW h \in Handlers PROVE RecordOK(thread[h])
BY DEF IInv, TypeOK, StepsKnown, RecordOK

LEMMA IdleOK == RecordOK(Idle)
BY IdleType DEF RecordOK, Idle, Fresh, Reading, Writing, JoinSteps

(* A step that leaves the game alone keeps the invariant when the handler's    *)
(* new record and what it writes are in order.                                 *)
LEMMA HandlerStep ==
    ASSUME IInv, NEW h \in Handlers, NEW r, RecordOK(r),
           thread' = [thread EXCEPT ![h] = r],
           UNCHANGED <<game, created, asked>>,
           size' \in [Games -> [Teams -> Int]],
           slots' \in [Games -> [Teams -> Seq(Names \union {Null})]], Placed',
           button' \in [Players -> Teams \union {None}],
           raced' \in [Games -> [Teams -> BOOLEAN]],
           last' \in [Games -> [Players -> Teams \union {None}]],
           owed' \in [Handlers -> SUBSET (Players \X Teams)]
    PROVE  IInv'
<1> USE DEF IInv
<1>1. r \in ThreadType
  BY DEF RecordOK
<1>2. TypeOK'
  BY <1>1, ThreadStep DEF TypeOK, RecordOK
<1>3. StepsKnown'
  BY <1>1, ThreadStep DEF StepsKnown, RecordOK
<1> QED
  BY <1>2, <1>3

LEMMA AnswerStep ==
    ASSUME IInv, NEW h \in Handlers, Answer(h)
    PROVE  /\ thread' = [thread EXCEPT ![h] = Idle]
           /\ button' \in [Players -> Teams \union {None}]
<1>1. thread[h] \in ThreadType /\ (thread[h].op = "join" => thread[h].player \in Players)
  BY RecordsOK DEF RecordOK
<1> QED
  BY <1>1 DEF Answer, IInv, TypeOK, ThreadType

(* A list whose array is replaced by one that holds what it may. *)
LEMMA PlacedStep ==
    ASSUME IInv, NEW g \in Games, NEW t \in Teams, NEW a \in Seq(Allowed(t)),
           slots' = [slots EXCEPT ![g][t] = a], UNCHANGED asked
    PROVE  /\ slots' \in [Games -> [Teams -> Seq(Names \union {Null})]]
           /\ Placed'
<1>1. Allowed(t) \subseteq Names \union {Null}
  BY DEF Allowed, Names, Teams
<1>2. a \in Seq(Names \union {Null})
  BY <1>1, SeqMonotonic
<1>3. slots' \in [Games -> [Teams -> Seq(Names \union {Null})]]
  BY <1>2 DEF IInv, TypeOK
<1>4. ASSUME NEW g2 \in Games, NEW t2 \in Teams PROVE slots'[g2][t2] \in Seq(Allowed(t2)')
  <2>1. Allowed(t2)' = Allowed(t2)
    BY DEF Allowed
  <2>2. slots'[g2][t2] = IF g2 = g /\ t2 = t THEN a ELSE slots[g2][t2]
    BY DEF IInv, TypeOK
  <2> QED
    BY <2>1, <2>2 DEF IInv, Placed
<1> QED
  BY <1>3, <1>4 DEF Placed

LEMMA Requesting ==
    ASSUME IInv, NEW h \in Handlers, Requests(h)
    PROVE  IInv'
<1> USE DEF IInv
<1>1. ASSUME NEW p \in Players, NEW t \in Teams, ReceiveJoin(h, p, t) PROVE IInv'
  <2>1. Fresh("remove", "join", p, t) \in ThreadType
    BY IdleType DEF Fresh, ThreadType, Steps, Teams
  <2>2. TypeOK'
    BY <1>1, <2>1, ThreadStep DEF ReceiveJoin, Receive, TypeOK, Fresh, Reading, Writing
  <2>3. Placed'
    BY <1>1, PlacedStays DEF ReceiveJoin, Receive
  <2>4. StepsKnown'
    BY <1>1, <2>1, ThreadStep DEF ReceiveJoin, Receive, StepsKnown, Fresh, JoinSteps
  <2> QED
    BY <2>2, <2>3, <2>4
<1>2. CASE ReceiveCreate(h) \/ ReceiveDelete(h)
  <2>1. PICK r \in {Fresh("seedRed", "create", Null, "red"), Idle} : thread' = [thread EXCEPT ![h] = r]
    BY <1>2 DEF ReceiveCreate, ReceiveDelete, Receive, Idle
  <2>2. r \in ThreadType
    BY IdleType DEF Fresh, ThreadType, Steps, Teams
  <2>3. r.pc \in {"seedRed", "idle"} /\ r.op # "join"
    BY DEF Fresh, Idle
  <2>4. game' \in Games \union {NoGame} /\ created' \in 0..MaxGames
    BY <1>2, BoundsAssumption DEF ReceiveCreate, ReceiveDelete, TypeOK, Games, NoGame
  <2>5. UNCHANGED <<size, slots, button, asked, raced, last, owed>>
    BY <1>2 DEF ReceiveCreate, ReceiveDelete, Receive
  <2>6. TypeOK'
    BY <2>1, <2>2, <2>3, <2>4, <2>5, ThreadStep DEF TypeOK, Reading, Writing
  <2>7. StepsKnown'
    BY <2>1, <2>2, <2>3, <2>5, ThreadStep DEF StepsKnown, JoinSteps
  <2> QED
    BY <2>5, <2>6, <2>7, PlacedStays
<1>3. CASE ReceiveGet(h)
  <2> DEFINE r == [thread[h] EXCEPT !.pc = "show", !.at = game, !.part = "red",
                                    !.n = size[game]["red"]]
  <2>1. CASE game = NoGame
    BY <1>3, <2>1, PlacedStays DEF ReceiveGet, heap, TypeOK, StepsKnown
  <2>2. CASE game # NoGame
    <3>1. game \in Games /\ "red" \in Teams
      BY <2>2 DEF TypeOK, Teams
    <3>2. r \in ThreadType
      <4>1. thread[h] \in ThreadType /\ size[game]["red"] \in Int
        BY <3>1 DEF TypeOK
      <4> QED
        BY <3>1, <4>1 DEF ThreadType, Steps
    <3>3. thread' = [thread EXCEPT ![h] = r]
      BY <1>3, <2>2 DEF ReceiveGet, GotoList, TypeOK
    <3>4. raced' \in [Games -> [Teams -> BOOLEAN]]
      BY <1>3, <2>2, <3>1, EntersType DEF ReceiveGet, EntersToRead
    <3>5. owed' \in [Handlers -> SUBSET (Players \X Teams)]
      <4> DEFINE shown == {m \in Players \X Teams : last[game][m[1]] = m[2]}
      <4>1. shown \in SUBSET (Players \X Teams)
        OBVIOUS
      <4>2. owed' = [owed EXCEPT ![h] = shown]
        BY <1>3, <2>2 DEF ReceiveGet
      <4>3. owed \in [Handlers -> SUBSET (Players \X Teams)]
        BY DEF TypeOK
      <4> HIDE DEF shown
      <4> QED
        BY <4>1, <4>2, <4>3
    <3>6. UNCHANGED <<heap, button, asked, last>>
      BY <1>3 DEF ReceiveGet
    <3>0. thread[h].op # "join"
      BY <1>3 DEF ReceiveGet, At, StepsKnown, JoinSteps
    <3>7. thread[h] \in ThreadType /\ r.pc = "show" /\ r.at # NoGame /\ r.op = thread[h].op
          /\ r.player = thread[h].player /\ r.team = thread[h].team
      BY <2>2 DEF TypeOK, ThreadType
    <3>8. TypeOK'
      BY <3>2, <3>3, <3>4, <3>5, <3>6, <3>7, ThreadStep DEF TypeOK, heap
    <3>9. StepsKnown'
      BY <3>0, <3>2, <3>3, <3>6, <3>7, ThreadStep DEF StepsKnown, JoinSteps
    <3> QED
      BY <3>6, <3>8, <3>9, PlacedStays DEF heap
  <2> QED
    BY <2>1, <2>2
<1> QED
  BY <1>1, <1>2, <1>3 DEF Requests
(* The record after a step that moves to another list, or loads an index. *)
LEMMA MovedType ==
    ASSUME NEW R \in ThreadType, NEW s \in Steps, NEW g \in Games \union {NoGame},
           NEW t \in Teams, NEW k \in Int
    PROVE  [R EXCEPT !.pc = s, !.at = g, !.part = t, !.n = k] \in ThreadType
BY DEF ThreadType

LEMMA LoadedType ==
    ASSUME NEW R \in ThreadType, NEW s \in Steps, NEW k \in Int
    PROVE  /\ [R EXCEPT !.pc = s, !.n = k] \in ThreadType
           /\ [R EXCEPT !.pc = s] \in ThreadType
BY DEF ThreadType

LEMMA JoinBegins ==
    ASSUME IInv, NEW h \in Handlers, DerefRemove(h) \/ Search(h)
    PROVE  IInv'
<1> DEFINE R == thread[h]
<1>1. RecordOK(R) /\ R \in ThreadType
  BY RecordsOK DEF RecordOK
<1>2. UNCHANGED heap /\ UNCHANGED <<button, asked>>
  BY DEF DerefRemove, Search
<1>3. /\ size' \in [Games -> [Teams -> Int]]
      /\ slots' \in [Games -> [Teams -> Seq(Names \union {Null})]] /\ Placed'
      /\ button' \in [Players -> Teams \union {None}]
  BY <1>2, PlacedStays DEF IInv, TypeOK, heap
<1>4. CASE DerefRemove(h)
  <2> DEFINE t == Other[R.team]
  <2>1. t \in Teams /\ R.op = "join"
    BY <1>1, <1>4 DEF RecordOK, ThreadType, Teams, Other, DerefRemove, At, JoinSteps
  <2>2. UNCHANGED <<last, owed>>
    BY <1>4 DEF DerefRemove
  <2>3. CASE game = NoGame
    <3> DEFINE r == [R EXCEPT !.pc = "add"]
    <3>1. thread' = [thread EXCEPT ![h] = r] /\ UNCHANGED raced
      BY <1>4, <2>3 DEF DerefRemove, Goto, IInv, TypeOK
    <3>2. RecordOK(r)
      BY <1>1, <2>1 DEF RecordOK, ThreadType, Steps, Reading, Writing, JoinSteps
    <3> HIDE DEF r
    <3> QED
      BY <1>2, <1>3, <2>2, <3>1, <3>2, HandlerStep DEF heap, IInv, TypeOK
  <2>4. CASE game # NoGame
    <3> DEFINE r == [R EXCEPT !.pc = "search", !.at = game, !.part = t, !.n = 0]
    <3>1. thread' = [thread EXCEPT ![h] = r]
      BY <1>4, <2>4 DEF DerefRemove, GotoList, IInv, TypeOK
    <3>2. game \in Games
      BY <2>4 DEF IInv, TypeOK
    <3>3. RecordOK(r)
      <4>3. "search" \in Steps /\ 0 \in Int /\ game \in Games \union {NoGame}
        BY <3>2 DEF Steps
      <4>1. r \in ThreadType
        BY <1>1, <2>1, <4>3, MovedType
      <4>2. /\ r.pc = "search" /\ r.at = game /\ r.op = "join"
            /\ r.player = R.player /\ r.team = R.team
        BY <1>1, <2>1 DEF ThreadType
      <4> QED
        BY <1>1, <2>1, <2>4, <4>1, <4>2 DEF RecordOK, JoinSteps
    <3>4. raced' \in [Games -> [Teams -> BOOLEAN]]
      BY <1>4, <2>1, <2>4, <3>2, EntersType DEF DerefRemove, EntersToRead, IInv
    <3> HIDE DEF r
    <3> QED
      BY <1>2, <1>3, <2>2, <3>1, <3>3, <3>4, HandlerStep DEF heap, IInv, TypeOK
  <2> QED
    BY <2>3, <2>4
<1>5. CASE Search(h)
  <2> DEFINE g == R.at
             t == R.part
             found == Found(Array(h), Load(h), R.player)
  <2>1. g \in Games /\ t \in Teams /\ R.op = "join" /\ R.player \in Players
    BY <1>1, <1>5 DEF RecordOK, ThreadType, Search, At, Reading, JoinSteps, NoGame
  <2>2. last' \in [Games -> [Players -> Teams \union {None}]]
    BY <1>5, <2>1 DEF Search, IInv, TypeOK
  <2>3. owed' \in [Handlers -> SUBSET (Players \X Teams)]
    <3>1. \A k \in Handlers : owed[k] \in SUBSET (Players \X Teams)
      BY DEF IInv, TypeOK
    <3> QED
      BY <1>5, <3>1 DEF Search
  <2>4. CASE found = {}
    <3> DEFINE r == [R EXCEPT !.pc = "add"]
    <3>1. thread' = [thread EXCEPT ![h] = r] /\ UNCHANGED raced
      BY <1>5, <2>4 DEF Search, Goto, IInv, TypeOK
    <3>2. RecordOK(r)
      BY <1>1, <2>1 DEF RecordOK, ThreadType, Steps, Reading, Writing, JoinSteps
    <3> HIDE DEF r
    <3> QED
      BY <1>2, <1>3, <2>2, <2>3, <3>1, <3>2, HandlerStep DEF heap, IInv, TypeOK
  <2>5. CASE found # {}
    <3>1. PICK i \in found : GotoWith(h, "shift", i - 1)
      BY <1>5, <2>5 DEF Search
    <3> DEFINE r == [R EXCEPT !.pc = "shift", !.n = i - 1]
    <3>2. i \in Int
      BY <3>1 DEF Found
    <3>3. thread' = [thread EXCEPT ![h] = r]
      BY <3>1 DEF GotoWith, IInv, TypeOK
    <3>4. RecordOK(r)
      <4>1. i - 1 \in Int /\ "shift" \in Steps
        BY <3>2 DEF Steps
      <4>4. r \in ThreadType
        BY <1>1, <4>1, LoadedType
      <4>2. /\ r.pc = "shift" /\ r.at = g /\ r.op = "join"
            /\ r.player = R.player /\ r.team = R.team
        BY <1>1, <2>1 DEF ThreadType
      <4>3. g # NoGame
        BY <2>1 DEF NoGame, Games
      <4> QED
        BY <1>1, <2>1, <4>2, <4>3, <4>4 DEF RecordOK, JoinSteps
    <3>5. raced' \in [Games -> [Teams -> BOOLEAN]]
      BY <1>5, <2>1, <2>5, EntersType DEF Search, EntersToWrite, IInv
    <3> HIDE DEF r
    <3> QED
      BY <1>2, <1>3, <2>2, <2>3, <3>3, <3>4, <3>5, HandlerStep DEF heap, IInv, TypeOK
  <2> QED
    BY <2>4, <2>5
<1> QED
  BY <1>4, <1>5
LEMMA OnList ==
    ASSUME IInv, NEW h \in Handlers, thread[h].pc \in Reading \union Writing \union {"load", "shown"}
    PROVE  /\ thread[h].at \in Games /\ thread[h].part \in Teams
           /\ Load(h) \in Int
           /\ Array(h) \in Seq(Allowed(thread[h].part))
           /\ \A t \in Teams : Null \in Allowed(t)
<1>1. thread[h].at \in Games /\ thread[h].part \in Teams
  BY RecordsOK DEF RecordOK, ThreadType
<1> QED
  BY <1>1 DEF Load, Array, IInv, TypeOK, Placed, Allowed

(* The record of a join after a step inside a list. *)
LEMMA JoinRecord ==
    ASSUME IInv, NEW h \in Handlers, thread[h].op = "join",
           thread[h].at # NoGame, NEW k \in Int, NEW s \in JoinSteps,
           s \in {"load", "size", "store"} => thread[h].part = thread[h].team
    PROVE  /\ RecordOK([thread[h] EXCEPT !.pc = s, !.n = k])
           /\ RecordOK([thread[h] EXCEPT !.pc = s])
<1>1. RecordOK(thread[h]) /\ thread[h] \in ThreadType
  BY RecordsOK DEF RecordOK
<1>2. s \in Steps
  BY DEF JoinSteps, Steps
<1>3. /\ [thread[h] EXCEPT !.pc = s, !.n = k] \in ThreadType
      /\ [thread[h] EXCEPT !.pc = s] \in ThreadType
  BY <1>1, <1>2, LoadedType
<1>4. \A r \in ThreadType :
        /\ r.pc = s /\ r.op = thread[h].op /\ r.at = thread[h].at
        /\ r.player = thread[h].player /\ r.team = thread[h].team /\ r.part = thread[h].part
        => RecordOK(r)
  BY <1>1 DEF RecordOK
<1> QED
  BY <1>1, <1>3, <1>4 DEF ThreadType

LEMMA JoinRemoves ==
    ASSUME IInv, NEW h \in Handlers, Shift(h) \/ LoadLast(h) \/ Clear(h)
    PROVE  IInv'
<1> DEFINE R == thread[h]
           g == R.at
           t == R.part
<1>1. R.pc \in Writing /\ R.pc \in JoinSteps
  BY DEF Shift, LoadLast, Clear, At, Writing, JoinSteps
<1>2. RecordOK(R) /\ R \in ThreadType /\ R.op = "join" /\ R.n \in Int /\ g # NoGame
  BY <1>1, RecordsOK DEF RecordOK, ThreadType
<1>3. /\ g \in Games /\ t \in Teams /\ Load(h) \in Int
      /\ Array(h) \in Seq(Allowed(t)) /\ Null \in Allowed(t)
  BY <1>1, OnList
<1>4. UNCHANGED <<game, created, asked, raced, last, owed>>
  BY DEF Shift, LoadLast, Clear, heap
<1>5. CASE Shift(h)
  <2>1. Shifted(Array(h), R.n, Load(h)) \in Seq(Allowed(t))
    BY <1>2, <1>3, ShiftedType
  <2>2. Placed' /\ slots' \in [Games -> [Teams -> Seq(Names \union {Null})]]
    BY <1>3, <1>4, <1>5, <2>1, PlacedStep DEF Shift, SetArray
  <2>3. RecordOK([R EXCEPT !.pc = "last"])
    BY <1>2, JoinRecord DEF JoinSteps
  <2>4. thread' = [thread EXCEPT ![h] = [R EXCEPT !.pc = "last"]]
    BY <1>5 DEF Shift, Goto, IInv, TypeOK
  <2>5. UNCHANGED <<size, button>>
    BY <1>5 DEF Shift
  <2> QED
    BY <1>4, <2>2, <2>3, <2>4, <2>5, HandlerStep DEF IInv, TypeOK
<1>6. CASE LoadLast(h)
  <2> DEFINE r == [R EXCEPT !.pc = "clear", !.n = Load(h) - 1]
  <2>1. Load(h) - 1 \in Int
    BY <1>3
  <2>2. RecordOK(r)
    BY <1>2, <2>1, JoinRecord DEF JoinSteps
  <2>3. thread' = [thread EXCEPT ![h] = r]
    BY <1>6 DEF LoadLast, GotoWith, IInv, TypeOK
  <2>4. UNCHANGED <<size, slots, button>>
    BY <1>6 DEF LoadLast, heap
  <2> HIDE DEF r
  <2> QED
    BY <1>4, <2>2, <2>3, <2>4, HandlerStep, PlacedStays DEF IInv, TypeOK
<1>7. CASE Clear(h)
  <2>1. size' \in [Games -> [Teams -> Int]]
    BY <1>2, <1>3, <1>7 DEF Clear, SetSize, IInv, TypeOK
  <2>2. CASE R.n < 0
    <3>1. Answer(h) /\ UNCHANGED slots
      BY <1>7, <2>2 DEF Clear
    <3> QED
      BY <1>4, <2>1, <3>1, AnswerStep, IdleOK, HandlerStep, PlacedStays DEF IInv, TypeOK
  <2>3. CASE ~(R.n < 0)
    <3>1. Stored(Array(h), R.n, Null) \in Seq(Allowed(t))
      BY <1>2, <1>3, StoredType
    <3>2. Placed' /\ slots' \in [Games -> [Teams -> Seq(Names \union {Null})]]
      BY <1>3, <1>4, <1>7, <2>3, <3>1, PlacedStep DEF Clear, SetArray
    <3>3. RecordOK([R EXCEPT !.pc = "add"])
      BY <1>2, JoinRecord DEF JoinSteps
    <3>4. thread' = [thread EXCEPT ![h] = [R EXCEPT !.pc = "add"]] /\ UNCHANGED button
      BY <1>7, <2>3 DEF Clear, Goto, IInv, TypeOK
    <3> QED
      BY <1>4, <2>1, <3>2, <3>3, <3>4, HandlerStep DEF IInv, TypeOK
  <2> QED
    BY <2>2, <2>3
<1> QED
  BY <1>5, <1>6, <1>7

LEMMA JoinAdds ==
    ASSUME IInv, NEW h \in Handlers, DerefAdd(h) \/ LoadSize(h) \/ StoreSize(h) \/ Store(h)
    PROVE  IInv'
<1> DEFINE R == thread[h]
           g == R.at
           t == R.part
<1>1. R.pc \in JoinSteps
  BY DEF DerefAdd, LoadSize, StoreSize, Store, At, JoinSteps
<1>2. RecordOK(R) /\ R \in ThreadType /\ R.op = "join" /\ R.n \in Int /\ R.team \in Teams
      /\ R.player \in Players /\ <<R.player, R.team>> \in asked
  BY <1>1, RecordsOK DEF RecordOK, ThreadType
<1>3. UNCHANGED <<game, created, asked, owed>>
  BY DEF DerefAdd, LoadSize, StoreSize, Store, heap
<1>4. CASE DerefAdd(h)
  <2>1. UNCHANGED <<size, slots, raced, last>>
    BY <1>4 DEF DerefAdd, heap
  <2>2. CASE game = NoGame
    <3>1. Answer(h)
      BY <1>4, <2>2 DEF DerefAdd
    <3> QED
      BY <1>3, <2>1, <3>1, AnswerStep, IdleOK, HandlerStep, PlacedStays DEF IInv, TypeOK
  <2>3. CASE game # NoGame
    <3> DEFINE r == [R EXCEPT !.pc = "load", !.at = game, !.part = R.team, !.n = 0]
    <3>1. thread' = [thread EXCEPT ![h] = r] /\ UNCHANGED button
      BY <1>4, <2>3 DEF DerefAdd, GotoList, IInv, TypeOK
    <3>2. game \in Games \union {NoGame} /\ "load" \in Steps /\ 0 \in Int
      BY DEF IInv, TypeOK, Steps
    <3>3. r \in ThreadType
      BY <1>2, <3>2, MovedType
    <3>4. /\ r.pc = "load" /\ r.at = game /\ r.op = "join" /\ r.part = r.team
          /\ r.player = R.player /\ r.team = R.team
      BY <1>2 DEF ThreadType
    <3>5. RecordOK(r)
      BY <1>2, <2>3, <3>3, <3>4 DEF RecordOK, JoinSteps
    <3> HIDE DEF r
    <3> QED
      BY <1>3, <2>1, <3>1, <3>5, HandlerStep, PlacedStays DEF IInv, TypeOK
  <2> QED
    BY <2>2, <2>3
<1>5. ASSUME R.pc \in {"load", "size", "store"}
      PROVE  /\ g \in Games /\ g # NoGame /\ t = R.team /\ t \in Teams /\ Load(h) \in Int
             /\ Array(h) \in Seq(Allowed(t)) /\ Null \in Allowed(t)
  <2>1. R.pc \in Reading \union Writing \union {"load", "shown"}
    BY <1>5 DEF Writing
  <2> QED
    BY <1>2, <1>5, <2>1, OnList DEF RecordOK
<1>6. CASE LoadSize(h)
  <2> DEFINE r == [R EXCEPT !.pc = "size", !.n = Load(h)]
  <2>1. R.pc = "load"
    BY <1>6 DEF LoadSize, At
  <2>2. RecordOK(r)
    BY <1>2, <1>5, <2>1, JoinRecord DEF JoinSteps
  <2>3. thread' = [thread EXCEPT ![h] = r]
    BY <1>6 DEF LoadSize, GotoWith, IInv, TypeOK
  <2>4. raced' \in [Games -> [Teams -> BOOLEAN]]
    BY <1>5, <1>6, <2>1, EntersType DEF LoadSize, EntersToWrite, IInv
  <2>5. UNCHANGED <<size, slots, button, last>>
    BY <1>6 DEF LoadSize, heap
  <2> HIDE DEF r
  <2> QED
    BY <1>3, <2>2, <2>3, <2>4, <2>5, HandlerStep, PlacedStays DEF IInv, TypeOK
<1>7. CASE StoreSize(h)
  <2>1. R.pc = "size"
    BY <1>7 DEF StoreSize, At
  <2>2. RecordOK([R EXCEPT !.pc = "store"])
    BY <1>2, <1>5, <2>1, JoinRecord DEF JoinSteps
  <2>3. thread' = [thread EXCEPT ![h] = [R EXCEPT !.pc = "store"]]
    BY <1>7 DEF StoreSize, Goto, IInv, TypeOK
  <2>4. size' \in [Games -> [Teams -> Int]]
    BY <1>2, <1>5, <1>7, <2>1 DEF StoreSize, SetSize, IInv, TypeOK
  <2>5. UNCHANGED <<slots, button, raced, last>>
    BY <1>7 DEF StoreSize
  <2> QED
    BY <1>3, <2>2, <2>3, <2>4, <2>5, HandlerStep, PlacedStays DEF IInv, TypeOK
<1>8. CASE Store(h)
  <2>1. R.pc = "store" /\ Answer(h) /\ UNCHANGED <<size, raced>>
    BY <1>8 DEF Store, At
  <2>2. CASE R.n < 0
    <3>1. UNCHANGED <<slots, last>>
      BY <1>8, <2>2 DEF Store
    <3> QED
      BY <1>3, <2>1, <3>1, AnswerStep, IdleOK, HandlerStep, PlacedStays DEF IInv, TypeOK
  <2>3. CASE ~(R.n < 0)
    <3>1. R.player \in Allowed(t)
      BY <1>2, <1>5, <2>1 DEF Allowed
    <3>2. Stored(Array(h), R.n, R.player) \in Seq(Allowed(t))
      BY <1>2, <1>5, <2>1, <3>1, StoredType
    <3>3. Placed' /\ slots' \in [Games -> [Teams -> Seq(Names \union {Null})]]
      BY <1>3, <1>5, <1>8, <2>1, <2>3, <3>2, PlacedStep DEF Store, SetArray
    <3>4. last' \in [Games -> [Players -> Teams \union {None}]]
      <4>1. last' = [last EXCEPT ![g][R.player] = R.team]
        BY <1>8, <2>3 DEF Store
      <4>2. last \in [Games -> [Players -> Teams \union {None}]]
        BY DEF IInv, TypeOK
      <4> QED
        BY <1>2, <1>5, <2>1, <4>1, <4>2
    <3> QED
      BY <1>3, <2>1, <3>3, <3>4, AnswerStep, IdleOK, HandlerStep DEF IInv, TypeOK
  <2> QED
    BY <2>2, <2>3
<1> QED
  BY <1>4, <1>6, <1>7, <1>8
(* A handler that is in no list and in no join. *)
LEMMA PlainRecord ==
    ASSUME NEW r \in ThreadType, r.op # "join", r.pc \notin JoinSteps,
           r.pc \in {"grow", "show", "shown"} => r.at # NoGame
    PROVE  RecordOK(r)
BY DEF RecordOK, Reading, Writing, JoinSteps

LEMMA AfterSeedStep ==
    ASSUME IInv, NEW h \in Handlers, NEW t \in Teams, AfterSeed(h, t), thread[h].op # "join"
    PROVE  \E r : RecordOK(r) /\ thread' = [thread EXCEPT ![h] = r]
<1>1. thread[h] \in ThreadType
  BY DEF IInv, TypeOK
<1>2. CASE t = "red"
  <2> DEFINE r == [thread[h] EXCEPT !.pc = "seedBlue"]
  <2>1. "seedBlue" \in Steps /\ 0 \in Int
    BY DEF Steps
  <2>2. r \in ThreadType
    BY <1>1, <2>1, LoadedType
  <2>3. r.pc = "seedBlue" /\ r.op = thread[h].op
    BY <1>1 DEF ThreadType
  <2>4. RecordOK(r)
    BY <2>2, <2>3, PlainRecord DEF JoinSteps
  <2>5. thread' = [thread EXCEPT ![h] = r]
    BY <1>2 DEF AfterSeed, Goto, IInv, TypeOK
  <2> QED
    BY <2>4, <2>5
<1>3. CASE t # "red"
  BY <1>3, IdleOK DEF AfterSeed
<1> QED
  BY <1>2, <1>3

LEMMA Seeding ==
    ASSUME IInv, NEW h \in Handlers, (\E t \in Teams : Seed(h, t)) \/ Grow(h)
    PROVE  IInv'
<1> DEFINE R == thread[h]
<1>1. R \in ThreadType /\ RecordOK(R)
  BY RecordsOK DEF RecordOK
<1>2. CASE \E t \in Teams : Seed(h, t)
  <2>1. PICK t \in Teams : Seed(h, t)
    BY <1>2
  <2>2. UNCHANGED <<game, created, size, button, asked, last, owed>>
    BY <2>1 DEF Seed
  <2>3. R.op # "join"
    BY <1>1, <2>1 DEF Seed, At, SeedStep, RecordOK, JoinSteps, Teams
  <2>4. CASE game = NoGame
    <3>1. AfterSeed(h, t) /\ UNCHANGED <<slots, raced>>
      BY <2>1, <2>4 DEF Seed
    <3>2. PICK r : RecordOK(r) /\ thread' = [thread EXCEPT ![h] = r]
      BY <2>3, <3>1, AfterSeedStep
    <3> QED
      BY <2>2, <3>1, <3>2, HandlerStep, PlacedStays DEF IInv, TypeOK
  <2>5. CASE game # NoGame
    <3> DEFINE r == [R EXCEPT !.pc = "grow", !.at = game, !.part = t, !.n = 0]
    <3>1. thread' = [thread EXCEPT ![h] = r]
      BY <2>1, <2>5 DEF Seed, GotoList, IInv, TypeOK
    <3>2. game \in Games
      BY <2>5 DEF IInv, TypeOK
    <3>3. RecordOK(r)
      <4>1. game \in Games \union {NoGame} /\ "grow" \in Steps /\ 0 \in Int
        BY <3>2 DEF Steps
      <4>2. r \in ThreadType
        BY <1>1, <4>1, MovedType
      <4>3. r.pc = "grow" /\ r.at = game /\ r.op = R.op
        BY <1>1 DEF ThreadType
      <4> QED
        BY <2>3, <2>5, <4>2, <4>3, PlainRecord DEF JoinSteps
    <3>4. raced' \in [Games -> [Teams -> BOOLEAN]]
      BY <2>1, <2>5, <3>2, EntersType DEF Seed, EntersToWrite, IInv
    <3>5. Placed' /\ slots' \in [Games -> [Teams -> Seq(Names \union {Null})]]
      <4> DEFINE a == Extended(slots[game][t], size[game][t], Seeds[t])
      <4>1. Seeds[t] \in Seq(Allowed(t))
        <5>1. Seeds[t] \in Seq(STRING)
          BY SeedsAssumption
        <5>2. Seeds[t] \in [1..Len(Seeds[t]) -> Allowed(t)] /\ Len(Seeds[t]) \in Nat
          BY <5>1 DEF Allowed, SeedNames
        <5> QED
          BY <5>2, SeqOfFunction
      <4>2. slots[game][t] \in Seq(Allowed(t)) /\ size[game][t] \in Int /\ Null \in Allowed(t)
        BY <3>2 DEF IInv, TypeOK, Placed, Allowed
      <4>3. a \in Seq(Allowed(t))
        BY <4>1, <4>2, ExtendedType
      <4>4. slots' = [slots EXCEPT ![game][t] = a]
        BY <2>1, <2>5 DEF Seed
      <4> HIDE DEF a
      <4> QED
        BY <2>2, <3>2, <4>3, <4>4, PlacedStep
    <3> HIDE DEF r
    <3> QED
      BY <2>2, <3>1, <3>3, <3>4, <3>5, HandlerStep DEF IInv, TypeOK
  <2> QED
    BY <2>4, <2>5
<1>3. CASE Grow(h)
  <2>1. R.pc = "grow" /\ R.op # "join"
    BY <1>1, <1>3 DEF Grow, At, RecordOK, JoinSteps
  <2>2. PICK r : RecordOK(r) /\ thread' = [thread EXCEPT ![h] = r]
    BY <1>1, <1>3, <2>1, AfterSeedStep DEF Grow, ThreadType
  <2>3. R.at \in Games /\ R.part \in Teams /\ Load(h) \in Int
    BY <2>1, OnList DEF Writing
  <2>4. Len(Seeds[R.part]) \in Nat
    BY <2>3, SeedsAssumption
  <2>5. size' \in [Games -> [Teams -> Int]]
    BY <1>3, <2>3, <2>4 DEF Grow, SetSize, IInv, TypeOK
  <2>6. UNCHANGED <<game, created, slots, button, asked, raced, last, owed>>
    BY <1>3 DEF Grow
  <2> QED
    BY <2>2, <2>5, <2>6, HandlerStep, PlacedStays DEF IInv, TypeOK
<1> QED
  BY <1>2, <1>3

LEMMA Serialising ==
    ASSUME IInv, NEW h \in Handlers, Show(h) \/ Respond(h)
    PROVE  IInv'
<1> DEFINE R == thread[h]
           g == R.at
<1>1. R \in ThreadType /\ RecordOK(R) /\ R.pc \in {"show", "shown"} /\ R.op # "join"
  BY RecordsOK DEF RecordOK, Show, Respond, At, JoinSteps
<1>2. g \in Games /\ g # NoGame /\ R.part \in Teams /\ R.n \in Int
      /\ Array(h) \in Seq(Allowed(R.part)) /\ Null \in Allowed(R.part)
  BY <1>1, OnList DEF Reading, RecordOK, ThreadType
<1>3. UNCHANGED <<game, created, size, slots, asked, last>>
  BY DEF Show, Respond, heap
<1>4. CASE Answer(h) /\ owed' = [owed EXCEPT ![h] = {}] /\ UNCHANGED raced
  BY <1>3, <1>4, AnswerStep, IdleOK, HandlerStep, PlacedStays DEF IInv, TypeOK
<1>5. CASE Show(h) /\ ~(R.n > Load(h))
  <2> DEFINE els == Elements(Array(h), R.n)
             seen == [R.view EXCEPT ![R.part] = els]
  <2>1. seen \in [Teams -> SUBSET (Names \union {Null})]
    <3>1. els \subseteq Allowed(R.part)
      BY <1>2, ElementsType
    <3>2. els \in SUBSET (Names \union {Null})
      BY <1>2, <3>1 DEF Allowed, Names, Teams
    <3>3. R.view \in [Teams -> SUBSET (Names \union {Null})]
      BY <1>1 DEF ThreadType
    <3> HIDE DEF els
    <3> QED
      BY <3>2, <3>3
  <2>2. UNCHANGED <<button, owed>>
    BY <1>5 DEF Show
  <2> HIDE DEF seen
  <2>3. CASE R.part = "red"
    <3> DEFINE r == [R EXCEPT !.part = "blue", !.n = size[g]["blue"], !.view = seen]
    <3>1. thread' = [thread EXCEPT ![h] = r]
      BY <1>5, <2>3 DEF Show, seen, IInv, TypeOK
    <3>2. "blue" \in Teams
      BY DEF Teams
    <3>3. size[g]["blue"] \in Int
      BY <1>2, <3>2 DEF IInv, TypeOK
    <3>4. r \in ThreadType
      BY <1>1, <2>1, <3>2, <3>3 DEF ThreadType
    <3>5. r.pc = R.pc /\ r.op = R.op /\ r.at = g
      BY <1>1 DEF ThreadType
    <3>6. RecordOK(r)
      BY <1>1, <1>2, <3>4, <3>5, PlainRecord DEF JoinSteps
    <3>7. raced' \in [Games -> [Teams -> BOOLEAN]]
      BY <1>2, <1>5, <2>3, <3>2, EntersType DEF Show, EntersToRead, IInv
    <3> HIDE DEF r
    <3> QED
      BY <1>3, <2>2, <3>1, <3>6, <3>7, HandlerStep, PlacedStays DEF IInv, TypeOK
  <2>4. CASE R.part # "red"
    <3> DEFINE r == [R EXCEPT !.pc = "shown", !.view = seen]
    <3>1. thread' = [thread EXCEPT ![h] = r] /\ UNCHANGED raced
      BY <1>5, <2>4 DEF Show, seen, IInv, TypeOK
    <3>2. r \in ThreadType
      BY <1>1, <2>1 DEF ThreadType, Steps
    <3>3. r.pc = "shown" /\ r.op = R.op /\ r.at = g
      BY <1>1 DEF ThreadType
    <3>4. RecordOK(r)
      BY <1>1, <1>2, <3>2, <3>3, PlainRecord DEF JoinSteps
    <3> HIDE DEF r
    <3> QED
      BY <1>3, <2>2, <3>1, <3>4, HandlerStep, PlacedStays DEF IInv, TypeOK
  <2> QED
    BY <2>3, <2>4
<1> QED
  BY <1>4, <1>5 DEF Show, Respond

----------------------------------------------------------------------------

LEMMA InitialInv == Init => IInv
<1> SUFFICES ASSUME Init PROVE IInv
  OBVIOUS
<1>1. TypeOK
  BY IdleType, BoundsAssumption, EmptySeq DEF Init, TypeOK, Idle, Fresh, Reading, Writing
<1>2. Placed
  BY EmptySeq DEF Init, Placed
<1>3. StepsKnown
  BY DEF Init, StepsKnown, Idle, Fresh, JoinSteps
<1> QED
  BY <1>1, <1>2, <1>3 DEF IInv

LEMMA StepKeeps == IInv /\ [Next]_vars => IInv'
<1> SUFFICES ASSUME IInv, [Next]_vars PROVE IInv'
  OBVIOUS
<1>1. ASSUME NEW h \in Handlers, Requests(h) PROVE IInv'
  BY <1>1, Requesting
<1>2. ASSUME NEW h \in Handlers, Joining(h) PROVE IInv'
  BY <1>2, JoinBegins, JoinRemoves, JoinAdds DEF Joining
<1>3. ASSUME NEW h \in Handlers, Answering(h) PROVE IInv'
  BY <1>3, Seeding, Serialising DEF Answering
<1>4. CASE UNCHANGED vars
  BY <1>4, PlacedStays DEF vars, heap, IInv, TypeOK, StepsKnown
<1> QED
  BY <1>1, <1>2, <1>3, <1>4 DEF Next

LEMMA Inductive == Spec => []IInv
  BY InitialInv, StepKeeps, PTL DEF Spec

(* Every variable keeps its type and no null is dereferenced, whatever the     *)
(* requests, the threads and the games created and deleted meanwhile.          *)
THEOREM TypeCorrect == Spec => []TypeOK
<1>1. IInv => TypeOK
  BY DEF IInv
<1> QED
  BY <1>1, Inductive, PTL

(* Whatever the races in the lists, a player is found only in a team that he   *)
(* asked for or that initPlayers puts him into.                                *)
THEOREM NobodyMoved == Spec => []OnlyWhereAsked
<1>1. IInv => OnlyWhereAsked
  <2> SUFFICES ASSUME IInv, NEW g \in Games, NEW t \in Teams, NEW p \in Players,
                      p \in Members(g, t)
               PROVE  <<p, t>> \in asked \/ p \in SeedNames(t)
    BY DEF OnlyWhereAsked
  <2>1. slots[g][t] \in Seq(Allowed(t)) /\ Null \in Allowed(t)
    BY DEF IInv, Placed, Allowed
  <2>2. p \in Allowed(t)
    BY <2>1, ElementsType DEF Members
  <2> QED
    BY <2>2, NamesAssumption DEF Allowed
<1> QED
  BY <1>1, Inductive, PTL

----------------------------------------------------------------------------

(* Lists that no two handlers met in.  A list that has a writer is the      *)
(* writer's alone; what it counts for is told by the writer's step, and     *)
(* everyone whose join was answered stays in the part that counts while the *)
(* writer moves the others.                                                 *)

(* Between the two halves of elementData[size++] = e and of elementData[--size] *)
(* = null the last place that the size counts holds no player to keep.          *)
Halfway == {"last", "clear", "store"}
Counted(g, t) ==
    IF \E h \in Handlers : Inside(h, g, t, Halfway) THEN size[g][t] - 1 ELSE size[g][t]

(* Whoever has to be in the list: his last answered join was to it, or a GET   *)
(* under way has yet to show him in it.                                        *)
Due(g, t) ==
    {p \in Players :
        \/ last[g][p] = t
        \/ \E h \in Handlers : At(h, "show") /\ thread[h].at = g /\ <<p, t>> \in owed[h]}

Exclusive(g, t) ==
    \A h, k \in Handlers :
        h # k /\ Inside(h, g, t, Writing) => ~Inside(k, g, t, Reading \union Writing)

Solid(a, k) == k \in Nat /\ \A i \in 1..k : Slot(a, i) # Null

(* The index, the size or the elements that a handler works with are still     *)
(* those of the list.                                                          *)
LocalsFit(h, g, t) ==
    LET n == thread[h].n
        k == size[g][t]
        a == slots[g][t]
    IN  /\ Inside(h, g, t, {"shift"}) =>
             n \in 0..(k - 1) /\ Slot(a, n + 1) = thread[h].player /\ thread[h].player \notin Due(g, t)
        /\ Inside(h, g, t, {"clear", "store"}) => n = k - 1
        /\ Inside(h, g, t, {"size", "show"}) => n = k
        /\ Inside(h, g, t, {"grow"}) => \A i \in 1..Len(Seeds[t]) : Slot(a, k + i) = Seeds[t][i]

ListOK(g, t) ==
    ~raced[g][t] =>
        /\ Exclusive(g, t)
        /\ Solid(slots[g][t], Counted(g, t))
        /\ Due(g, t) \subseteq Elements(slots[g][t], Counted(g, t))
        /\ \A h \in Handlers : LocalsFit(h, g, t)

ListsOK == \A g \in Games, t \in Teams : ListOK(g, t)

(* The teams that a GET has serialised show whom it owes. *)
Seen(h, t) == At(h, "shown") \/ (At(h, "show") /\ thread[h].part = "blue" /\ t = "red")
ViewsOK ==
    \A h \in Handlers, t \in Teams :
        Seen(h, t) /\ ~raced[thread[h].at][t] =>
            \A p \in Players : <<p, t>> \in owed[h] => p \in thread[h].view[t]

ListInv == IInv /\ ListsOK /\ ViewsOK

Moves(h) == Requests(h) \/ Joining(h) \/ Answering(h)
Unmoved(h) == \A k \in Handlers \ {h} : thread'[k] = thread[k]

----------------------------------------------------------------------------
(* The frame of a step. *)

LEMMA EntersFrame ==
    ASSUME IInv, NEW h \in Handlers, NEW g \in Games, NEW t \in Teams, NEW steps,
           Enters(h, g, t, steps)
    PROVE  /\ \A g2 \in Games, t2 \in Teams : raced[g2][t2] => raced'[g2][t2]
           /\ ~raced'[g][t] => \A k \in Handlers \ {h} : ~Inside(k, g, t, steps)
BY DEF Enters, IInv, TypeOK

(* Nobody but the handler moves, and a race is never forgotten. *)
LEMMA Frame ==
    ASSUME IInv, NEW h \in Handlers, Moves(h)
    PROVE  /\ Unmoved(h)
           /\ \A g \in Games, t \in Teams : raced[g][t] => raced'[g][t]
<1>1. thread \in [Handlers -> ThreadType]
  BY DEF IInv, TypeOK
<1>2. Unmoved(h)
  <2> SUFFICES ASSUME NEW k \in Handlers \ {h} PROVE thread'[k] = thread[k]
    BY DEF Unmoved
  <2>1. CASE Requests(h)
    BY <2>1, <1>1 DEF Requests, ReceiveJoin, ReceiveCreate, ReceiveDelete, ReceiveGet, Receive, GotoList
  <2>2. CASE DerefRemove(h) \/ Search(h) \/ Shift(h) \/ LoadLast(h) \/ Clear(h)
    BY <2>2, <1>1 DEF DerefRemove, Search, Shift, LoadLast, Clear, Goto, GotoWith, GotoList, Answer
  <2>3. CASE DerefAdd(h) \/ LoadSize(h) \/ StoreSize(h) \/ Store(h)
    BY <2>3, <1>1 DEF DerefAdd, LoadSize, StoreSize, Store, Goto, GotoWith, GotoList, Answer
  <2>4. CASE (\E t \in Teams : Seed(h, t)) \/ Grow(h)
    BY <2>4, <1>1 DEF Seed, Grow, AfterSeed, Goto, GotoList
  <2>5. CASE Show(h) \/ Respond(h)
    BY <2>5, <1>1 DEF Show, Respond, Answer
  <2> QED
    BY <2>1, <2>2, <2>3, <2>4, <2>5 DEF Moves, Joining, Answering
<1>3. ASSUME NEW g \in Games, NEW t \in Teams, raced[g][t] PROVE raced'[g][t]
  <2>1. UNCHANGED raced
        \/ \E g2 \in Games, t2 \in Teams, steps \in {Writing, Reading \union Writing} : Enters(h, g2, t2, steps)
    <3>0. /\ thread[h].pc \in Reading \union Writing \union {"load", "shown"} =>
               thread[h].at \in Games /\ thread[h].part \in Teams
          /\ game # NoGame => game \in Games
          /\ "red" \in Teams /\ "blue" \in Teams
          /\ thread[h].team \in Teams => Other[thread[h].team] \in Teams
      BY OnList DEF Teams, Other, IInv, TypeOK
    <3>1. CASE Requests(h)
      BY <3>1, <3>0 DEF Requests, ReceiveJoin, ReceiveCreate, ReceiveDelete, ReceiveGet, Receive, EntersToRead
    <3>2. CASE DerefRemove(h)
      <4>1. thread[h].team \in Teams
        BY <1>1 DEF ThreadType
      <4> QED
        BY <3>2, <4>1, <3>0 DEF DerefRemove, EntersToRead
    <3>3. CASE Search(h) \/ LoadSize(h)
      <4>1. thread[h].pc \in Reading \union Writing \union {"load", "shown"}
        BY <3>3 DEF Search, LoadSize, At, Reading
      <4> QED
        BY <3>3, <4>1, <3>0 DEF Search, LoadSize, EntersToWrite
    <3>4. CASE Joining(h) /\ ~(DerefRemove(h) \/ Search(h) \/ LoadSize(h))
      BY <3>4 DEF Joining, Shift, LoadLast, Clear, DerefAdd, StoreSize, Store
    <3>5. CASE \E t2 \in Teams : Seed(h, t2)
      BY <3>5, <3>0 DEF Seed, EntersToWrite
    <3>6. CASE Grow(h) \/ Show(h) \/ Respond(h)
      <4>1. thread[h].pc \in Reading \union Writing \union {"load", "shown"}
        BY <3>6 DEF Grow, Show, Respond, At, Reading, Writing
      <4> QED
        BY <3>6, <4>1, <3>0 DEF Grow, Show, Respond, EntersToRead
    <3> QED
      BY <3>1, <3>2, <3>3, <3>4, <3>5, <3>6 DEF Moves, Joining, Answering
  <2> QED
    BY <1>3, <2>1, EntersFrame
<1> QED
  BY <1>2, <1>3

----------------------------------------------------------------------------
(* One list and one step. *)

(* A list that the handler neither writes nor wrote keeps its invariant: if the *)
(* handler comes into it to read, it has met no writer or the race is noted.    *)
LEMMA ListStays ==
    ASSUME IInv, NEW h \in Handlers, Unmoved(h), NEW g \in Games, NEW t \in Teams, ListOK(g, t),
           raced[g][t] => raced'[g][t],
           size'[g][t] = size[g][t], slots'[g][t] = slots[g][t], Due(g, t)' \subseteq Due(g, t),
           ~Inside(h, g, t, Writing), ~Inside(h, g, t, Writing)',
           Inside(h, g, t, Reading)' /\ ~raced'[g][t] =>
               \A k \in Handlers \ {h} : ~Inside(k, g, t, Writing),
           Inside(h, g, t, {"show"})' => thread'[h].n = size[g][t]
    PROVE  ListOK(g, t)'
<1> SUFFICES ASSUME ~raced'[g][t]
             PROVE  /\ Exclusive(g, t)'
                    /\ Solid(slots[g][t], Counted(g, t))'
                    /\ (Due(g, t) \subseteq Elements(slots[g][t], Counted(g, t)))'
                    /\ \A k \in Handlers : LocalsFit(k, g, t)'
  BY DEF ListOK
<1>1. /\ Exclusive(g, t) /\ Solid(slots[g][t], Counted(g, t))
      /\ Due(g, t) \subseteq Elements(slots[g][t], Counted(g, t))
      /\ \A k \in Handlers : LocalsFit(k, g, t)
  BY DEF ListOK
<1>2. \A k \in Handlers \ {h} : \A S : Inside(k, g, t, S)' <=> Inside(k, g, t, S)
  BY DEF Unmoved, Inside
<1>3. Counted(g, t)' = Counted(g, t)
  <2>1. \A k \in Handlers : Inside(k, g, t, Halfway)' <=> Inside(k, g, t, Halfway)
    BY <1>2 DEF Inside, Halfway, Writing
  <2> QED
    BY <2>1 DEF Counted
<1>4. Exclusive(g, t)'
  BY <1>1, <1>2 DEF Exclusive, Inside, Reading, Writing
<1>5. ASSUME NEW k \in Handlers PROVE LocalsFit(k, g, t)'
  <2>1. CASE k = h
    BY <2>1 DEF LocalsFit, Inside, Writing
  <2>2. CASE k # h
    <3>1. thread'[k] = thread[k] /\ LocalsFit(k, g, t)
      BY <1>1, <2>2 DEF Unmoved
    <3> QED
      BY <3>1 DEF LocalsFit, Inside
  <2> QED
    BY <2>1, <2>2
<1> QED
  BY <1>1, <1>3, <1>4, <1>5

(* A writer of a list in which no two have met is there alone, and its step     *)
(* tells what the list counts.                                                  *)
LEMMA WriterAlone ==
    ASSUME IInv, NEW h \in Handlers, NEW g \in Games, NEW t \in Teams, ListOK(g, t),
           ~raced[g][t], Inside(h, g, t, Writing)
    PROVE  /\ \A k \in Handlers \ {h} : ~Inside(k, g, t, Reading \union Writing)
           /\ Counted(g, t) = IF thread[h].pc \in Halfway THEN size[g][t] - 1 ELSE size[g][t]
           /\ Solid(slots[g][t], Counted(g, t))
           /\ Due(g, t) \subseteq Elements(slots[g][t], Counted(g, t))
           /\ LocalsFit(h, g, t)
BY DEF ListOK, Exclusive, Counted, Inside, Halfway, Writing

(* A list without writers counts its size. *)
LEMMA QuietCounts ==
    ASSUME NEW g \in Games, NEW t \in Teams, \A k \in Handlers : ~Inside(k, g, t, Writing)
    PROVE  Counted(g, t) = size[g][t]
BY DEF Counted, Inside, Halfway, Writing

(* After the step of a handler that is alone in a list, as its writer before or *)
(* after, only its own locals and what the list counts now are in question.     *)
LEMMA ListWritten ==
    ASSUME IInv, NEW h \in Handlers, Unmoved(h), NEW g \in Games, NEW t \in Teams,
           \A k \in Handlers \ {h} : ~Inside(k, g, t, Reading \union Writing),
           NEW m, m = IF Inside(h, g, t, Halfway)' THEN size'[g][t] - 1 ELSE size'[g][t],
           Solid(slots'[g][t], m), Due(g, t)' \subseteq Elements(slots'[g][t], m),
           LocalsFit(h, g, t)'
    PROVE  ListOK(g, t)'
<1>1. \A k \in Handlers \ {h} : \A S : Inside(k, g, t, S)' <=> Inside(k, g, t, S)
  BY DEF Unmoved, Inside
<1>2. Counted(g, t)' = m
  BY <1>1 DEF Counted, Inside, Halfway, Writing
<1>3. Exclusive(g, t)'
  BY <1>1 DEF Exclusive, Inside
<1>4. ASSUME NEW k \in Handlers \ {h} PROVE LocalsFit(k, g, t)'
  BY <1>1 DEF LocalsFit, Inside, Reading, Writing
<1> QED
  BY <1>2, <1>3, <1>4 DEF ListOK

(* Nobody becomes due by a step that leaves the history of joins alone or only  *)
(* takes from it, and by which no GET begins.                                   *)
LEMMA DueShrinks ==
    ASSUME IInv, NEW h \in Handlers, Unmoved(h), NEW g \in Games, NEW t \in Teams,
           \A p \in Players : last'[g][p] = t => last[g][p] = t,
           \A k \in Handlers : owed'[k] \subseteq owed[k],
           At(h, "show")' => At(h, "show") /\ thread'[h].at = thread[h].at
    PROVE  Due(g, t)' \subseteq Due(g, t)
<1>1. \A k \in Handlers : At(k, "show")' => At(k, "show") /\ thread'[k].at = thread[k].at
  BY DEF Unmoved, At
<1> QED
  BY <1>1 DEF Due

----------------------------------------------------------------------------
(* What the array operations leave in each place. *)

LEMMA SlotOfFunction ==
    ASSUME NEW m \in Nat, NEW S, NEW f \in [1..m -> S], NEW j
    PROVE  Slot(f, j) = IF j \in 1..m THEN f[j] ELSE Null
<1>1. f \in Seq(S) /\ Len(f) = m
  BY SeqOfFunction
<1> QED
  BY <1>1 DEF Slot

LEMMA LongerSize ==
    ASSUME NEW S, NEW a \in Seq(S), NEW k \in Int
    PROVE  \E m \in Nat : Longer(a, k) = 1..m /\ m >= Len(a) /\ m >= k
<1>1. CASE k > Len(a)
  BY <1>1 DEF Longer
<1>2. CASE ~(k > Len(a))
  BY <1>2 DEF Longer
<1> QED
  BY <1>1, <1>2

LEMMA SlotStored ==
    ASSUME NEW S, Null \in S, NEW a \in Seq(S), NEW i \in Nat, NEW x \in S, NEW j \in Int
    PROVE  Slot(Stored(a, i, x), j) = IF j = i + 1 THEN x ELSE Slot(a, j)
<1>1. PICK m \in Nat : Longer(a, i + 1) = 1..m /\ m >= Len(a) /\ m >= i + 1
  BY LongerSize
<1>2. Stored(a, i, x) \in [1..m -> S]
  BY <1>1, SlotType DEF Stored
<1>3. Slot(Stored(a, i, x), j) = IF j \in 1..m THEN Stored(a, i, x)[j] ELSE Null
  BY <1>2, SlotOfFunction
<1>4. j \in 1..m => Stored(a, i, x)[j] = IF j = i + 1 THEN x ELSE Slot(a, j)
  BY <1>1 DEF Stored
<1>5. j \notin 1..m => j # i + 1 /\ Slot(a, j) = Null
  BY <1>1 DEF Slot
<1> QED
  BY <1>3, <1>4, <1>5

LEMMA SlotShifted ==
    ASSUME NEW S, Null \in S, NEW a \in Seq(S), NEW i \in Int, NEW k \in Int, NEW j \in Int
    PROVE  Slot(Shifted(a, i, k), j) =
               IF j \in 1..Len(a) /\ j \in (i + 1)..(k - 1) THEN Slot(a, j + 1) ELSE Slot(a, j)
<1>1. Shifted(a, i, k) \in [1..Len(a) -> S] /\ Len(a) \in Nat
  BY SlotType DEF Shifted
<1>2. Slot(Shifted(a, i, k), j) = IF j \in 1..Len(a) THEN Shifted(a, i, k)[j] ELSE Null
  BY <1>1, SlotOfFunction
<1>3. j \in 1..Len(a) =>
          Shifted(a, i, k)[j] = IF j \in (i + 1)..(k - 1) THEN Slot(a, j + 1) ELSE Slot(a, j)
  BY DEF Shifted, Slot
<1> QED
  BY <1>2, <1>3 DEF Slot

LEMMA SlotExtended ==
    ASSUME NEW S, Null \in S, NEW a \in Seq(S), NEW k \in Nat, NEW new \in Seq(S), NEW j \in Int
    PROVE  Slot(Extended(a, k, new), j) =
               IF j \in (k + 1)..(k + Len(new)) THEN new[j - k] ELSE Slot(a, j)
<1> DEFINE x == Extended(a, k, new)
<1>0. k + Len(new) \in Int
  OBVIOUS
<1>1. PICK m \in Nat : Longer(a, k + Len(new)) = 1..m /\ m >= Len(a) /\ m >= k + Len(new)
  BY <1>0, LongerSize
<1>2. x \in [1..m -> S]
  <2>1. \A i \in 1..m : i \in (k + 1)..(k + Len(new)) => new[i - k] \in S
    OBVIOUS
  <2> QED
    BY <1>1, <2>1, SlotType DEF Extended
<1>3. Slot(x, j) = IF j \in 1..m THEN x[j] ELSE Null
  BY <1>2, SlotOfFunction
<1>4. j \in 1..m => x[j] = IF j \in (k + 1)..(k + Len(new)) THEN new[j - k] ELSE Slot(a, j)
  BY <1>1 DEF Extended
<1>5. j \notin 1..m => j \notin (k + 1)..(k + Len(new)) /\ Slot(a, j) = Null
  BY <1>1 DEF Slot
<1> QED
  BY <1>3, <1>4, <1>5

----------------------------------------------------------------------------
(* The steps that write no list: what a handler reads, answers and begins.      *)

LEMMA ListsStay ==
    ASSUME ListInv, NEW h \in Handlers, Moves(h), UNCHANGED <<size, slots>>,
           thread[h].pc \notin Writing, thread'[h].pc \notin Writing,
           \A g \in Games, t \in Teams : Due(g, t)' \subseteq Due(g, t),
           thread'[h].pc \in Reading =>
               \E g \in Games, t \in Teams :
                   /\ thread'[h].at = g /\ thread'[h].part = t /\ EntersToRead(h, g, t)
                   /\ thread'[h].pc = "show" => thread'[h].n = size[g][t]
    PROVE  ListsOK'
<1> SUFFICES ASSUME NEW g \in Games, NEW t \in Teams PROVE ListOK(g, t)'
  BY DEF ListsOK
<1>1. IInv /\ ListOK(g, t) /\ Unmoved(h) /\ (raced[g][t] => raced'[g][t])
  BY Frame DEF ListInv, ListsOK
<1>2. ~Inside(h, g, t, Writing) /\ ~Inside(h, g, t, Writing)'
  BY DEF Inside
<1>3. Inside(h, g, t, Reading)' =>
        EntersToRead(h, g, t) /\ (thread'[h].pc = "show" => thread'[h].n = size[g][t])
  BY DEF Inside
<1>4. Inside(h, g, t, Reading)' /\ ~raced'[g][t] => \A k \in Handlers \ {h} : ~Inside(k, g, t, Writing)
  BY <1>1, <1>3, EntersFrame DEF EntersToRead
<1>5. Inside(h, g, t, {"show"})' => thread'[h].n = size[g][t]
  BY <1>3 DEF Inside, Reading
<1> QED
  BY <1>1, <1>2, <1>4, <1>5, ListStays

(* What was serialised keeps its worth when another handler moves and nobody is *)
(* added to what a GET owes.                                                    *)
LEMMA ViewsStep ==
    ASSUME ListInv, NEW h \in Handlers, Moves(h),
           \A k \in Handlers \ {h} : owed'[k] \subseteq owed[k],
           \A t \in Teams : Seen(h, t)' /\ ~raced'[thread'[h].at][t] =>
               \A p \in Players : <<p, t>> \in owed'[h] => p \in thread'[h].view[t]
    PROVE  ViewsOK'
<1>1. IInv /\ Unmoved(h) /\ \A g \in Games, t \in Teams : raced[g][t] => raced'[g][t]
  BY Frame DEF ListInv
<1> SUFFICES ASSUME NEW k \in Handlers, NEW t \in Teams, Seen(k, t)', ~raced'[thread'[k].at][t],
                    NEW p \in Players, <<p, t>> \in owed'[k]
             PROVE  p \in thread'[k].view[t]
  BY DEF ViewsOK
<1>2. CASE k = h
  BY <1>2
<1>3. CASE k # h
  <2>1. thread'[k] = thread[k] /\ Seen(k, t)
    BY <1>1, <1>3 DEF Unmoved, Seen, At
  <2>2. thread[k].at \in Games
    BY <1>1, <2>1, OnList DEF Seen, At, Reading
  <2> QED
    BY <1>1, <1>3, <2>1, <2>2 DEF ListInv, ViewsOK
<1> QED
  BY <1>2, <1>3

LEMMA ViewsStay ==
    ASSUME ListInv, NEW h \in Handlers, Moves(h),
           \A k \in Handlers \ {h} : owed'[k] \subseteq owed[k],
           thread'[h].pc = "show" => thread'[h].part # "blue", thread'[h].pc # "shown"
    PROVE  ViewsOK'
BY ViewsStep DEF Seen, At

(* The lists that a step does not touch. *)
LEMMA OtherLists ==
    ASSUME ListInv, NEW h \in Handlers, Moves(h), NEW g \in Games, NEW t \in Teams,
           thread[h].pc \in Reading \union Writing => thread[h].at = g /\ thread[h].part = t,
           thread'[h].pc \in Reading \union Writing => thread'[h].at = g /\ thread'[h].part = t,
           NEW g2 \in Games, NEW t2 \in Teams, ~(g2 = g /\ t2 = t),
           size'[g2][t2] = size[g2][t2], slots'[g2][t2] = slots[g2][t2],
           Due(g2, t2)' \subseteq Due(g2, t2)
    PROVE  ListOK(g2, t2)'
<1>1. ~Inside(h, g2, t2, Reading \union Writing) /\ ~Inside(h, g2, t2, Reading \union Writing)'
  BY DEF Inside
<1>2. /\ ~Inside(h, g2, t2, Writing) /\ ~Inside(h, g2, t2, Writing)'
      /\ ~Inside(h, g2, t2, Reading)' /\ ~Inside(h, g2, t2, {"show"})'
  BY <1>1 DEF Inside, Reading
<1>3. IInv /\ Unmoved(h) /\ ListOK(g2, t2) /\ (raced[g2][t2] => raced'[g2][t2])
  BY Frame DEF ListInv, ListsOK
<1> QED
  BY <1>2, <1>3, ListStays

LEMMA ListsOnRequest ==
    ASSUME ListInv, NEW h \in Handlers, Requests(h)
    PROVE  ListsOK' /\ ViewsOK'
<1> USE DEF ListInv
<1>1. Moves(h) /\ UNCHANGED <<size, slots>> /\ thread[h].pc = "idle" /\ thread \in [Handlers -> ThreadType]
      /\ Unmoved(h)
  BY Frame DEF Moves, Requests, ReceiveJoin, ReceiveCreate, ReceiveDelete, ReceiveGet, Receive, At, heap, IInv, TypeOK
<1>2. CASE ReceiveGet(h) /\ game # NoGame
  <2>1. game \in Games /\ "red" \in Teams /\ UNCHANGED last
    BY <1>2 DEF IInv, TypeOK, Teams, ReceiveGet
  <2>2. /\ thread'[h].pc = "show" /\ thread'[h].at = game /\ thread'[h].part = "red"
        /\ thread'[h].n = size[game]["red"]
    BY <1>1, <1>2 DEF ReceiveGet, GotoList, ThreadType
  <2>3. \A k \in Handlers \ {h} : owed'[k] = owed[k]
    BY <1>2 DEF ReceiveGet, IInv, TypeOK
  <2>4. owed'[h] = {m \in Players \X Teams : last[game][m[1]] = m[2]}
    BY <1>2 DEF ReceiveGet, IInv, TypeOK
  <2>5. ASSUME NEW g \in Games, NEW t \in Teams, NEW p \in Due(g, t)' PROVE p \in Due(g, t)
    <3>1. CASE last'[g][p] = t
      BY <3>1, <2>1, <2>5 DEF Due
    <3>2. CASE At(h, "show")' /\ thread'[h].at = g /\ <<p, t>> \in owed'[h]
      <4>1. last[g][p] = t
        BY <2>2, <2>4, <3>2
      <4> QED
        BY <4>1, <2>5 DEF Due
    <3>3. CASE \E k \in Handlers \ {h} : At(k, "show")' /\ thread'[k].at = g /\ <<p, t>> \in owed'[k]
      BY <1>1, <2>3, <2>5, <3>3 DEF Due, At, Unmoved
    <3> QED
      BY <2>5, <3>1, <3>2, <3>3 DEF Due
  <2>6. EntersToRead(h, game, "red")
    BY <1>2 DEF ReceiveGet
  <2>7. ListsOK'
    <3>1. thread[h].pc \notin Writing /\ thread'[h].pc \notin Writing
      BY <1>1, <2>2 DEF Writing
    <3> QED
      BY <1>1, <2>1, <2>2, <2>5, <2>6, <3>1, ListsStay
  <2> QED
    BY <1>1, <2>2, <2>3, <2>7, ViewsStay
<1>3. CASE ~(ReceiveGet(h) /\ game # NoGame)
  <2>1. UNCHANGED <<last, owed>> /\ thread'[h].pc \in {"idle", "remove", "seedRed"}
    <3>1. CASE ReceiveGet(h)
      BY <1>1, <1>3, <3>1 DEF ReceiveGet
    <3>2. CASE ~ReceiveGet(h)
      BY <1>1, <3>2 DEF Requests, ReceiveJoin, ReceiveCreate, ReceiveDelete, Receive, Fresh
    <3> QED
      BY <3>1, <3>2
  <2>2. \A g \in Games, t \in Teams : Due(g, t)' \subseteq Due(g, t)
    BY <1>1, <2>1, DueShrinks DEF At
  <2>3. /\ thread[h].pc \notin Writing /\ thread'[h].pc \notin Writing /\ thread'[h].pc \notin Reading
        /\ thread'[h].pc \notin {"show", "shown"}
    BY <1>1, <2>1 DEF Writing, Reading
  <2>4. ListsOK'
    BY <1>1, <2>2, <2>3, ListsStay
  <2> QED
    BY <1>1, <2>1, <2>3, <2>4, ViewsStay
<1> QED
  BY <1>2, <1>3

LEMMA ListsOnDeref ==
    ASSUME ListInv, NEW h \in Handlers, DerefRemove(h) \/ DerefAdd(h)
    PROVE  ListsOK' /\ ViewsOK'
<1> USE DEF ListInv
<1>1. /\ Moves(h) /\ UNCHANGED <<size, slots, last, owed>> /\ thread[h].pc \in {"remove", "add"}
      /\ thread[h] \in ThreadType /\ Unmoved(h) /\ thread \in [Handlers -> ThreadType]
  BY Frame DEF Moves, Joining, DerefRemove, DerefAdd, At, heap, IInv, TypeOK
<1>2. CASE DerefRemove(h) /\ game # NoGame
  <2> DEFINE t == Other[thread[h].team]
  <2>1. game \in Games /\ t \in Teams
    BY <1>1, <1>2 DEF IInv, TypeOK, ThreadType, Teams, Other
  <2>2. thread'[h].pc = "search" /\ thread'[h].at = game /\ thread'[h].part = t /\ EntersToRead(h, game, t)
    BY <1>1, <1>2 DEF DerefRemove, GotoList, ThreadType
  <2>3. \A g \in Games, t2 \in Teams : Due(g, t2)' \subseteq Due(g, t2)
    BY <1>1, <2>2, DueShrinks DEF At
  <2>4. thread[h].pc \notin Writing /\ thread'[h].pc \notin Writing
    BY <1>1, <2>2 DEF Writing
  <2>5. ListsOK'
    BY <1>1, <2>1, <2>2, <2>3, <2>4, ListsStay
  <2> QED
    BY <1>1, <2>2, <2>5, ViewsStay
<1>3. CASE ~(DerefRemove(h) /\ game # NoGame)
  <2>1. thread'[h].pc \in {"idle", "add", "load"}
    <3>1. CASE DerefRemove(h)
      BY <1>1, <1>3, <3>1 DEF DerefRemove, Goto, ThreadType
    <3>2. CASE DerefAdd(h)
      BY <1>1, <3>2 DEF DerefAdd, Answer, GotoList, Idle, Fresh, ThreadType
    <3> QED
      BY <3>1, <3>2
  <2>2. \A g \in Games, t \in Teams : Due(g, t)' \subseteq Due(g, t)
    BY <1>1, <2>1, DueShrinks DEF At
  <2>3. thread[h].pc \notin Writing /\ thread'[h].pc \notin Writing /\ thread'[h].pc \notin Reading
    BY <1>1, <2>1 DEF Writing, Reading
  <2>4. ListsOK'
    BY <1>1, <2>2, <2>3, ListsStay
  <2> QED
    BY <1>1, <2>1, <2>4, ViewsStay
<1> QED
  BY <1>2, <1>3

(* The search takes the player out of what is due to the list it looks through, *)
(* and starts to write only when it has found him there.                        *)
LEMMA ListsOnSearch ==
    ASSUME ListInv, NEW h \in Handlers, Search(h)
    PROVE  ListsOK' /\ ViewsOK'
<1> USE DEF ListInv
<1>0. PICK g \in Games, t \in Teams, p \in Players :
          thread[h].at = g /\ thread[h].part = t /\ thread[h].player = p
  <2>1. thread[h].op = "join" /\ thread[h].pc \in Reading
    BY DEF Search, At, IInv, StepsKnown, JoinSteps, Reading
  <2> QED
    BY <2>1, OnList DEF IInv, TypeOK
<1> DEFINE found == Found(slots[g][t], size[g][t], p)
<1>1. /\ Moves(h) /\ UNCHANGED <<size, slots>> /\ thread[h].pc = "search" /\ Unmoved(h)
      /\ thread[h] \in ThreadType /\ thread \in [Handlers -> ThreadType]
      /\ last \in [Games -> [Players -> Teams \union {None}]]
  BY Frame DEF Moves, Joining, Search, At, heap, IInv, TypeOK
<1>2. \A k \in Handlers : owed'[k] = IF thread[k].at = g THEN owed[k] \ {<<p, t>>} ELSE owed[k]
  BY <1>0 DEF Search
<1>3. last' = [last EXCEPT ![g][p] = IF @ = t THEN None ELSE @]
  BY <1>0 DEF Search
<1>4. /\ \A g2 \in Games, p2 \in Players : last'[g2][p2] = last[g2][p2] \/ last'[g2][p2] = None
      /\ last'[g][p] # t
  BY <1>1, <1>3 DEF None, Teams
<1>5. \A t2 \in Teams : t2 # None
  BY DEF None, Teams
<1>6. thread'[h].pc \in {"add", "shift"} /\ thread'[h].at = g /\ thread'[h].part = t
  <2>1. CASE found = {}
    BY <1>0, <1>1, <2>1 DEF Search, Goto, ThreadType, Array, Load
  <2>2. CASE found # {}
    BY <1>0, <1>1, <2>2 DEF Search, GotoWith, ThreadType, Array, Load
  <2> QED
    BY <2>1, <2>2
<1>7. \A g2 \in Games, t2 \in Teams : Due(g2, t2)' \subseteq Due(g2, t2)
  BY <1>1, <1>2, <1>4, <1>5, <1>6, DueShrinks DEF At
<1>8. p \notin Due(g, t)'
  <2> SUFFICES ASSUME p \in Due(g, t)' PROVE FALSE
    OBVIOUS
  <2>1. PICK k \in Handlers : At(k, "show")' /\ thread'[k].at = g /\ <<p, t>> \in owed'[k]
    BY <1>4 DEF Due
  <2>2. thread[k].at = g
    BY <1>1, <1>6, <2>1 DEF At, Unmoved
  <2> QED
    BY <1>2, <2>1, <2>2
<1>9. ViewsOK'
  BY <1>1, <1>2, <1>6, ViewsStay
<1>10. CASE found = {}
  <2>1. thread'[h].pc = "add"
    BY <1>0, <1>1, <1>10 DEF Search, Goto, ThreadType, Array, Load
  <2>2. thread[h].pc \notin Writing /\ thread'[h].pc \notin Writing /\ thread'[h].pc \notin Reading
    BY <1>1, <2>1 DEF Writing, Reading
  <2>3. ListsOK'
    BY <1>1, <1>7, <2>2, ListsStay
  <2> QED
    BY <1>9, <2>3
<1>11. CASE found # {}
  <2>1. PICK i \in found : GotoWith(h, "shift", i - 1)
    BY <1>0, <1>11 DEF Search, Array, Load
  <2>2. thread'[h].pc = "shift" /\ thread'[h].n = i - 1 /\ thread'[h].player = p
    BY <1>0, <1>1, <2>1 DEF GotoWith, ThreadType
  <2>3. i \in 1..size[g][t] /\ Slot(slots[g][t], i) = p
    BY <2>1 DEF Found
  <2>4. Enters(h, g, t, Reading \union Writing)
    BY <1>0, <1>11 DEF Search, EntersToWrite, Array, Load
  <2>5. ListOK(g, t)'
    <3> SUFFICES ASSUME ~raced'[g][t] PROVE ListOK(g, t)'
      BY DEF ListOK
    <3>1. ~raced[g][t] /\ \A k \in Handlers \ {h} : ~Inside(k, g, t, Reading \union Writing)
      BY <1>1, <2>4, EntersFrame
    <3>2. \A k \in Handlers : ~Inside(k, g, t, Writing)
      BY <1>1, <3>1 DEF Inside, Writing
    <3>3. Counted(g, t) = size[g][t]
      BY <1>1, <3>2, QuietCounts
    <3>4. Solid(slots[g][t], size[g][t]) /\ Due(g, t) \subseteq Elements(slots[g][t], size[g][t])
      BY <1>1, <3>1, <3>3 DEF ListsOK, ListOK
    <3>5. LocalsFit(h, g, t)'
      <4>1. (i - 1) \in 0..(size[g][t] - 1) /\ (i - 1) + 1 = i
        BY <2>3, <3>4 DEF Solid
      <4> QED
        BY <1>1, <1>8, <2>2, <2>3, <4>1 DEF LocalsFit, Inside
    <3>6. size'[g][t] = IF Inside(h, g, t, Halfway)' THEN size'[g][t] - 1 ELSE size'[g][t]
      BY <2>2 DEF Inside, Halfway
    <3> QED
      BY <1>1, <1>7, <3>1, <3>4, <3>5, <3>6, ListWritten
  <2>6. ASSUME NEW g2 \in Games, NEW t2 \in Teams, ~(g2 = g /\ t2 = t) PROVE ListOK(g2, t2)'
    BY <1>0, <1>1, <1>6, <1>7, <2>6, OtherLists
  <2> QED
    BY <1>9, <2>5, <2>6 DEF ListsOK
<1> QED
  BY <1>10, <1>11

(* A reader that met no writer sees everyone who is due. *)
LEMMA ReaderSees ==
    ASSUME ListInv, NEW h \in Handlers, NEW g \in Games, NEW t \in Teams,
           Inside(h, g, t, {"show"}), ~raced[g][t], NEW p \in Players, <<p, t>> \in owed[h]
    PROVE  p \in Elements(slots[g][t], thread[h].n)
<1>1. ListOK(g, t)
  BY DEF ListInv, ListsOK
<1>2. \A k \in Handlers : ~Inside(k, g, t, Writing)
  <2> SUFFICES ASSUME NEW k \in Handlers, Inside(k, g, t, Writing) PROVE FALSE
    OBVIOUS
  <2>1. Inside(h, g, t, Reading \union Writing) /\ k # h
    BY DEF Inside, Reading, Writing
  <2> QED
    BY <1>1, <2>1 DEF ListOK, Exclusive
<1>3. Counted(g, t) = size[g][t]
  BY <1>2, QuietCounts
<1>4. LocalsFit(h, g, t)
  BY <1>1 DEF ListOK
<1>5. thread[h].n = size[g][t]
  BY <1>4 DEF LocalsFit, Inside
<1>6. p \in Due(g, t)
  BY DEF Due, Inside, At
<1> QED
  BY <1>1, <1>3, <1>5, <1>6 DEF ListOK

LEMMA ListsOnShow ==
    ASSUME ListInv, NEW h \in Handlers, Show(h) \/ Respond(h)
    PROVE  ListsOK' /\ ViewsOK'
<1> USE DEF ListInv
<1>0. PICK g \in Games, t \in Teams : thread[h].at = g /\ thread[h].part = t
  BY OnList DEF Show, Respond, At, Reading
<1>1. /\ Moves(h) /\ UNCHANGED <<size, slots, last>> /\ thread[h].pc \in {"show", "shown"} /\ Unmoved(h)
      /\ thread[h] \in ThreadType /\ thread \in [Handlers -> ThreadType] /\ owed \in [Handlers -> SUBSET (Players \X Teams)]
      /\ \A g2 \in Games, t2 \in Teams : raced[g2][t2] => raced'[g2][t2]
  BY Frame DEF Moves, Answering, Show, Respond, At, heap, IInv, TypeOK
<1>2. CASE Answer(h) /\ owed' = [owed EXCEPT ![h] = {}]
  <2>1. thread'[h].pc = "idle"
    BY <1>1, <1>2 DEF Answer, Idle, Fresh
  <2>2. \A k \in Handlers : owed'[k] \subseteq owed[k]
    BY <1>1, <1>2
  <2>3. \A g2 \in Games, t2 \in Teams : Due(g2, t2)' \subseteq Due(g2, t2)
    BY <1>1, <2>1, <2>2, DueShrinks DEF At
  <2>4. thread[h].pc \notin Writing /\ thread'[h].pc \notin Writing /\ thread'[h].pc \notin Reading
    BY <1>1, <2>1 DEF Writing, Reading
  <2>5. ListsOK'
    BY <1>1, <2>3, <2>4, ListsStay
  <2> QED
    BY <1>1, <2>1, <2>2, <2>5, ViewsStay
<1>3. CASE Show(h) /\ ~(thread[h].n > Load(h))
  <2> DEFINE els == Elements(slots[g][t], thread[h].n)
             seen == [thread[h].view EXCEPT ![t] = els]
  <2>1. UNCHANGED owed /\ thread[h].pc = "show" /\ Inside(h, g, t, {"show"})
        /\ thread[h].view \in [Teams -> SUBSET (Names \union {Null})] /\ seen[t] = els
    BY <1>0, <1>1, <1>3 DEF Show, At, Inside, ThreadType
  <2>2. \A p \in Players : ~raced'[g][t] /\ <<p, t>> \in owed'[h] => p \in els
    BY <1>1, <2>1, ReaderSees
  <2> HIDE DEF els
  <2>3. CASE t = "red"
    <3>1. /\ thread'[h].pc = "show" /\ thread'[h].at = g /\ thread'[h].part = "blue"
          /\ thread'[h].n = size[g]["blue"] /\ thread'[h].view = seen
          /\ EntersToRead(h, g, "blue") /\ "blue" \in Teams
      <4>1. thread' = [thread EXCEPT ![h].part = "blue", ![h].n = size[g]["blue"], ![h].view = seen]
            /\ EntersToRead(h, g, "blue")
        BY <1>0, <1>3, <2>3 DEF Show, Array, els
      <4> HIDE DEF seen
      <4> QED
        BY <1>0, <1>1, <2>1, <4>1 DEF ThreadType, Teams
    <3>2. \A g2 \in Games, t2 \in Teams : Due(g2, t2)' \subseteq Due(g2, t2)
      BY <1>0, <1>1, <2>1, <3>1, DueShrinks DEF At
    <3>3. thread[h].pc \notin Writing /\ thread'[h].pc \notin Writing
      BY <2>1, <3>1 DEF Writing
    <3>4. ListsOK'
      BY <1>1, <3>1, <3>2, <3>3, ListsStay
    <3>5. \A t2 \in Teams : Seen(h, t2)' => t2 = t
      BY <2>3, <3>1 DEF Seen, At
    <3>6. ViewsOK'
      BY <1>1, <2>1, <2>2, <3>1, <3>5, ViewsStep
    <3> QED
      BY <3>4, <3>6
  <2>4. CASE t # "red"
    <3>1. thread'[h].pc = "shown" /\ thread'[h].at = g /\ thread'[h].view = seen
      <4>1. thread' = [thread EXCEPT ![h].pc = "shown", ![h].view = seen]
        BY <1>0, <1>3, <2>4 DEF Show, Array, els
      <4> HIDE DEF seen
      <4> QED
        BY <1>0, <1>1, <2>1, <4>1 DEF ThreadType
    <3>2. \A g2 \in Games, t2 \in Teams : Due(g2, t2)' \subseteq Due(g2, t2)
      BY <1>1, <2>1, <3>1, DueShrinks DEF At
    <3>3. thread[h].pc \notin Writing /\ thread'[h].pc \notin Writing /\ thread'[h].pc \notin Reading
      BY <2>1, <3>1 DEF Writing, Reading
    <3>4. ListsOK'
      BY <1>1, <3>2, <3>3, ListsStay
    <3>5. ASSUME NEW t2 \in Teams, t2 # t PROVE Seen(h, t2) /\ seen[t2] = thread[h].view[t2]
      BY <1>0, <2>1, <2>4, <3>5 DEF Seen, At, Teams
    <3>6. ASSUME NEW t2 \in Teams, ~raced'[g][t2], NEW p \in Players, <<p, t2>> \in owed'[h]
          PROVE  p \in seen[t2]
      <4>1. CASE t2 = t
        BY <2>1, <2>2, <3>6, <4>1
      <4>2. CASE t2 # t
        BY <1>0, <1>1, <2>1, <3>5, <3>6, <4>2 DEF ViewsOK
      <4> QED
        BY <4>1, <4>2
    <3>7. ViewsOK'
      BY <1>1, <2>1, <3>1, <3>6, ViewsStep
    <3> QED
      BY <3>4, <3>7
  <2> QED
    BY <2>3, <2>4
<1> QED
  BY <1>2, <1>3 DEF Show, Respond

----------------------------------------------------------------------------
(* The steps that write: what the list counts keeps everyone who is due. *)

(* A writer's list, what it holds, and that it owes nobody anything. *)
LEMMA WriterFrame ==
    ASSUME ListInv, NEW h \in Handlers, Moves(h), thread[h].pc \in Writing \union {"load"}
    PROVE  \E g \in Games, t \in Teams :
               /\ thread[h].at = g /\ thread[h].part = t
               /\ size[g][t] \in Int /\ slots[g][t] \in Seq(Names \union {Null})
               /\ thread[h].n \in Int /\ thread[h] \in ThreadType
               /\ ListOK(g, t)
BY OnList DEF ListInv, ListsOK, IInv, TypeOK, ThreadType

LEMMA ListsOnRemoval ==
    ASSUME ListInv, NEW h \in Handlers, Shift(h) \/ LoadLast(h) \/ Clear(h)
    PROVE  ListsOK' /\ ViewsOK'
<1> USE DEF ListInv
<1>1. /\ Moves(h) /\ UNCHANGED <<raced, last, owed>> /\ Unmoved(h) /\ thread \in [Handlers -> ThreadType]
      /\ thread[h].pc \in {"shift", "last", "clear"}
  BY Frame DEF Moves, Joining, Shift, LoadLast, Clear, At, IInv, TypeOK
<1>2. thread[h].pc \in Writing \union {"load"} /\ thread[h].pc \in Writing /\ thread[h].pc # "show"
  BY <1>1 DEF Writing
<1>3. PICK g \in Games, t \in Teams :
          /\ thread[h].at = g /\ thread[h].part = t
          /\ size[g][t] \in Int /\ slots[g][t] \in Seq(Names \union {Null})
          /\ thread[h].n \in Int /\ thread[h] \in ThreadType
          /\ ListOK(g, t)
  BY <1>1, <1>2, WriterFrame
<1> DEFINE n == thread[h].n
           k == size[g][t]
           a == slots[g][t]
<1>4. thread'[h].pc \in {"last", "clear", "add", "idle"} /\ (thread'[h].pc # "idle" => thread'[h].at = g /\ thread'[h].part = t)
  BY <1>1, <1>3 DEF Shift, LoadLast, Clear, Goto, GotoWith, Answer, Idle, Fresh, ThreadType
<1>5. \A g2 \in Games, t2 \in Teams : Due(g2, t2)' \subseteq Due(g2, t2)
  BY <1>1, <1>4, DueShrinks DEF At
<1>6. ASSUME NEW g2 \in Games, NEW t2 \in Teams, ~(g2 = g /\ t2 = t) PROVE ListOK(g2, t2)'
  <2>1. size'[g2][t2] = size[g2][t2] /\ slots'[g2][t2] = slots[g2][t2]
    BY <1>3, <1>6 DEF Shift, LoadLast, Clear, SetSize, SetArray, heap, IInv, TypeOK
  <2>2. thread'[h].pc \in Reading \union Writing => thread'[h].at = g /\ thread'[h].part = t
    BY <1>4 DEF Reading, Writing
  <2> QED
    BY <1>1, <1>3, <1>5, <1>6, <2>1, <2>2, OtherLists
<1>7. ViewsOK'
  BY <1>1, <1>4, ViewsStay
<1>8. ListOK(g, t)'
  <2> SUFFICES ASSUME ~raced[g][t] PROVE ListOK(g, t)'
    BY <1>1 DEF ListOK
  <2>1. Inside(h, g, t, Writing)
    BY <1>2, <1>3 DEF Inside
  <2>2. /\ \A i \in Handlers \ {h} : ~Inside(i, g, t, Reading \union Writing)
        /\ Counted(g, t) = IF thread[h].pc \in Halfway THEN k - 1 ELSE k
        /\ Solid(a, Counted(g, t)) /\ Due(g, t) \subseteq Elements(a, Counted(g, t))
        /\ LocalsFit(h, g, t)
    BY <1>3, <2>1, WriterAlone
  <2>3. CASE Shift(h)
    <3>1. thread[h].pc = "shift" /\ size'[g][t] = k /\ slots'[g][t] = Shifted(a, n, k)
          /\ thread'[h].pc = "last" /\ thread'[h].at = g /\ thread'[h].part = t
      BY <1>1, <1>3, <2>3 DEF Shift, At, SetArray, Array, Load, Goto, ThreadType, IInv, TypeOK
    <3>2. n \in 0..(k - 1) /\ Slot(a, n + 1) = thread[h].player /\ thread[h].player \notin Due(g, t)
      BY <1>3, <2>2, <3>1 DEF LocalsFit, Inside
    <3>3. Solid(a, k) /\ Due(g, t) \subseteq Elements(a, k)
      BY <2>2, <3>1 DEF Halfway
    <3>4. \A j \in Int : Slot(slots'[g][t], j) =
             IF j \in 1..Len(a) /\ j \in (n + 1)..(k - 1) THEN Slot(a, j + 1) ELSE Slot(a, j)
      BY <1>3, <3>1, SlotShifted
    <3>5. Solid(slots'[g][t], k - 1)
      <4>1. k - 1 \in Nat
        BY <1>3, <3>2
      <4>2. ASSUME NEW i \in 1..(k - 1) PROVE Slot(slots'[g][t], i) # Null
        <5>1. i \in 1..k /\ i + 1 \in 1..k
          BY <1>3, <4>2
        <5> QED
          BY <3>3, <3>4, <5>1 DEF Solid
      <4> QED
        BY <4>1, <4>2 DEF Solid
    <3>6. ASSUME NEW q \in Due(g, t)' PROVE q \in Elements(slots'[g][t], k - 1)
      <4>1. q \in Due(g, t) /\ q # Slot(a, n + 1)
        BY <1>5, <3>2, <3>6
      <4>2. PICK i \in 1..k : Slot(a, i) = q
        BY <3>3, <4>1 DEF Elements
      <4>3. i # n + 1 /\ i \in 1..Len(a) /\ Len(a) \in Nat
        BY <1>3, <3>3, <4>1, <4>2 DEF Slot, Solid
      <4>4. CASE i <= n
        <5>1. i \in 1..(k - 1) /\ Slot(slots'[g][t], i) = q
          BY <1>3, <3>2, <3>4, <4>2, <4>4
        <5> QED
          BY <5>1 DEF Elements
      <4>5. CASE i > n + 1
        <5>1. i - 1 \in 1..(k - 1) /\ i - 1 \in 1..Len(a) /\ i - 1 \in (n + 1)..(k - 1) /\ (i - 1) + 1 = i
          BY <1>3, <3>2, <4>2, <4>3, <4>5
        <5>2. Slot(slots'[g][t], i - 1) = q
          BY <3>4, <4>2, <5>1
        <5> QED
          BY <5>1, <5>2 DEF Elements
      <4> QED
        BY <1>3, <4>2, <4>3, <4>4, <4>5
    <3>7. LocalsFit(h, g, t)'
      BY <3>1 DEF LocalsFit, Inside
    <3>8. k - 1 = IF Inside(h, g, t, Halfway)' THEN size'[g][t] - 1 ELSE size'[g][t]
      BY <3>1 DEF Inside, Halfway
    <3> QED
      BY <1>1, <2>2, <3>5, <3>6, <3>7, <3>8, ListWritten
  <2>4. CASE LoadLast(h)
    <3>1. thread[h].pc = "last" /\ size'[g][t] = k /\ slots'[g][t] = a
          /\ thread'[h].pc = "clear" /\ thread'[h].n = k - 1 /\ thread'[h].at = g /\ thread'[h].part = t
      BY <1>1, <1>3, <2>4 DEF LoadLast, At, heap, Load, GotoWith, ThreadType
    <3>2. Solid(a, k - 1) /\ Due(g, t) \subseteq Elements(a, k - 1)
      BY <2>2, <3>1 DEF Halfway
    <3>3. LocalsFit(h, g, t)'
      BY <3>1 DEF LocalsFit, Inside
    <3>4. k - 1 = IF Inside(h, g, t, Halfway)' THEN size'[g][t] - 1 ELSE size'[g][t]
      BY <3>1 DEF Inside, Halfway
    <3> QED
      BY <1>1, <1>5, <2>2, <3>1, <3>2, <3>3, <3>4, ListWritten
  <2>5. CASE Clear(h)
    <3>1. thread[h].pc = "clear" /\ n = k - 1 /\ Solid(a, k - 1) /\ Due(g, t) \subseteq Elements(a, k - 1)
      BY <1>3, <2>2, <2>5 DEF Clear, At, LocalsFit, Inside, Halfway
    <3>2. n \in Nat
      BY <3>1 DEF Solid
    <3>3. size'[g][t] = n /\ slots'[g][t] = Stored(a, n, Null) /\ thread'[h].pc = "add"
      BY <1>1, <1>3, <2>5, <3>2 DEF Clear, SetSize, SetArray, Array, Goto, ThreadType, IInv, TypeOK
    <3>4. \A j \in 1..n : Slot(slots'[g][t], j) = Slot(a, j)
      <4>1. ASSUME NEW j \in 1..n PROVE Slot(slots'[g][t], j) = Slot(a, j)
        <5>1. j \in Int /\ j # n + 1
          BY <3>2, <4>1
        <5> QED
          BY <1>3, <3>2, <3>3, <5>1, SlotStored
      <4> QED
        BY <4>1
    <3>5. Solid(slots'[g][t], n) /\ Due(g, t)' \subseteq Elements(slots'[g][t], n)
      BY <1>5, <3>1, <3>2, <3>4 DEF Solid, Elements
    <3>6. LocalsFit(h, g, t)'
      BY <3>3 DEF LocalsFit, Inside
    <3>7. n = IF Inside(h, g, t, Halfway)' THEN size'[g][t] - 1 ELSE size'[g][t]
      BY <3>3 DEF Inside, Halfway
    <3> QED
      BY <1>1, <2>2, <3>5, <3>6, <3>7, ListWritten
  <2> QED
    BY <2>3, <2>4, <2>5
<1> QED
  BY <1>6, <1>7, <1>8 DEF ListsOK

LEMMA ListsOnAdding ==
    ASSUME ListInv, NEW h \in Handlers, LoadSize(h) \/ StoreSize(h) \/ Store(h)
    PROVE  ListsOK' /\ ViewsOK'
<1> USE DEF ListInv
<1>1. /\ Moves(h) /\ UNCHANGED owed /\ Unmoved(h) /\ thread \in [Handlers -> ThreadType]
      /\ thread[h].pc \in {"load", "size", "store"}
      /\ \A g \in Games, t \in Teams : raced[g][t] => raced'[g][t]
  BY Frame DEF Moves, Joining, LoadSize, StoreSize, Store, At, IInv, TypeOK
<1>2. thread[h].pc \in Writing \union {"load"} /\ thread[h].pc \notin Reading /\ thread[h].pc # "show"
  BY <1>1 DEF Writing, Reading
<1>3. PICK g \in Games, t \in Teams :
          /\ thread[h].at = g /\ thread[h].part = t
          /\ size[g][t] \in Int /\ slots[g][t] \in Seq(Names \union {Null})
          /\ thread[h].n \in Int /\ thread[h] \in ThreadType
          /\ ListOK(g, t)
  BY <1>1, <1>2, WriterFrame
<1> DEFINE n == thread[h].n
           k == size[g][t]
           a == slots[g][t]
           p == thread[h].player
<1>4. p \in Players /\ thread[h].team = t /\ p # Null /\ p \in Names
  <2>1. thread[h].op = "join" /\ thread[h].part = thread[h].team
    BY <1>1 DEF IInv, StepsKnown, JoinSteps
  <2> QED
    BY <1>1, <1>3, <2>1, NamesAssumption DEF IInv, TypeOK, Names
<1>5. thread'[h].pc \in {"size", "store", "idle"} /\ (thread'[h].pc # "idle" => thread'[h].at = g /\ thread'[h].part = t)
  BY <1>1, <1>3 DEF LoadSize, StoreSize, Store, Goto, GotoWith, Answer, Idle, Fresh, ThreadType
<1>6. \/ UNCHANGED last
      \/ Store(h) /\ last' = [last EXCEPT ![g][p] = t]
  BY <1>3, <1>4 DEF LoadSize, StoreSize, Store
<1>7. ASSUME NEW g2 \in Games, NEW t2 \in Teams, NEW q \in Due(g2, t2)', q \notin Due(g2, t2)
      PROVE  g2 = g /\ t2 = t /\ q = p /\ Store(h)
  <2>1. q \in Players /\ last'[g2][q] = t2 /\ last[g2][q] # t2
    BY <1>1, <1>5, <1>7 DEF Due, At, Unmoved
  <2>2. last \in [Games -> [Players -> Teams \union {None}]]
    BY DEF IInv, TypeOK
  <2> QED
    BY <1>4, <1>6, <2>1, <2>2
<1>8. ASSUME NEW g2 \in Games, NEW t2 \in Teams, ~(g2 = g /\ t2 = t) PROVE ListOK(g2, t2)'
  <2>1. size'[g2][t2] = size[g2][t2] /\ slots'[g2][t2] = slots[g2][t2]
    BY <1>3, <1>8 DEF LoadSize, StoreSize, Store, SetSize, SetArray, heap, IInv, TypeOK
  <2>2. /\ thread'[h].pc \in Reading \union Writing => thread'[h].at = g /\ thread'[h].part = t
        /\ Due(g2, t2)' \subseteq Due(g2, t2)
    BY <1>5, <1>7, <1>8 DEF Reading, Writing
  <2> QED
    BY <1>1, <1>3, <1>8, <2>1, <2>2, OtherLists
<1>9. ViewsOK'
  BY <1>1, <1>5, ViewsStay
<1>10. ListOK(g, t)'
  <2> SUFFICES ASSUME ~raced'[g][t] PROVE ListOK(g, t)'
    BY DEF ListOK
  <2>1. ~raced[g][t]
    BY <1>1
  <2>2. CASE LoadSize(h)
    <3>1. thread[h].pc = "load" /\ size'[g][t] = k /\ slots'[g][t] = a /\ UNCHANGED last
          /\ thread'[h].pc = "size" /\ thread'[h].n = k /\ Enters(h, g, t, Reading \union Writing)
      BY <1>1, <1>3, <2>2 DEF LoadSize, At, heap, Load, GotoWith, ThreadType, EntersToWrite
    <3>2. \A i \in Handlers \ {h} : ~Inside(i, g, t, Reading \union Writing)
      BY <1>3, <3>1, EntersFrame
    <3>3. \A i \in Handlers : ~Inside(i, g, t, Writing)
      BY <3>1, <3>2 DEF Inside, Writing
    <3>4. Counted(g, t) = k
      BY <3>3, QuietCounts
    <3>5. Solid(a, k) /\ Due(g, t) \subseteq Elements(a, k)
      BY <1>3, <2>1, <3>4 DEF ListOK
    <3>6. LocalsFit(h, g, t)'
      BY <3>1 DEF LocalsFit, Inside
    <3>7. k = IF Inside(h, g, t, Halfway)' THEN size'[g][t] - 1 ELSE size'[g][t]
      BY <3>1 DEF Inside, Halfway
    <3>8. Due(g, t)' \subseteq Due(g, t)
      BY <1>7, <3>1, <2>2 DEF LoadSize, Store, At
    <3> QED
      BY <1>1, <3>1, <3>2, <3>5, <3>6, <3>7, <3>8, ListWritten
  <2>3. CASE StoreSize(h) \/ Store(h)
    <3>1. Inside(h, g, t, Writing)
      BY <1>3, <2>3 DEF Inside, StoreSize, Store, At, Writing
    <3>2. /\ \A i \in Handlers \ {h} : ~Inside(i, g, t, Reading \union Writing)
          /\ Counted(g, t) = IF thread[h].pc \in Halfway THEN k - 1 ELSE k
          /\ Solid(a, Counted(g, t)) /\ Due(g, t) \subseteq Elements(a, Counted(g, t))
          /\ LocalsFit(h, g, t)
      BY <1>3, <2>1, <3>1, WriterAlone
    <3>3. CASE StoreSize(h)
      <4>1. thread[h].pc = "size" /\ size'[g][t] = n + 1 /\ slots'[g][t] = a
            /\ thread'[h].pc = "store" /\ thread'[h].n = n
        BY <1>1, <1>3, <3>3 DEF StoreSize, At, SetSize, Goto, ThreadType, IInv, TypeOK
      <4>2. n = k /\ Solid(a, k) /\ Due(g, t) \subseteq Elements(a, k)
        BY <1>3, <3>2, <4>1 DEF LocalsFit, Inside, Halfway
      <4>3. thread'[h].n = size'[g][t] - 1
        BY <1>3, <4>1
      <4>4. LocalsFit(h, g, t)'
        BY <4>1, <4>3 DEF LocalsFit, Inside
      <4>5. k = IF Inside(h, g, t, Halfway)' THEN size'[g][t] - 1 ELSE size'[g][t]
        BY <1>3, <1>5, <4>1, <4>2 DEF Inside, Halfway
      <4>6. Due(g, t)' \subseteq Due(g, t)
        BY <1>7, <4>1 DEF Store, At
      <4> QED
        BY <1>1, <3>2, <4>1, <4>2, <4>4, <4>5, <4>6, ListWritten
    <3>4. CASE Store(h)
      <4>1. thread[h].pc = "store" /\ n = k - 1 /\ Solid(a, k - 1) /\ Due(g, t) \subseteq Elements(a, k - 1)
        BY <1>3, <3>2, <3>4 DEF Store, At, LocalsFit, Inside, Halfway
      <4>2. n \in Nat /\ k = n + 1
        BY <1>3, <4>1 DEF Solid
      <4>3. size'[g][t] = k /\ slots'[g][t] = Stored(a, n, p) /\ thread'[h].pc = "idle"
        BY <1>1, <1>3, <3>4, <4>2 DEF Store, SetArray, Array, Answer, Idle, Fresh, IInv, TypeOK
      <4>4. \A j \in 1..k : Slot(slots'[g][t], j) = IF j = k THEN p ELSE Slot(a, j)
        <5>1. ASSUME NEW j \in 1..k PROVE Slot(slots'[g][t], j) = IF j = k THEN p ELSE Slot(a, j)
          <6>1. j \in Int
            OBVIOUS
          <6> QED
            BY <1>3, <1>4, <4>2, <4>3, <6>1, SlotStored
        <5> QED
          BY <5>1
      <4>5. Solid(slots'[g][t], k)
        BY <1>4, <4>1, <4>2, <4>4 DEF Solid
      <4>6. ASSUME NEW q \in Due(g, t)' PROVE q \in Elements(slots'[g][t], k)
        <5>1. CASE q = p
          <6>1. k \in 1..k
            BY <4>2
          <6> QED
            BY <4>4, <5>1, <6>1 DEF Elements
        <5>2. CASE q # p
          <6>1. PICK i \in 1..(k - 1) : Slot(a, i) = q
            BY <1>7, <4>1, <4>6, <5>2 DEF Elements
          <6>2. i \in 1..k /\ i # k
            BY <4>2
          <6> QED
            BY <4>4, <6>1, <6>2 DEF Elements
        <5> QED
          BY <5>1, <5>2
      <4>7. LocalsFit(h, g, t)'
        BY <4>3 DEF LocalsFit, Inside
      <4>8. k = IF Inside(h, g, t, Halfway)' THEN size'[g][t] - 1 ELSE size'[g][t]
        BY <4>3 DEF Inside, Halfway
      <4> QED
        BY <1>1, <3>2, <4>5, <4>6, <4>7, <4>8, ListWritten
    <3> QED
      BY <2>3, <3>3, <3>4
  <2> QED
    BY <2>2, <2>3
<1> QED
  BY <1>8, <1>9, <1>10 DEF ListsOK

LEMMA SeedsType ==
    ASSUME NEW t \in Teams
    PROVE  /\ Seeds[t] \in Seq(Names \union {Null})
           /\ \A i \in 1..Len(Seeds[t]) : Seeds[t][i] # Null
<1>1. Seeds[t] \in Seq(STRING)
  BY SeedsAssumption
<1>2. \A i \in 1..Len(Seeds[t]) : Seeds[t][i] \in SeedNames(t)
  BY DEF SeedNames
<1>3. SeedNames(t) \subseteq Names
  BY DEF Names, Teams
<1>4. Seeds[t] \in [1..Len(Seeds[t]) -> Names \union {Null}] /\ Len(Seeds[t]) \in Nat
  BY <1>1, <1>2, <1>3
<1> QED
  BY <1>2, <1>4, SeqOfFunction, NamesAssumption

LEMMA ListsOnSeeding ==
    ASSUME ListInv, NEW h \in Handlers, NEW t \in Teams, Seed(h, t)
    PROVE  ListsOK' /\ ViewsOK'
<1> USE DEF ListInv
<1>1. /\ Moves(h) /\ UNCHANGED <<size, last, owed>> /\ Unmoved(h) /\ thread \in [Handlers -> ThreadType]
      /\ thread[h] \in ThreadType /\ thread[h].pc \in {"seedRed", "seedBlue"}
  <2>1. Moves(h)
    BY DEF Moves, Answering
  <2>2. thread[h].pc \in {"seedRed", "seedBlue"}
    BY DEF Seed, At, SeedStep, Teams
  <2>3. UNCHANGED <<size, last, owed>>
    BY DEF Seed
  <2>4. thread \in [Handlers -> ThreadType]
    BY DEF IInv, TypeOK
  <2> QED
    BY <2>1, <2>2, <2>3, <2>4, Frame
<1>2. thread[h].pc \notin Writing /\ thread[h].pc \notin Reading
  BY <1>1 DEF Writing, Reading
<1>3. CASE game = NoGame
  <2>1. thread'[h].pc \in {"seedBlue", "idle"} /\ UNCHANGED slots
    BY <1>1, <1>3 DEF Seed, AfterSeed, Goto, Idle, Fresh, ThreadType
  <2>2. \A g2 \in Games, t2 \in Teams : Due(g2, t2)' \subseteq Due(g2, t2)
    BY <1>1, <2>1, DueShrinks DEF At
  <2>3. thread'[h].pc \notin Writing /\ thread'[h].pc \notin Reading
    BY <2>1 DEF Writing, Reading
  <2>4. ListsOK'
    BY <1>1, <1>2, <2>1, <2>2, <2>3, ListsStay
  <2> QED
    BY <1>1, <2>1, <2>4, ViewsStay
<1>4. CASE game # NoGame
  <2>1. PICK g \in Games : g = game
    BY <1>4 DEF IInv, TypeOK
  <2> DEFINE k == size[g][t]
             a == slots[g][t]
             new == Seeds[t]
  <2>2. /\ k \in Int /\ a \in Seq(Names \union {Null})
        /\ slots \in [Games -> [Teams -> Seq(Names \union {Null})]]
        /\ new \in Seq(Names \union {Null}) /\ Len(new) \in Nat
    BY SeedsType DEF IInv, TypeOK
  <2>3. /\ thread'[h].pc = "grow" /\ thread'[h].at = g /\ thread'[h].part = t
        /\ Enters(h, g, t, Reading \union Writing)
        /\ slots' = [slots EXCEPT ![g][t] = Extended(a, k, new)]
    BY <1>1, <1>4, <2>1 DEF Seed, GotoList, EntersToWrite, ThreadType
  <2>4. \A g2 \in Games, t2 \in Teams : Due(g2, t2)' \subseteq Due(g2, t2)
    BY <1>1, <2>3, DueShrinks DEF At
  <2>5. ViewsOK'
    BY <1>1, <2>3, ViewsStay
  <2>6. ASSUME NEW g2 \in Games, NEW t2 \in Teams, ~(g2 = g /\ t2 = t) PROVE ListOK(g2, t2)'
    <3>1. size'[g2][t2] = size[g2][t2] /\ slots'[g2][t2] = slots[g2][t2]
      BY <1>1, <2>2, <2>3, <2>6
    <3> QED
      BY <1>1, <1>2, <2>3, <2>4, <2>6, <3>1, OtherLists
  <2>7. ListOK(g, t)'
    <3> SUFFICES ASSUME ~raced'[g][t] PROVE ListOK(g, t)'
      BY DEF ListOK
    <3>1. ~raced[g][t] /\ \A i \in Handlers \ {h} : ~Inside(i, g, t, Reading \union Writing)
      BY <1>1, <2>3, Frame, EntersFrame
    <3>2. \A i \in Handlers : ~Inside(i, g, t, Writing)
      BY <1>2, <3>1 DEF Inside, Writing
    <3>3. Counted(g, t) = k
      BY <3>2, QuietCounts
    <3>4. Solid(a, k) /\ Due(g, t) \subseteq Elements(a, k) /\ k \in Nat
      BY <3>1, <3>3 DEF ListsOK, ListOK, Solid
    <3>5. slots'[g][t] = Extended(a, k, new) /\ size'[g][t] = k
      BY <1>1, <2>2, <2>3
    <3>6. \A j \in Int : Slot(slots'[g][t], j) =
             IF j \in (k + 1)..(k + Len(new)) THEN new[j - k] ELSE Slot(a, j)
      BY <2>2, <3>4, <3>5, SlotExtended
    <3>7. \A j \in 1..k : Slot(slots'[g][t], j) = Slot(a, j)
      BY <3>4, <3>6
    <3>8. Solid(slots'[g][t], k) /\ Due(g, t)' \subseteq Elements(slots'[g][t], k)
      BY <2>4, <3>4, <3>7 DEF Solid, Elements
    <3>9. ASSUME NEW i \in 1..Len(new) PROVE Slot(slots'[g][t], k + i) = new[i]
      <4>1. k + i \in Int /\ k + i \in (k + 1)..(k + Len(new)) /\ (k + i) - k = i
        BY <2>2, <3>4
      <4> QED
        BY <3>6, <4>1
    <3>10. LocalsFit(h, g, t)'
      BY <2>3, <3>5, <3>9 DEF LocalsFit, Inside
    <3>11. k = IF Inside(h, g, t, Halfway)' THEN size'[g][t] - 1 ELSE size'[g][t]
      BY <2>3, <3>5 DEF Inside, Halfway
    <3> QED
      BY <1>1, <3>1, <3>8, <3>10, <3>11, ListWritten
  <2> QED
    BY <2>5, <2>6, <2>7 DEF ListsOK
<1> QED
  BY <1>3, <1>4

LEMMA ListsOnGrowing ==
    ASSUME ListInv, NEW h \in Handlers, Grow(h)
    PROVE  ListsOK' /\ ViewsOK'
<1> USE DEF ListInv
<1>1. /\ Moves(h) /\ UNCHANGED <<raced, slots, last, owed>> /\ Unmoved(h) /\ thread \in [Handlers -> ThreadType]
      /\ thread[h].pc = "grow"
  BY Frame DEF Moves, Answering, Grow, At, IInv, TypeOK
<1>2. thread[h].pc \in Writing \union {"load"} /\ thread[h].pc \in Writing
  BY <1>1 DEF Writing
<1>3. PICK g \in Games, t \in Teams :
          /\ thread[h].at = g /\ thread[h].part = t
          /\ size[g][t] \in Int /\ slots[g][t] \in Seq(Names \union {Null})
          /\ thread[h].n \in Int /\ thread[h] \in ThreadType
          /\ ListOK(g, t)
  BY <1>1, <1>2, WriterFrame
<1> DEFINE k == size[g][t]
           a == slots[g][t]
           m == k + Len(Seeds[t])
<1>4. thread'[h].pc \in {"seedBlue", "idle"}
  BY <1>1, <1>3 DEF Grow, AfterSeed, Goto, Idle, Fresh, ThreadType
<1>5. size' = [size EXCEPT ![g][t] = m] /\ size'[g][t] = m
  BY <1>3 DEF Grow, SetSize, Load, IInv, TypeOK
<1>6. thread'[h].pc \notin Reading \union Writing
  BY <1>4 DEF Reading, Writing
<1>7. \A g2 \in Games, t2 \in Teams : Due(g2, t2)' \subseteq Due(g2, t2)
  BY <1>1, <1>4, DueShrinks DEF At
<1>8. ASSUME NEW g2 \in Games, NEW t2 \in Teams, ~(g2 = g /\ t2 = t) PROVE ListOK(g2, t2)'
  <2>1. size'[g2][t2] = size[g2][t2] /\ slots'[g2][t2] = slots[g2][t2]
    BY <1>1, <1>5, <1>8 DEF IInv, TypeOK
  <2> QED
    BY <1>1, <1>3, <1>6, <1>7, <1>8, <2>1, OtherLists
<1>9. ViewsOK'
  BY <1>1, <1>4, ViewsStay
<1>10. ListOK(g, t)'
  <2> SUFFICES ASSUME ~raced[g][t] PROVE ListOK(g, t)'
    BY <1>1 DEF ListOK
  <2>1. Inside(h, g, t, Writing)
    BY <1>2, <1>3 DEF Inside
  <2>2. /\ \A i \in Handlers \ {h} : ~Inside(i, g, t, Reading \union Writing)
        /\ Solid(a, k) /\ Due(g, t) \subseteq Elements(a, k)
        /\ \A i \in 1..Len(Seeds[t]) : Slot(a, k + i) = Seeds[t][i]
    <3>1. /\ \A i \in Handlers \ {h} : ~Inside(i, g, t, Reading \union Writing)
          /\ Counted(g, t) = IF thread[h].pc \in Halfway THEN k - 1 ELSE k
          /\ Solid(a, Counted(g, t)) /\ Due(g, t) \subseteq Elements(a, Counted(g, t))
          /\ LocalsFit(h, g, t)
      BY <1>3, <2>1, WriterAlone
    <3>2. Counted(g, t) = k
      BY <1>1, <3>1 DEF Halfway
    <3>3. \A i \in 1..Len(Seeds[t]) : Slot(a, k + i) = Seeds[t][i]
      BY <1>1, <1>3, <3>1 DEF LocalsFit, Inside
    <3> QED
      BY <3>1, <3>2, <3>3
  <2>3. k \in Nat /\ Len(Seeds[t]) \in Nat /\ \A i \in 1..Len(Seeds[t]) : Seeds[t][i] # Null
    BY <2>2, SeedsType DEF Solid
  <2>4. ASSUME NEW j \in 1..m PROVE Slot(a, j) # Null
    <3>1. CASE j \in 1..k
      BY <2>2, <3>1 DEF Solid
    <3>2. CASE j \notin 1..k
      <4>1. j - k \in 1..Len(Seeds[t]) /\ k + (j - k) = j
        BY <2>3, <2>4, <3>2
      <4> QED
        BY <2>2, <2>3, <4>1
    <3> QED
      BY <3>1, <3>2
  <2>5. Solid(slots'[g][t], m) /\ Due(g, t)' \subseteq Elements(slots'[g][t], m)
    <3>1. 1..k \subseteq 1..m /\ m \in Nat
      BY <2>3
    <3> QED
      BY <1>1, <1>7, <2>2, <2>4, <3>1 DEF Solid, Elements
  <2>6. LocalsFit(h, g, t)'
    BY <1>4 DEF LocalsFit, Inside
  <2>7. m = IF Inside(h, g, t, Halfway)' THEN size'[g][t] - 1 ELSE size'[g][t]
    BY <1>4, <1>5 DEF Inside, Halfway
  <2> QED
    BY <1>1, <2>2, <2>5, <2>6, <2>7, ListWritten
<1> QED
  BY <1>8, <1>9, <1>10 DEF ListsOK

----------------------------------------------------------------------------

LEMMA ListInitial == Init => ListInv
<1> SUFFICES ASSUME Init PROVE ListInv
  OBVIOUS
<1>1. IInv
  BY InitialInv
<1>2. ASSUME NEW g \in Games, NEW t \in Teams PROVE ListOK(g, t)
  <2>1. \A h \in Handlers : \A S : ~Inside(h, g, t, S) /\ ~At(h, "show")
    BY DEF Init, Inside, At, Idle, Fresh, NoGame, Games
  <2>2. Counted(g, t) = 0 /\ Due(g, t) = {}
    BY <2>1 DEF Counted, Due, Init, None, Teams
  <2>3. Solid(slots[g][t], 0)
    BY DEF Solid
  <2> QED
    BY <2>1, <2>2, <2>3 DEF ListOK, Exclusive, LocalsFit
<1>3. ViewsOK
  BY DEF Init, ViewsOK, Seen, At, Idle, Fresh
<1> QED
  BY <1>1, <1>2, <1>3 DEF ListInv, ListsOK

LEMMA ListsInductive == Spec => []ListInv
<1>1. Init => ListInv
  BY ListInitial
<1>2. ListInv /\ IInv' /\ [Next]_vars => ListInv'
  <2> SUFFICES ASSUME ListInv, IInv', [Next]_vars PROVE ListsOK' /\ ViewsOK'
    BY DEF ListInv
  <2>1. ASSUME NEW h \in Handlers, Requests(h) PROVE ListsOK' /\ ViewsOK'
    BY <2>1, ListsOnRequest
  <2>2. ASSUME NEW h \in Handlers, Joining(h) PROVE ListsOK' /\ ViewsOK'
    BY <2>2, ListsOnDeref, ListsOnSearch, ListsOnRemoval, ListsOnAdding DEF Joining
  <2>3. ASSUME NEW h \in Handlers, Answering(h) PROVE ListsOK' /\ ViewsOK'
    BY <2>3, ListsOnSeeding, ListsOnGrowing, ListsOnShow DEF Answering
  <2>4. CASE UNCHANGED vars
    BY <2>4 DEF vars, heap, ListInv, ListsOK, ListOK, ViewsOK, Seen, At, Inside, Exclusive, Solid,
               Counted, Due, LocalsFit
  <2> QED
    BY <2>1, <2>2, <2>3, <2>4 DEF Next
<1> QED
  BY <1>1, <1>2, Inductive, PTL DEF Spec

(* Nobody's join takes a player out of the team that he joined last, in the     *)
(* current or in any earlier game, as long as no two handlers met in the list. *)
THEOREM JoinsDoNotDisturb == Spec => []MembersKept
<1>1. ListInv => MembersKept
  <2> SUFFICES ASSUME ListInv, NEW g \in Games, NEW p \in Players, last[g][p] # None,
                      ~raced[g][last[g][p]]
               PROVE  p \in Members(g, last[g][p])
    BY DEF MembersKept
  <2>1. PICK t \in Teams : t = last[g][p]
    BY DEF ListInv, IInv, TypeOK
  <2>2. Solid(slots[g][t], Counted(g, t)) /\ p \in Elements(slots[g][t], Counted(g, t))
    BY <2>1 DEF ListInv, ListsOK, ListOK, Due
  <2>3. size[g][t] \in Int /\ Counted(g, t) \in {size[g][t], size[g][t] - 1}
    BY DEF ListInv, IInv, TypeOK, Counted
  <2>4. 1..Counted(g, t) \subseteq 1..size[g][t]
    BY <2>3
  <2> QED
    BY <2>1, <2>2, <2>4 DEF Members, Elements
<1> QED
  BY <1>1, ListsInductive, PTL

(* Every join that was answered before a GET began is in what the GET shows,    *)
(* unless the player asked for the other team or two handlers met in the list. *)
THEOREM GetShowsAnswered == Spec => []AnsweredJoinsShown
<1>1. ListInv => AnsweredJoinsShown
  <2> SUFFICES ASSUME ListInv, NEW h \in Handlers, At(h, "shown"), NEW m \in owed[h],
                      ~raced[thread[h].at][m[2]]
               PROVE  m[1] \in thread[h].view[m[2]]
    BY DEF AnsweredJoinsShown
  <2>1. PICK p \in Players, t \in Teams : m = <<p, t>>
    BY DEF ListInv, IInv, TypeOK
  <2> QED
    BY <2>1 DEF ListInv, ViewsOK, Seen
<1> QED
  BY <1>1, ListsInductive, PTL

----------------------------------------------------------------------------

(* Orderly phones and one creation at a time: nobody is in both teams of a  *)
(* game or in one of them twice, as long as no two handlers met in a list.  *)
(* A join adds its player where its removal made sure that he was not; the  *)
(* game may have been deleted, or another created, between the two.         *)

(* The test players have names of their own: five names in TestServiceImpl's    *)
(* initPlayers, which no phone's user has (equals compares names).              *)
DistinctSeeds ==
    /\ \A t \in Teams : \A i, j \in 1..Len(Seeds[t]) : Seeds[t][i] = Seeds[t][j] => i = j
    /\ SeedNames("red") \cap SeedNames("blue") = {}
    /\ \A t \in Teams : SeedNames(t) \cap Players = {}

(* Where a list holds a name in the part that counts. *)
Places(g, t, p) == {i \in 1..Counted(g, t) : Slot(slots[g][t], i) = p}
Once(g, t, p) == \A i, j \in Places(g, t, p) : i = j
Absent(g, p) == \A t \in Teams : Places(g, t, p) = {}
Single(g, p) ==
    \A t \in Teams : Once(g, t, p) /\ (Places(g, t, p) # {} => Places(g, Other[t], p) = {})
NotRaced(g) == \A t \in Teams : ~raced[g][t]

(* What a step may not do: put a name where it was not, or double it. *)
NoNew(g, t, p) ==
    /\ Places(g, t, p) = {} => Places(g, t, p)' = {}
    /\ Once(g, t, p) => Once(g, t, p)'

----------------------------------------------------------------------------

(* A non-empty set of natural numbers has a least one: the initial segments up  *)
(* to its elements are well-founded by inclusion.                               *)
LEMMA LeastOf ==
    ASSUME NEW S, S \subseteq Nat, S # {}
    PROVE  \E m \in S : \A j \in S : m <= j
<1>1. PICK n \in S : n \in Nat
  OBVIOUS
<1> DEFINE T == {0..i : i \in S \cap (0..n)}
<1>2. T \subseteq FiniteSubsetsOf(Nat)
  <2>1. ASSUME NEW i \in S \cap (0..n) PROVE 0..i \in FiniteSubsetsOf(Nat)
    <3>1. IsFiniteSet(0..i) /\ 0..i \in SUBSET Nat
      BY FS_Interval
    <3> QED
      BY <3>1 DEF FiniteSubsetsOf
  <2> QED
    BY <2>1
<1>3. n \in S \cap (0..n)
  BY <1>1
<1>4. T # {}
  BY <1>3
<1>5. PICK x \in T : \A y \in T : ~(<<y, x>> \in StrictSubsetOrdering(Nat))
  <2> HIDE DEF T
  <2> QED
    BY <1>2, <1>4, FS_StrictSubsetOrderingWellFounded, WFMin
<1>6. PICK m \in S \cap (0..n) : x = 0..m
  OBVIOUS
<1>7. ASSUME NEW j \in S, ~(m <= j) PROVE FALSE
  <2>1. j \in S \cap (0..n) /\ j < m
    BY <1>1, <1>6, <1>7
  <2>2. 0..j \in T
    BY <2>1
  <2>3. 0..j \subseteq 0..m /\ 0..j # 0..m /\ 0..j \in SUBSET Nat /\ 0..m \in SUBSET Nat
    <3>1. m \in 0..m /\ m \notin 0..j
      BY <1>6, <2>1
    <3>2. 0..j \subseteq 0..m
      BY <1>6, <2>1
    <3> QED
      BY <3>1, <3>2
  <2>4. <<0..j, 0..m>> \in StrictSubsetOrdering(Nat)
    BY <2>3 DEF StrictSubsetOrdering
  <2> QED
    BY <1>5, <1>6, <2>2, <2>4
<1> QED
  BY <1>7

(* remove(Object) that finds nobody has looked at every place. *)
LEMMA FoundNobody ==
    ASSUME NEW a, NEW k \in Nat, NEW p, Found(a, k, p) = {}
    PROVE  \A i \in 1..k : Slot(a, i) # p
<1> DEFINE S == {i \in 1..k : Slot(a, i) = p}
<1> SUFFICES ASSUME S # {} PROVE FALSE
  OBVIOUS
<1>1. S \subseteq Nat
  OBVIOUS
<1>2. PICK m \in S : \A j \in S : m <= j
  BY <1>1, LeastOf
<1>3. m \in 1..k /\ Slot(a, m) = p
  BY <1>2
<1>4. ASSUME NEW j \in 1..(m - 1) PROVE Slot(a, j) # p
  <2>1. j \in 1..k /\ j < m
    BY <1>3
  <2> QED
    BY <1>2, <2>1
<1>5. m \in Found(a, k, p)
  BY <1>3, <1>4 DEF Found
<1> QED
  BY <1>5

----------------------------------------------------------------------------
(* Where a step may put a name. *)

LEMMA StoredNames ==
    ASSUME NEW a \in Seq(Names \union {Null}), NEW i \in Nat, NEW x \in Names \union {Null}, NEW j \in Int
    PROVE  Slot(Stored(a, i, x), j) = IF j = i + 1 THEN x ELSE Slot(a, j)
<1>1. PICK S : S = Names \union {Null} /\ Null \in S
  OBVIOUS
<1> QED
  BY <1>1, SlotStored

LEMMA SamePlaces ==
    ASSUME NEW h \in Handlers, Unmoved(h), NEW g \in Games, NEW t \in Teams,
           size'[g][t] = size[g][t], slots'[g][t] = slots[g][t],
           Inside(h, g, t, Halfway)' <=> Inside(h, g, t, Halfway)
    PROVE  \A q : Places(g, t, q)' = Places(g, t, q) /\ NoNew(g, t, q)
<1>1. \A k \in Handlers : Inside(k, g, t, Halfway)' <=> Inside(k, g, t, Halfway)
  BY DEF Unmoved, Inside
<1>2. Counted(g, t)' = Counted(g, t)
  BY <1>1 DEF Counted
<1>3. \A q : Places(g, t, q)' = Places(g, t, q)
  BY <1>2 DEF Places
<1>4. ASSUME NEW q PROVE NoNew(g, t, q)
  BY <1>3 DEF NoNew, Once
<1> QED
  BY <1>3, <1>4

(* The steps that write nothing leave every name where it is. *)
LEMMA PlacesUnwritten ==
    ASSUME ListInv, NEW h \in Handlers, Moves(h), UNCHANGED <<size, slots>>,
           thread[h].pc \notin Halfway, thread'[h].pc \notin Halfway,
           NEW g \in Games, NEW t \in Teams
    PROVE  \A q : Places(g, t, q)' = Places(g, t, q) /\ NoNew(g, t, q)
BY Frame, SamePlaces DEF ListInv, Inside

(* Neither do the steps that write another list. *)
LEMMA PlacesElsewhere ==
    ASSUME ListInv, NEW h \in Handlers, Moves(h), NEW g \in Games, NEW t \in Teams,
           size'[g][t] = size[g][t], slots'[g][t] = slots[g][t],
           thread[h].pc \in Halfway => ~(thread[h].at = g /\ thread[h].part = t),
           thread'[h].pc \in Halfway => ~(thread'[h].at = g /\ thread'[h].part = t)
    PROVE  \A q : Places(g, t, q)' = Places(g, t, q) /\ NoNew(g, t, q)
BY Frame, SamePlaces DEF ListInv, Inside

(* The list that a handler writes, in which no two have met: what it counts     *)
(* before and after the step is told by the handler's own place in its code.    *)
LEMMA WrittenCounts ==
    ASSUME ListInv, NEW h \in Handlers, Moves(h), NEW g \in Games, NEW t \in Teams,
           ~raced[g][t], Inside(h, g, t, Writing)
    PROVE  /\ Counted(g, t) = IF thread[h].pc \in Halfway THEN size[g][t] - 1 ELSE size[g][t]
           /\ Counted(g, t)' = IF Inside(h, g, t, Halfway)' THEN size'[g][t] - 1 ELSE size'[g][t]
           /\ Counted(g, t) \in Nat
           /\ \A i \in 1..Counted(g, t) : Slot(slots[g][t], i) # Null
           /\ LocalsFit(h, g, t)
<1>1. Unmoved(h) /\ ListOK(g, t)
  BY Frame DEF ListInv, ListsOK
<1>2. /\ \A k \in Handlers \ {h} : ~Inside(k, g, t, Reading \union Writing)
      /\ Counted(g, t) = IF thread[h].pc \in Halfway THEN size[g][t] - 1 ELSE size[g][t]
      /\ Solid(slots[g][t], Counted(g, t)) /\ LocalsFit(h, g, t)
  BY <1>1, WriterAlone DEF ListInv
<1>3. \A k \in Handlers \ {h} : ~Inside(k, g, t, Halfway)'
  BY <1>1, <1>2 DEF Unmoved, Inside, Halfway, Writing
<1>4. Counted(g, t)' = IF Inside(h, g, t, Halfway)' THEN size'[g][t] - 1 ELSE size'[g][t]
  BY <1>3 DEF Counted
<1> QED
  BY <1>2, <1>4 DEF Solid

(* remove's arraycopy closes the gap: no name comes to a second place, and the  *)
(* player who was found is gone if that was his only place.                     *)
LEMMA PlacesOnShift ==
    ASSUME ListInv, NEW h \in Handlers, Shift(h), NEW g \in Games, NEW t \in Teams,
           thread[h].at = g, thread[h].part = t, ~raced[g][t],
           NEW p, thread[h].player = p
    PROVE  /\ \A q \in Names : NoNew(g, t, q)
           /\ Once(g, t, p) => Places(g, t, p)' = {}
           /\ Places(g, t, p) # {}
<1> DEFINE n == thread[h].n
           k == size[g][t]
           a == slots[g][t]
<1>1. thread[h].pc = "shift" /\ Moves(h) /\ Inside(h, g, t, Writing)
  BY DEF Shift, At, Moves, Joining, Inside, Writing
<1>2. /\ Counted(g, t) = k /\ k \in Nat /\ \A i \in 1..k : Slot(a, i) # Null
      /\ n \in 0..(k - 1) /\ Slot(a, n + 1) = p
  <2>1. Counted(g, t) = k /\ k \in Nat /\ \A i \in 1..k : Slot(a, i) # Null
    BY <1>1, WrittenCounts DEF Halfway
  <2>2. LocalsFit(h, g, t) /\ Inside(h, g, t, {"shift"})
    BY <1>1, WrittenCounts DEF Inside
  <2> QED
    BY <2>1, <2>2 DEF LocalsFit
<1>3. /\ size'[g][t] = k /\ slots'[g][t] = Shifted(a, n, k) /\ Inside(h, g, t, Halfway)'
      /\ a \in Seq(Names \union {Null}) /\ Len(a) \in Nat
  BY DEF Shift, SetArray, Array, Load, Goto, Inside, Halfway, ThreadType, ListInv, IInv, TypeOK
<1>4. Counted(g, t)' = k - 1
  BY <1>1, <1>3, WrittenCounts
<1>5. \A j \in Int : Slot(slots'[g][t], j) =
         IF j \in 1..Len(a) /\ j \in (n + 1)..(k - 1) THEN Slot(a, j + 1) ELSE Slot(a, j)
  BY <1>2, <1>3, SlotShifted
<1>6. ASSUME NEW j \in 1..(k - 1)
      PROVE  Slot(slots'[g][t], j) = IF j <= n THEN Slot(a, j) ELSE Slot(a, j + 1)
  <2>1. j \in 1..k /\ Slot(a, j) # Null
    BY <1>2
  <2>2. j \in 1..Len(a)
    BY <2>1 DEF Slot
  <2> QED
    BY <1>2, <1>5, <2>2
<1>7. \A q, j : j \in Places(g, t, q)' <=> j \in 1..(k - 1) /\ Slot(slots'[g][t], j) = q
  BY <1>4 DEF Places
<1>8. \A q, j : j \in Places(g, t, q) <=> j \in 1..k /\ Slot(a, j) = q
  BY <1>2 DEF Places
<1>9. ASSUME NEW q, NEW j \in Places(g, t, q)'
      PROVE  /\ j \in 1..(k - 1)
             /\ j <= n => j \in Places(g, t, q)
             /\ j > n => j + 1 \in Places(g, t, q)
  <2>1. j \in 1..(k - 1) /\ Slot(slots'[g][t], j) = q
    BY <1>7
  <2>2. j \in 1..k /\ j + 1 \in 1..k
    BY <1>2, <2>1
  <2> QED
    BY <1>2, <1>6, <1>8, <2>1, <2>2
<1>10. ASSUME NEW q \in Names PROVE NoNew(g, t, q)
  <2>1. Places(g, t, q) = {} => Places(g, t, q)' = {}
    BY <1>2, <1>9
  <2>2. ASSUME Once(g, t, q), NEW i \in Places(g, t, q)', NEW j \in Places(g, t, q)' PROVE i = j
    BY <1>2, <1>9, <2>2 DEF Once
  <2> QED
    BY <2>1, <2>2 DEF NoNew, Once
<1>11. n + 1 \in Places(g, t, p)
  BY <1>2, <1>8
<1>12. ASSUME Once(g, t, p), NEW j \in Places(g, t, p)' PROVE FALSE
  BY <1>2, <1>9, <1>11, <1>12 DEF Once
<1> QED
  BY <1>10, <1>11, <1>12

(* The rest of a removal only gives the last place back. *)
LEMMA PlacesOnClearing ==
    ASSUME ListInv, NEW h \in Handlers, LoadLast(h) \/ Clear(h), NEW g \in Games, NEW t \in Teams,
           thread[h].at = g, thread[h].part = t, ~raced[g][t]
    PROVE  \A q \in Names : NoNew(g, t, q)
<1> DEFINE k == size[g][t]
           a == slots[g][t]
<1>1. thread[h].pc \in {"last", "clear"} /\ Moves(h) /\ Inside(h, g, t, Writing)
      /\ k \in Int /\ a \in Seq(Names \union {Null})
      /\ thread \in [Handlers -> ThreadType] /\ size \in [Games -> [Teams -> Int]]
  BY DEF LoadLast, Clear, At, Moves, Joining, Inside, Writing, ListInv, IInv, TypeOK
<1>2. Counted(g, t) = k - 1 /\ LocalsFit(h, g, t) /\ k - 1 \in Nat
  BY <1>1, WrittenCounts DEF Halfway
<1>3. CASE LoadLast(h)
  <2>1. size'[g][t] = k /\ slots'[g][t] = a /\ Inside(h, g, t, Halfway)'
    BY <1>1, <1>3 DEF LoadLast, At, heap, GotoWith, Inside, Halfway, ThreadType
  <2>2. Counted(g, t)' = k - 1
    BY <1>1, <2>1, WrittenCounts
  <2> QED
    BY <1>2, <2>1, <2>2 DEF Places, NoNew, Once
<1>4. CASE Clear(h)
  <2>1. thread[h].n = k - 1
    BY <1>2, <1>4 DEF Clear, At, LocalsFit, Inside
  <2>2. size'[g][t] = k - 1 /\ slots'[g][t] = Stored(a, k - 1, Null) /\ ~Inside(h, g, t, Halfway)'
    BY <1>1, <1>2, <1>4, <2>1 DEF Clear, SetSize, SetArray, Array, Goto, Inside, Halfway, ThreadType,
                                 ListInv, IInv, TypeOK
  <2>3. Counted(g, t)' = k - 1
    BY <1>1, <2>2, WrittenCounts
  <2>4. ASSUME NEW j \in 1..(k - 1) PROVE Slot(slots'[g][t], j) = Slot(a, j)
    <3>1. PICK n \in Nat : n = k - 1
      BY <1>2
    <3>2. j \in Int /\ j # n + 1 /\ slots'[g][t] = Stored(a, n, Null)
      BY <2>2, <3>1
    <3>3. a \in Seq(Names \union {Null}) /\ Null \in Names \union {Null}
      BY <1>1
    <3>4. Slot(Stored(a, n, Null), j) = IF j = n + 1 THEN Null ELSE Slot(a, j)
      BY <3>2, <3>3, StoredNames
    <3> QED
      BY <3>2, <3>4
  <2> QED
    BY <1>2, <2>3, <2>4 DEF Places, NoNew, Once
<1> QED
  BY <1>3, <1>4

LEMMA PlacesOnAdding ==
    ASSUME ListInv, NEW h \in Handlers, LoadSize(h) \/ StoreSize(h) \/ Store(h),
           NEW g \in Games, NEW t \in Teams, thread[h].at = g, thread[h].part = t, ~raced'[g][t],
           NEW p, thread[h].player = p
    PROVE  /\ \A q \in Names : NoNew(g, t, q) \/ (Store(h) /\ q = p)
           /\ Store(h) /\ Places(g, t, p) = {} => Once(g, t, p)'
           /\ Store(h) => ~(thread[h].n < 0)
<1> DEFINE k == size[g][t]
           a == slots[g][t]
<1>1. /\ thread[h].pc \in {"load", "size", "store"} /\ Moves(h)
      /\ k \in Int /\ a \in Seq(Names \union {Null}) /\ thread[h].n \in Int
      /\ thread \in [Handlers -> ThreadType] /\ size \in [Games -> [Teams -> Int]]
      /\ ~raced[g][t]
  <2>1. thread[h].pc \in {"load", "size", "store"} /\ Moves(h)
    BY DEF LoadSize, StoreSize, Store, At, Moves, Joining
  <2>2. ~raced[g][t]
    BY <2>1, Frame DEF ListInv
  <2>3. thread \in [Handlers -> ThreadType] /\ size \in [Games -> [Teams -> Int]]
        /\ k \in Int /\ a \in Seq(Names \union {Null})
    BY DEF ListInv, IInv, TypeOK
  <2>4. thread[h].n \in Int
    BY <2>3 DEF ThreadType
  <2> QED
    BY <2>1, <2>2, <2>3, <2>4
<1>2. CASE LoadSize(h)
  <2>1. size'[g][t] = k /\ slots'[g][t] = a /\ thread'[h].pc = "size" /\ thread[h].pc = "load"
    BY <1>1, <1>2 DEF LoadSize, At, heap, GotoWith, ThreadType
  <2>2. thread'[h].pc \notin Halfway /\ thread[h].pc \notin Halfway
    BY <2>1 DEF Halfway
  <2>3. \A q : NoNew(g, t, q)
    BY <1>1, <2>1, <2>2, PlacesElsewhere
  <2> QED
    BY <1>2, <2>1, <2>3 DEF Store, At
<1>3. CASE StoreSize(h) \/ Store(h)
  <2>1. Inside(h, g, t, Writing)
    BY <1>3 DEF StoreSize, Store, At, Inside, Writing
  <2>2. CASE StoreSize(h)
    <3>1. thread[h].pc = "size" /\ Inside(h, g, t, {"size"})
      BY <2>2 DEF StoreSize, At, Inside
    <3>2. Counted(g, t) = k /\ thread[h].n = k /\ k \in Nat
      <4>1. Counted(g, t) = k /\ k \in Nat
        BY <1>1, <2>1, <3>1, WrittenCounts DEF Halfway
      <4>2. LocalsFit(h, g, t) /\ Inside(h, g, t, {"size", "show"})
        BY <1>1, <2>1, <3>1, WrittenCounts DEF Inside
      <4> QED
        BY <4>1, <4>2 DEF LocalsFit
    <3>3. size'[g][t] = k + 1 /\ slots'[g][t] = a /\ Inside(h, g, t, Halfway)'
      BY <1>1, <2>2, <3>2 DEF StoreSize, SetSize, Goto, Inside, Halfway, ThreadType
    <3>4. Counted(g, t)' = k
      <4>1. Counted(g, t)' = size'[g][t] - 1
        BY <1>1, <2>1, <3>3, WrittenCounts
      <4> QED
        BY <3>2, <3>3, <4>1
    <3>5. \A q \in Names : NoNew(g, t, q)
      BY <3>2, <3>3, <3>4 DEF Places, NoNew, Once
    <3> QED
      BY <2>2, <3>1, <3>5 DEF Store, At
  <2>3. CASE Store(h)
    <3>1. thread[h].pc = "store" /\ Inside(h, g, t, {"clear", "store"})
      BY <2>3 DEF Store, At, Inside
    <3>2. Counted(g, t) = k - 1 /\ thread[h].n = k - 1 /\ k - 1 \in Nat
      BY <1>1, <2>1, <3>1, WrittenCounts DEF Halfway, LocalsFit
    <3>3. PICK n \in Nat : n = k - 1
      BY <3>2
    <3>4. p \in Names
      <4>1. thread[h].op = "join"
        BY <1>1, <3>1 DEF ListInv, IInv, StepsKnown, JoinSteps
      <4> QED
        BY <4>1 DEF ListInv, IInv, TypeOK, Names
    <3>5. size'[g][t] = k /\ slots'[g][t] = Stored(a, n, p) /\ ~Inside(h, g, t, Halfway)'
      BY <1>1, <2>3, <3>2, <3>3 DEF Store, SetArray, Array, Answer, Idle, Fresh, Inside, Halfway,
                                   ListInv, IInv, TypeOK
    <3>6. Counted(g, t)' = k
      BY <1>1, <2>1, <3>5, WrittenCounts
    <3>7. ASSUME NEW j \in 1..k PROVE Slot(slots'[g][t], j) = IF j = k THEN p ELSE Slot(a, j)
      <4>1. j \in Int /\ k = n + 1 /\ p \in Names \union {Null} /\ Null \in Names \union {Null}
        BY <1>1, <3>3, <3>4
      <4>2. a \in Seq(Names \union {Null})
        BY <1>1
      <4>3. Slot(Stored(a, n, p), j) = IF j = n + 1 THEN p ELSE Slot(a, j)
        <5> HIDE DEF a, k
        <5> QED
          BY <4>1, <4>2, StoredNames
      <4> QED
        BY <3>5, <4>1, <4>3
    <3>8. ASSUME NEW q, NEW j \in Places(g, t, q)' PROVE j \in Places(g, t, q) \/ (j = k /\ q = p)
      <4>1. j \in 1..k /\ Slot(slots'[g][t], j) = q
        BY <3>6, <3>8 DEF Places
      <4>2. j = k \/ j \in 1..(k - 1)
        BY <1>1, <4>1
      <4> QED
        BY <3>2, <3>7, <4>1, <4>2 DEF Places
    <3>9. ASSUME NEW q \in Names, q # p PROVE NoNew(g, t, q)
      <4>1. Places(g, t, q) = {} => Places(g, t, q)' = {}
        BY <3>8, <3>9
      <4>2. Once(g, t, q) => Once(g, t, q)'
        BY <3>8, <3>9 DEF Once
      <4> QED
        BY <4>1, <4>2 DEF NoNew
    <3>10. Places(g, t, p) = {} => Once(g, t, p)'
      BY <3>8 DEF Once
    <3> QED
      BY <2>3, <3>2, <3>9, <3>10
  <2> QED
    BY <1>3, <2>2, <2>3
<1> QED
  BY <1>2, <1>3

(* initPlayers appends the test players of one team. *)
LEMMA PlacesOnGrowing ==
    ASSUME ListInv, DistinctSeeds, NEW h \in Handlers, Grow(h), NEW g \in Games, NEW t \in Teams,
           thread[h].at = g, thread[h].part = t, ~raced[g][t]
    PROVE  \A q \in Names : \/ NoNew(g, t, q)
                            \/ q \in SeedNames(t) /\ (Places(g, t, q) = {} => Once(g, t, q)')
<1> DEFINE k == size[g][t]
           a == slots[g][t]
           new == Seeds[t]
           m == k + Len(new)
<1>1. /\ thread[h].pc = "grow" /\ Moves(h) /\ Inside(h, g, t, Writing)
      /\ thread \in [Handlers -> ThreadType] /\ size \in [Games -> [Teams -> Int]]
      /\ Len(new) \in Nat
  BY SeedsType DEF Grow, At, Moves, Answering, Inside, Writing, ListInv, IInv, TypeOK
<1>2. Counted(g, t) = k /\ k \in Nat /\ \A i \in 1..Len(new) : Slot(a, k + i) = new[i]
  <2>1. Counted(g, t) = k /\ k \in Nat /\ LocalsFit(h, g, t)
    BY <1>1, WrittenCounts DEF Halfway
  <2> QED
    BY <1>1, <2>1 DEF LocalsFit, Inside
<1>3. size'[g][t] = m /\ slots'[g][t] = a /\ ~Inside(h, g, t, Halfway)'
  BY <1>1 DEF Grow, SetSize, Load, AfterSeed, Goto, Idle, Fresh, Inside, Halfway, ThreadType
<1>4. Counted(g, t)' = m
  BY <1>1, <1>3, WrittenCounts
<1>5. ASSUME NEW q, NEW j \in Places(g, t, q)'
      PROVE  j \in Places(g, t, q) \/ (j - k \in 1..Len(new) /\ new[j - k] = q)
  <2>1. j \in 1..m /\ Slot(a, j) = q
    BY <1>3, <1>4, <1>5 DEF Places
  <2>2. CASE j \in 1..k
    BY <1>2, <2>1, <2>2 DEF Places
  <2>3. CASE j \notin 1..k
    <3>1. j - k \in 1..Len(new) /\ k + (j - k) = j
      BY <1>1, <1>2, <2>1, <2>3
    <3> QED
      BY <1>2, <2>1, <3>1
  <2> QED
    BY <2>2, <2>3
<1>6. ASSUME NEW q \in Names, q \notin SeedNames(t) PROVE NoNew(g, t, q)
  <2>1. ASSUME NEW j \in Places(g, t, q)' PROVE j \in Places(g, t, q)
    BY <1>5, <1>6, <2>1 DEF SeedNames
  <2> QED
    BY <2>1 DEF NoNew, Once
<1>7. ASSUME NEW q \in SeedNames(t), Places(g, t, q) = {} PROVE Once(g, t, q)'
  <2>1. ASSUME NEW i \in Places(g, t, q)', NEW j \in Places(g, t, q)' PROVE i = j
    <3>1. /\ i - k \in 1..Len(new) /\ new[i - k] = q
          /\ j - k \in 1..Len(new) /\ new[j - k] = q
      BY <1>5, <1>7, <2>1
    <3>2. i - k = j - k
      BY <3>1 DEF DistinctSeeds
    <3>3. i \in Int /\ j \in Int
      BY <1>4, <2>1 DEF Places
    <3> QED
      BY <1>2, <3>2, <3>3
  <2> QED
    BY <2>1 DEF Once
<1> QED
  BY <1>6, <1>7

(* addAll copies behind what counts. *)
LEMMA PlacesOnSeeding ==
    ASSUME ListInv, NEW h \in Handlers, NEW u \in Teams, Seed(h, u), NEW g \in Games, NEW t \in Teams,
           ~raced'[g][t]
    PROVE  \A q : NoNew(g, t, q)
<1>1. /\ Moves(h) /\ UNCHANGED size /\ thread[h].pc \in {"seedRed", "seedBlue"}
      /\ thread \in [Handlers -> ThreadType] /\ thread[h].pc \notin Halfway
      /\ slots \in [Games -> [Teams -> Seq(Names \union {Null})]]
  BY DEF Moves, Answering, Seed, At, SeedStep, Teams, Halfway, ListInv, IInv, TypeOK
<1>2. CASE game = NoGame
  <2>1. thread'[h].pc \in {"seedBlue", "idle"} /\ UNCHANGED slots
    BY <1>1, <1>2 DEF Seed, AfterSeed, Goto, Idle, Fresh, ThreadType
  <2>2. thread'[h].pc \notin Halfway
    BY <2>1 DEF Halfway
  <2> QED
    BY <1>1, <2>1, <2>2, PlacesUnwritten
<1>3. CASE game # NoGame
  <2>1. PICK c \in Games : c = game
    BY <1>3 DEF ListInv, IInv, TypeOK
  <2>2. /\ thread'[h].pc = "grow" /\ thread'[h].at = c /\ thread'[h].part = u
        /\ Enters(h, c, u, Reading \union Writing)
        /\ slots' = [slots EXCEPT ![c][u] = Extended(@, size[c][u], Seeds[u])]
    BY <1>1, <1>3, <2>1 DEF Seed, GotoList, EntersToWrite, ThreadType
  <2>3. thread'[h].pc \notin Halfway
    BY <2>2 DEF Halfway
  <2>4. CASE ~(g = c /\ t = u)
    <3>1. slots'[g][t] = slots[g][t]
      BY <1>1, <2>2, <2>4
    <3> QED
      BY <1>1, <2>3, <3>1, PlacesElsewhere
  <2>5. CASE g = c /\ t = u
    <3> DEFINE a == slots[g][t]
    <3>1. ~raced[g][t] /\ \A i \in Handlers \ {h} : ~Inside(i, g, t, Reading \union Writing)
      BY <1>1, <2>2, <2>5, Frame, EntersFrame DEF ListInv
    <3>2. \A i \in Handlers : ~Inside(i, g, t, Writing)
      BY <1>1, <3>1 DEF Inside, Writing
    <3>3. PICK k : k = size[g][t]
      OBVIOUS
    <3>4. Counted(g, t) = k
      BY <3>2, <3>3, QuietCounts
    <3>5. ListOK(g, t) /\ Unmoved(h)
      BY <1>1, Frame DEF ListInv, ListsOK
    <3>6. k \in Nat
      BY <3>1, <3>4, <3>5 DEF ListOK, Solid
    <3>7. Counted(g, t)' = k
      <4>1. \A i \in Handlers : ~Inside(i, g, t, Halfway)'
        BY <2>2, <3>1, <3>5 DEF Inside, Halfway, Writing, Unmoved
      <4> QED
        BY <1>1, <3>3, <4>1 DEF Counted
    <3>8. /\ a \in Seq(Names \union {Null}) /\ Seeds[t] \in Seq(Names \union {Null})
          /\ Null \in Names \union {Null} /\ Len(Seeds[t]) \in Nat
          /\ slots'[g][t] = Extended(a, k, Seeds[t])
      BY <1>1, <2>2, <2>5, <3>3, SeedsType
    <3>9. ASSUME NEW j \in 1..k PROVE Slot(slots'[g][t], j) = Slot(a, j)
      <4>1. j \in Int /\ j \notin (k + 1)..(k + Len(Seeds[t]))
        BY <3>6, <3>8
      <4>2. /\ a \in Seq(Names \union {Null}) /\ Seeds[t] \in Seq(Names \union {Null})
            /\ Null \in Names \union {Null}
        BY <3>8
      <4>3. PICK S : S = Names \union {Null}
        OBVIOUS
      <4>4. Slot(Extended(a, k, Seeds[t]), j) = Slot(a, j)
        BY <3>6, <4>1, <4>2, <4>3, SlotExtended
      <4> QED
        BY <3>8, <4>4
    <3> QED
      BY <3>4, <3>7, <3>9 DEF Places, NoNew, Once
  <2> QED
    BY <2>4, <2>5
<1> QED
  BY <1>2, <1>3

LEMMA ElsewhereUnchanged ==
    ASSUME NEW S, NEW f \in [Games -> [Teams -> S]], NEW c \in Games, NEW u \in Teams, NEW k,
           NEW g \in Games, NEW t \in Teams, ~(c = g /\ u = t)
    PROVE  [f EXCEPT ![c][u] = k][g][t] = f[g][t]
OBVIOUS

(* Only the store of a join and the creator's addAll put a name where it was not. *)
LEMMA PlacesStep ==
    ASSUME ListInv, DistinctSeeds, NEW h \in Handlers, Moves(h), NEW g \in Games, NEW t \in Teams,
           ~raced'[g][t]
    PROVE  \A q \in Names :
               \/ NoNew(g, t, q)
               \/ Store(h) /\ thread[h].at = g /\ thread[h].part = t /\ thread[h].player = q
               \/ /\ Grow(h) /\ thread[h].at = g /\ thread[h].part = t /\ q \in SeedNames(t)
                  /\ Places(g, t, q) = {} => Once(g, t, q)'
<1>1. /\ ~raced[g][t] /\ Unmoved(h) /\ thread \in [Handlers -> ThreadType] /\ thread[h] \in ThreadType
      /\ size \in [Games -> [Teams -> Int]] /\ slots \in [Games -> [Teams -> Seq(Names \union {Null})]]
  BY Frame DEF ListInv, IInv, TypeOK
<1>2. CASE Requests(h) \/ DerefRemove(h) \/ Search(h) \/ DerefAdd(h) \/ LoadSize(h) \/ Show(h) \/ Respond(h)
  <2>1. UNCHANGED <<size, slots>>
    BY <1>2 DEF Requests, ReceiveJoin, ReceiveCreate, ReceiveDelete, ReceiveGet, Receive, DerefRemove, Search,
                DerefAdd, LoadSize, Show, Respond, heap
  <2>2. thread[h].pc \notin Halfway
    BY <1>2 DEF Requests, ReceiveJoin, ReceiveCreate, ReceiveDelete, ReceiveGet, Receive, DerefRemove, Search,
                DerefAdd, LoadSize, Show, Respond, At, Halfway
  <2>3. thread'[h].pc \notin Halfway
    <3>1. CASE Requests(h)
      BY <1>1, <2>2, <3>1 DEF Requests, ReceiveJoin, ReceiveCreate, ReceiveDelete, ReceiveGet, Receive, Fresh,
                              GotoList, Halfway, ThreadType
    <3>2. CASE DerefRemove(h) \/ Search(h)
      BY <1>1, <3>2 DEF DerefRemove, Search, Goto, GotoList, GotoWith, Halfway, ThreadType
    <3>3. CASE DerefAdd(h) \/ LoadSize(h)
      BY <1>1, <3>3 DEF DerefAdd, LoadSize, Answer, Idle, Fresh, GotoList, GotoWith, Halfway, ThreadType
    <3>4. CASE Show(h) \/ Respond(h)
      BY <1>1, <3>4 DEF Show, Respond, At, Answer, Idle, Fresh, Halfway, ThreadType
    <3> QED
      BY <1>2, <3>1, <3>2, <3>3, <3>4
  <2> QED
    BY <2>1, <2>2, <2>3, PlacesUnwritten
<1>3. CASE \E u \in Teams : Seed(h, u)
  BY <1>3, PlacesOnSeeding
<1>4. CASE Shift(h) \/ LoadLast(h) \/ Clear(h) \/ StoreSize(h) \/ Store(h) \/ Grow(h)
  <2>1. CASE ~(thread[h].at = g /\ thread[h].part = t)
    <3>0. thread[h].at \in Games /\ thread[h].part \in Teams
      <4>1. thread[h].pc \in Reading \union Writing \union {"load", "shown"}
        BY <1>4 DEF Shift, LoadLast, Clear, StoreSize, Store, Grow, At, Writing
      <4> QED
        BY <1>1, <4>1, OnList DEF ListInv
    <3>1. size'[g][t] = size[g][t] /\ slots'[g][t] = slots[g][t]
      <4>1. PICK c \in Games, u \in Teams : c = thread[h].at /\ u = thread[h].part
        BY <3>0
      <4>2. UNCHANGED size \/ \E k : size' = [size EXCEPT ![c][u] = k]
        BY <1>4, <4>1 DEF Shift, LoadLast, Clear, StoreSize, Store, Grow, SetSize, heap
      <4>3. UNCHANGED slots \/ \E a : slots' = [slots EXCEPT ![c][u] = a]
        BY <1>4, <4>1 DEF Shift, LoadLast, Clear, StoreSize, Store, Grow, SetArray, heap
      <4>0. ~(c = g /\ u = t)
        BY <2>1, <4>1
      <4>4. size'[g][t] = size[g][t]
        <5>1. size \in [Games -> [Teams -> Int]]
          BY <1>1
        <5>2. ASSUME NEW k, size' = [size EXCEPT ![c][u] = k] PROVE size'[g][t] = size[g][t]
          BY <4>0, <5>1, <5>2, ElsewhereUnchanged
        <5> QED
          BY <4>2, <5>2
      <4>5. slots'[g][t] = slots[g][t]
        <5>1. slots \in [Games -> [Teams -> Seq(Names \union {Null})]]
          BY <1>1
        <5>2. ASSUME NEW a, slots' = [slots EXCEPT ![c][u] = a] PROVE slots'[g][t] = slots[g][t]
          BY <4>0, <5>1, <5>2, ElsewhereUnchanged
        <5> QED
          BY <4>3, <5>2
      <4> QED
        BY <4>4, <4>5
    <3>2. thread'[h].pc \in Halfway => thread'[h].at = thread[h].at /\ thread'[h].part = thread[h].part
      <4>1. CASE Shift(h) \/ LoadLast(h) \/ Clear(h)
        BY <1>1, <4>1 DEF Shift, LoadLast, Clear, Goto, GotoWith, Answer, Idle, Fresh, Halfway, ThreadType
      <4>2. CASE StoreSize(h) \/ Store(h) \/ Grow(h)
        BY <1>1, <4>2 DEF StoreSize, Store, Grow, AfterSeed, Goto, Answer, Idle, Fresh, Halfway, ThreadType
      <4> QED
        BY <1>4, <4>1, <4>2
    <3> QED
      BY <2>1, <3>1, <3>2, PlacesElsewhere
  <2>2. CASE thread[h].at = g /\ thread[h].part = t
    <3>1. CASE Shift(h)
      BY <1>1, <2>2, <3>1, PlacesOnShift
    <3>2. CASE LoadLast(h) \/ Clear(h)
      BY <1>1, <2>2, <3>2, PlacesOnClearing
    <3>3. CASE StoreSize(h) \/ Store(h)
      BY <2>2, <3>3, PlacesOnAdding
    <3>4. CASE Grow(h)
      BY <1>1, <2>2, <3>4, PlacesOnGrowing
    <3> QED
      BY <1>4, <3>1, <3>2, <3>3, <3>4
  <2> QED
    BY <2>1, <2>2
<1> QED
  BY <1>2, <1>3, <1>4 DEF Moves, Joining, Answering

----------------------------------------------------------------------------
(* The invariant of orderly phones and creations. *)

(* One creation at a time, and only the creator's handler inside initPlayers;   *)
(* the game that is created stays the game until all test players are in it.    *)
CreateOK ==
    /\ game \in {NoGame, created}
    /\ \A g \in Games, t \in Teams : g > created => size[g][t] = 0
    /\ \A h \in Handlers :
        /\ thread[h].at <= created
        /\ thread[h].op = "create" <=> thread[h].pc \in {"seedRed", "seedBlue", "grow"}
        /\ thread[h].op = "create" => game = created /\ game # NoGame
        /\ At(h, "grow") => thread[h].at = created
    /\ \A h, k \in Handlers : thread[h].op = "create" /\ thread[k].op = "create" => h = k

(* A phone waits for the answer to its join. *)
Joins(h, p) == thread[h].op = "join" /\ thread[h].player = p
JoinOnce == \A h, k \in Handlers, p \in Players : Joins(h, p) /\ Joins(k, p) => h = k

(* Test players of a team that the creator has yet to add. *)
Unseeded(h, t) ==
    /\ thread[h].op = "create"
    /\ t = "blue" \/ At(h, "seedRed") \/ (At(h, "grow") /\ thread[h].part = "red")

SeedOK(g, t, s) ==
    /\ Once(g, t, s) /\ Places(g, Other[t], s) = {}
    /\ g = created /\ (\E h \in Handlers : Unseeded(h, t)) => Places(g, t, s) = {}

(* Until his removal the player of a join is not in the team that he asks for;  *)
(* from the removal on he is in no team, neither of the game that the handler   *)
(* works on nor of the one that the field holds by then.                        *)
JoinOK(h, g, p) ==
    LET t == thread[h].team
    IN  /\ At(h, "remove") /\ g = game => Places(g, t, p) = {}
        /\ thread[h].pc \in {"search", "shift"} =>
             /\ thread[h].part = Other[t]
             /\ g = thread[h].at => Places(g, t, p) = {}
             /\ g = game /\ g # thread[h].at => Absent(g, p)
        /\ thread[h].pc \in {"last", "clear", "add", "load", "size", "store"} /\ g = game => Absent(g, p)
        /\ thread[h].pc \in {"last", "clear", "load", "size", "store"} /\ g = thread[h].at => Absent(g, p)

(* Between joins the disabled button names the only team that he can be in. *)
PlayerOK(g, p) ==
    /\ Single(g, p)
    /\ g = game /\ (\A h \in Handlers : ~Joins(h, p)) =>
         \A t \in Teams : Places(g, t, p) # {} => button[p] = t
    /\ \A h \in Handlers : Joins(h, p) => JoinOK(h, g, p)

SeedsOK == \A g \in Games : NotRaced(g) => \A t \in Teams : \A s \in SeedNames(t) : SeedOK(g, t, s)
PlayersOK == \A g \in Games : NotRaced(g) => \A p \in Players : PlayerOK(g, p)

OrderInv == ListInv /\ CreateOK /\ JoinOnce /\ SeedsOK /\ PlayersOK

(* A step within a request leaves the field and the count of games alone.       *)
LEMMA CreateKept ==
    ASSUME CreateOK, IInv, NEW h \in Handlers, Unmoved(h), game' = game, created' = created,
           \A g \in Games, t \in Teams : g > created => size'[g][t] = size[g][t],
           thread'[h].at <= created,
           thread'[h].op = "create" <=> thread'[h].pc \in {"seedRed", "seedBlue", "grow"},
           thread'[h].op = "create" => thread[h].op = "create",
           thread'[h].pc = "grow" => thread'[h].at = created
    PROVE  CreateOK'
<1>1. /\ game' \in {NoGame, created'}
      /\ \A g \in Games, t \in Teams : g > created' => size'[g][t] = 0
  BY DEF CreateOK
<1>2. ASSUME NEW k \in Handlers
      PROVE  /\ thread'[k].at <= created'
             /\ thread'[k].op = "create" <=> thread'[k].pc \in {"seedRed", "seedBlue", "grow"}
             /\ thread'[k].op = "create" => thread[k].op = "create"
             /\ thread'[k].pc = "grow" => thread'[k].at = created'
  BY DEF CreateOK, Unmoved, At
<1> QED
  BY <1>1, <1>2 DEF CreateOK, At

LEMMA CreateStep ==
    ASSUME OrderInv, Orderly, NEW h \in Handlers, Moves(h)
    PROVE  CreateOK'
<1>1. /\ IInv /\ CreateOK /\ Unmoved(h) /\ thread \in [Handlers -> ThreadType] /\ thread[h] \in ThreadType
      /\ created \in Nat /\ game <= created /\ NoGame <= created
      /\ size \in [Games -> [Teams -> Int]]
  <2>1. /\ IInv /\ CreateOK /\ Unmoved(h) /\ thread \in [Handlers -> ThreadType] /\ thread[h] \in ThreadType
        /\ created \in 0..MaxGames /\ size \in [Games -> [Teams -> Int]]
    BY Frame DEF OrderInv, ListInv, IInv, TypeOK
  <2>2. created \in Nat
    BY <2>1, BoundsAssumption
  <2> QED
    BY <2>1, <2>2 DEF CreateOK, NoGame
<1>2. thread[h].at <= created
      /\ (thread[h].op = "create" <=> thread[h].pc \in {"seedRed", "seedBlue", "grow"})
      /\ (thread[h].pc = "grow" => thread[h].at = created)
      /\ (thread[h].pc \in JoinSteps <=> thread[h].op = "join")
  BY <1>1 DEF CreateOK, At, IInv, StepsKnown
<1>3. CASE Requests(h)
  <2>1. thread[h].pc = "idle" /\ UNCHANGED size
    BY <1>3 DEF Requests, ReceiveJoin, ReceiveCreate, ReceiveDelete, ReceiveGet, Receive, At, heap
  <2>2. CASE ReceiveGet(h) \/ \E p \in Players, t \in Teams : ReceiveJoin(h, p, t)
    <3>1. game' = game /\ created' = created
      BY <2>2 DEF ReceiveGet, ReceiveJoin, Receive, heap
    <3>2. /\ thread'[h].at <= created /\ thread'[h].op # "create"
          /\ thread'[h].pc \notin {"seedRed", "seedBlue", "grow"}
      <4>1. CASE ReceiveGet(h)
        BY <1>1, <1>2, <2>1, <4>1 DEF ReceiveGet, GotoList, ThreadType
      <4>2. CASE \E p \in Players, t \in Teams : ReceiveJoin(h, p, t)
        BY <1>1, <4>2 DEF ReceiveJoin, Receive, Fresh
      <4> QED
        BY <2>2, <4>1, <4>2
    <3> QED
      BY <1>1, <2>1, <3>1, <3>2, CreateKept
  <2>3. CASE ReceiveCreate(h) \/ ReceiveDelete(h)
    <3>1. \A k \in Handlers : thread[k].op # "create"
      BY <1>1, <2>3 DEF ReceiveCreate, ReceiveDelete, Busy, CreateOK, At
    <3>2. CASE ReceiveCreate(h)
      <4>1. game' = created + 1 /\ created' = created + 1
        BY <3>2 DEF ReceiveCreate
      <4>2. /\ thread'[h].at = NoGame /\ thread'[h].pc \in {"seedRed", "idle"}
            /\ thread'[h].op = "create" <=> thread'[h].pc = "seedRed"
        BY <1>1, <3>2 DEF ReceiveCreate, Receive, Fresh
      <4>3. \A k \in Handlers \ {h} : thread'[k] = thread[k]
        BY <1>1 DEF Unmoved
      <4>4. game' \in {NoGame, created'} /\ game' # NoGame /\ \A g \in Games : g > created' => g > created
        BY <1>1, <4>1 DEF NoGame, Games
      <4>5. ASSUME NEW k \in Handlers PROVE thread'[k].at <= created'
        <5>1. thread[k].at \in Int
          BY <1>1 DEF ThreadType, Games, NoGame
        <5> QED
          BY <1>1, <4>1, <4>2, <4>3, <5>1 DEF CreateOK, NoGame
      <4>6. \A g \in Games, t \in Teams : g > created' => size'[g][t] = 0
        BY <1>1, <2>1, <4>4 DEF CreateOK
      <4>7. ASSUME NEW k \in Handlers
            PROVE  /\ thread'[k].op = "create" <=> thread'[k].pc \in {"seedRed", "seedBlue", "grow"}
                   /\ thread'[k].op = "create" => k = h
                   /\ ~(thread'[k].pc = "grow")
        BY <1>1, <3>1, <4>2, <4>3 DEF CreateOK
      <4> QED
        BY <4>1, <4>4, <4>5, <4>6, <4>7 DEF CreateOK, At
    <3>3. CASE ReceiveDelete(h)
      <4>1. game' = NoGame /\ created' = created
        BY <3>3 DEF ReceiveDelete
      <4>2. thread'[h].at = NoGame /\ thread'[h].pc = "idle" /\ thread'[h].op = "get"
        BY <1>1, <3>3 DEF ReceiveDelete, Receive, Fresh
      <4>3. ASSUME NEW k \in Handlers
            PROVE  /\ thread'[k].at <= created' /\ thread'[k].op # "create"
                   /\ thread'[k].pc \notin {"seedRed", "seedBlue", "grow"}
        BY <1>1, <3>1, <4>1, <4>2 DEF CreateOK, Unmoved
      <4>4. \A g \in Games, t \in Teams : g > created' => size'[g][t] = 0
        BY <1>1, <2>1, <4>1 DEF CreateOK
      <4> QED
        BY <4>1, <4>3, <4>4 DEF CreateOK, At
    <3> QED
      BY <2>3, <3>2, <3>3
  <2> QED
    BY <1>3, <2>2, <2>3 DEF Requests
<1>4. CASE Joining(h) \/ Answering(h)
  <2>1. game' = game /\ created' = created
    <3>1. CASE Joining(h)
      BY <3>1 DEF Joining, DerefRemove, Search, Shift, LoadLast, Clear, DerefAdd, LoadSize, StoreSize, Store, heap
    <3>2. CASE Answering(h)
      BY <3>2 DEF Answering, Seed, Grow, Show, Respond, heap
    <3> QED
      BY <1>4, <3>1, <3>2
  <2>2. ASSUME NEW g \in Games, NEW t \in Teams, g > created PROVE size'[g][t] = size[g][t]
    <3>1. UNCHANGED size \/ \E k : SetSize(h, k)
      BY <1>4 DEF Joining, DerefRemove, Search, Shift, LoadLast, Clear, DerefAdd, LoadSize, StoreSize, Store,
                  Answering, Seed, Grow, Show, Respond, heap
    <3>2. g # thread[h].at
      <4>1. thread[h].at \in Int /\ g \in Int
        BY <1>1 DEF ThreadType, Games, NoGame
      <4> QED
        BY <1>1, <1>2, <2>2, <4>1
    <3> QED
      BY <1>1, <3>1, <3>2 DEF SetSize
  <2>3. thread'[h].at <= created
    <3>1. thread'[h].at \in {thread[h].at, game, NoGame}
      <4>1. CASE DerefRemove(h) \/ Search(h) \/ Shift(h) \/ LoadLast(h) \/ Clear(h)
        BY <1>1, <4>1 DEF DerefRemove, Search, Shift, LoadLast, Clear, Goto, GotoWith, GotoList, Answer, Idle, Fresh,
                          ThreadType
      <4>2. CASE DerefAdd(h) \/ LoadSize(h) \/ StoreSize(h) \/ Store(h)
        BY <1>1, <4>2 DEF DerefAdd, LoadSize, StoreSize, Store, Goto, GotoWith, GotoList, Answer, Idle, Fresh,
                          ThreadType
      <4>3. CASE \E t \in Teams : Seed(h, t)
        BY <1>1, <4>3 DEF Seed, AfterSeed, Goto, GotoList, Idle, Fresh, ThreadType
      <4>4. CASE Grow(h)
        BY <1>1, <4>4 DEF Grow, AfterSeed, Goto, Idle, Fresh, ThreadType
      <4>5. CASE Show(h) \/ Respond(h)
        BY <1>1, <4>5 DEF Show, Respond, Answer, Idle, Fresh, ThreadType
      <4> QED
        BY <1>4, <4>1, <4>2, <4>3, <4>4, <4>5 DEF Joining, Answering
    <3> QED
      BY <1>1, <1>2, <3>1
  <2>4. CASE Joining(h)
    <3>1. thread[h].pc \in JoinSteps
      BY <2>4 DEF Joining, DerefRemove, Search, Shift, LoadLast, Clear, DerefAdd, LoadSize, StoreSize, Store, At,
                  JoinSteps
    <3>2. /\ thread'[h].op # "create" /\ thread'[h].pc \notin {"seedRed", "seedBlue", "grow"}
      <4>1. CASE DerefRemove(h) \/ Search(h) \/ Shift(h) \/ LoadLast(h) \/ Clear(h)
        BY <1>1, <1>2, <3>1, <4>1 DEF DerefRemove, Search, Shift, LoadLast, Clear, Goto, GotoWith, GotoList, Answer,
                                      Idle, Fresh, ThreadType
      <4>2. CASE DerefAdd(h) \/ LoadSize(h) \/ StoreSize(h) \/ Store(h)
        BY <1>1, <1>2, <3>1, <4>2 DEF DerefAdd, LoadSize, StoreSize, Store, Goto, GotoWith, GotoList, Answer,
                                      Idle, Fresh, ThreadType
      <4> QED
        BY <2>4, <4>1, <4>2 DEF Joining
    <3> QED
      BY <1>1, <2>1, <2>2, <2>3, <3>2, CreateKept
  <2>5. CASE Show(h) \/ Respond(h)
    <3>1. thread[h].op # "create"
      BY <1>2, <2>5 DEF Show, Respond, At
    <3>2. /\ thread'[h].op # "create" /\ thread'[h].pc \notin {"seedRed", "seedBlue", "grow"}
      BY <1>1, <2>5, <3>1 DEF Show, Respond, At, Answer, Idle, Fresh, ThreadType
    <3> QED
      BY <1>1, <2>1, <2>2, <2>3, <3>2, CreateKept
  <2>6. CASE Grow(h) \/ \E t \in Teams : Seed(h, t)
    <3>1. thread[h].op = "create" /\ game = created
      <4>1. thread[h].pc \in {"seedRed", "seedBlue", "grow"}
        BY <2>6 DEF Seed, Grow, SeedStep, Teams, At
      <4> QED
        BY <1>1, <1>2, <4>1 DEF CreateOK
    <3>2. /\ thread'[h].op = "create" <=> thread'[h].pc \in {"seedRed", "seedBlue", "grow"}
          /\ thread'[h].pc = "grow" => thread'[h].at = created
      <4>1. CASE Grow(h)
        BY <1>1, <3>1, <4>1 DEF Grow, AfterSeed, Goto, Idle, Fresh, ThreadType
      <4>2. CASE \E t \in Teams : Seed(h, t)
        BY <1>1, <3>1, <4>2 DEF Seed, AfterSeed, Goto, GotoList, Idle, Fresh, ThreadType
      <4> QED
        BY <2>6, <4>1, <4>2
    <3> QED
      BY <1>1, <2>1, <2>2, <2>3, <3>1, <3>2, CreateKept
  <2> QED
    BY <1>4, <2>4, <2>5, <2>6 DEF Answering
<1> QED
  BY <1>3, <1>4 DEF Moves

(* What a step does to the request of its handler. *)
LEMMA RequestKept ==
    ASSUME IInv, NEW h \in Handlers, Joining(h) \/ Answering(h)
    PROVE  \/ thread'[h].op = "get" /\ thread'[h].pc = "idle"
           \/ /\ thread'[h].op = thread[h].op /\ thread'[h].player = thread[h].player
              /\ thread'[h].team = thread[h].team /\ thread[h].pc # "idle"
<1>1. thread \in [Handlers -> ThreadType] /\ thread[h] \in ThreadType
  BY DEF IInv, TypeOK
<1>2. CASE DerefRemove(h) \/ Search(h) \/ Shift(h) \/ LoadLast(h) \/ Clear(h)
  BY <1>1, <1>2 DEF DerefRemove, Search, Shift, LoadLast, Clear, At, Goto, GotoWith, GotoList, Answer, Idle, Fresh,
                    ThreadType
<1>3. CASE DerefAdd(h) \/ LoadSize(h) \/ StoreSize(h) \/ Store(h)
  BY <1>1, <1>3 DEF DerefAdd, LoadSize, StoreSize, Store, At, Goto, GotoWith, GotoList, Answer, Idle, Fresh,
                    ThreadType
<1>4. CASE (\E t \in Teams : Seed(h, t)) \/ Grow(h)
  BY <1>1, <1>4 DEF Seed, Grow, SeedStep, Teams, At, AfterSeed, Goto, GotoList, Idle, Fresh, ThreadType
<1>5. CASE Show(h) \/ Respond(h)
  BY <1>1, <1>5 DEF Show, Respond, At, Answer, Idle, Fresh, ThreadType
<1> QED
  BY <1>2, <1>3, <1>4, <1>5 DEF Joining, Answering

LEMMA JoinOnceStep ==
    ASSUME OrderInv, Orderly, NEW h \in Handlers, Moves(h)
    PROVE  /\ JoinOnce'
           /\ \A p \in Players : Joins(h, p)' =>
                 Joins(h, p) \/ \E t \in Teams : ReceiveJoin(h, p, t)
<1>1. IInv /\ JoinOnce /\ Unmoved(h) /\ thread \in [Handlers -> ThreadType]
  BY Frame DEF OrderInv, ListInv, IInv, TypeOK
<1>2. ASSUME NEW p \in Players, Joins(h, p)'
      PROVE  Joins(h, p) \/ \E t \in Teams : ReceiveJoin(h, p, t)
  <2>1. CASE Requests(h)
    <3>1. CASE ReceiveCreate(h) \/ ReceiveDelete(h)
      BY <1>1, <1>2, <3>1 DEF ReceiveCreate, ReceiveDelete, Receive, Fresh, Joins
    <3>2. CASE ReceiveGet(h)
      BY <1>1, <1>2, <3>2 DEF ReceiveGet, GotoList, Joins, ThreadType
    <3>3. CASE \E q \in Players, t \in Teams : ReceiveJoin(h, q, t)
      <4>1. PICK q \in Players, t \in Teams : ReceiveJoin(h, q, t)
        BY <3>3
      <4>2. thread'[h].player = q
        BY <1>1, <4>1 DEF ReceiveJoin, Receive, Fresh
      <4>3. q = p
        BY <1>2, <4>2 DEF Joins
      <4> QED
        BY <4>1, <4>3
    <3> QED
      BY <2>1, <3>1, <3>2, <3>3 DEF Requests
  <2>2. CASE Joining(h) \/ Answering(h)
    BY <1>1, <1>2, <2>2, RequestKept DEF Joins
  <2> QED
    BY <2>1, <2>2 DEF Moves
<1>3. ASSUME NEW k \in Handlers \ {h}, NEW p \in Players, Joins(h, p)' PROVE ~Joins(k, p)'
  <2>1. Joins(k, p)' <=> Joins(k, p)
    BY <1>1 DEF Unmoved, Joins
  <2>2. Joins(h, p) => ~Joins(k, p)
    BY <1>1 DEF JoinOnce
  <2>3. (\E t \in Teams : ReceiveJoin(h, p, t)) => ~Joins(k, p)
    BY DEF ReceiveJoin, Waits, Joins
  <2> QED
    BY <1>2, <1>3, <2>1, <2>2, <2>3
<1>4. ASSUME NEW k \in Handlers \ {h}, NEW i \in Handlers \ {h}, NEW p \in Players, Joins(k, p)', Joins(i, p)'
      PROVE  k = i
  BY <1>1, <1>4 DEF JoinOnce, Joins, Unmoved
<1> QED
  BY <1>2, <1>3, <1>4 DEF JoinOnce

(* The test players. *)
LEMMA SeedsStep ==
    ASSUME OrderInv, Orderly, DistinctSeeds, NEW h \in Handlers, Moves(h)
    PROVE  SeedsOK'
<1>1. /\ IInv /\ ListInv /\ CreateOK /\ SeedsOK /\ Unmoved(h) /\ CreateOK'
      /\ thread \in [Handlers -> ThreadType] /\ thread[h] \in ThreadType
      /\ \A t \in Teams : Other[t] \in Teams /\ Other[t] # t
  <2>1. IInv /\ ListInv /\ CreateOK /\ SeedsOK /\ thread \in [Handlers -> ThreadType] /\ thread[h] \in ThreadType
    BY DEF OrderInv, ListInv, IInv, TypeOK
  <2>2. \A t \in Teams : Other[t] \in Teams /\ Other[t] # t
    BY DEF Teams, Other
  <2> QED
    BY <2>1, <2>2, Frame, CreateStep
<1> SUFFICES ASSUME NEW g \in Games, NotRaced(g)', NEW t \in Teams, NEW s \in SeedNames(t)
             PROVE  SeedOK(g, t, s)'
  BY DEF SeedsOK
<1>2. NotRaced(g) /\ SeedOK(g, t, s)
  BY <1>1, Frame DEF NotRaced, SeedsOK
<1>3. s \in Names /\ s \notin Players /\ \A u \in Teams : s \in SeedNames(u) => u = t
  BY DEF Names, Teams, DistinctSeeds
<1>4. ASSUME NEW u \in Teams
      PROVE  \/ NoNew(g, u, s)
             \/ /\ Grow(h) /\ thread[h].at = g /\ thread[h].part = t /\ u = t
                /\ Places(g, u, s) = {} => Once(g, u, s)'
  <2>1. Store(h) => thread[h].player # s
    BY <1>1, <1>3 DEF Store, At, IInv, StepsKnown, JoinSteps, TypeOK
  <2>2. ~raced'[g][u]
    BY DEF NotRaced
  <2> QED
    BY <1>1, <1>3, <2>1, <2>2, PlacesStep
<1>5. Places(g, Other[t], s)' = {}
  BY <1>1, <1>2, <1>4 DEF NoNew, SeedOK
<1>6. Grow(h) /\ thread[h].at = g /\ thread[h].part = t =>
        Places(g, t, s) = {} /\ ~(\E k \in Handlers : Unseeded(k, t)')
  <2> SUFFICES ASSUME Grow(h), thread[h].at = g, thread[h].part = t
               PROVE  Places(g, t, s) = {} /\ ~(\E k \in Handlers : Unseeded(k, t)')
    OBVIOUS
  <2>1. thread[h].op = "create" /\ g = created /\ Unseeded(h, t)
    BY <1>1 DEF CreateOK, Grow, At, Unseeded, Teams
  <2>2. thread'[h].op = "create" => t = "red" /\ thread'[h].pc = "seedBlue"
    BY <1>1 DEF Grow, AfterSeed, Goto, Idle, Fresh, ThreadType
  <2>3. \A k \in Handlers \ {h} : thread'[k].op # "create"
    BY <1>1, <2>1 DEF CreateOK, Unmoved
  <2>4. ~(\E k \in Handlers : Unseeded(k, t)')
    BY <2>2, <2>3 DEF Unseeded, At
  <2> QED
    BY <1>2, <2>1, <2>4 DEF SeedOK
<1>7. Once(g, t, s)'
  BY <1>2, <1>4, <1>6 DEF NoNew, SeedOK
<1>8. ASSUME g = created', NEW k \in Handlers, Unseeded(k, t)' PROVE Places(g, t, s)' = {}
  <2>1. NoNew(g, t, s)
    BY <1>4, <1>6, <1>8
  <2>2. CASE g > created
    <3>1. size[g][t] = 0
      BY <1>1, <2>2 DEF CreateOK
    <3>2. Places(g, t, s) = {}
      BY <3>1 DEF Places, Counted
    <3> QED
      BY <2>1, <3>2 DEF NoNew
  <2>3. CASE ~(g > created)
    <3>1. created' = created /\ ~ReceiveCreate(h)
      <4>1. created \in Nat
        BY <1>1, BoundsAssumption DEF IInv, TypeOK
      <4>2. ~ReceiveCreate(h)
        BY <1>8, <2>3, <4>1 DEF ReceiveCreate
      <4>3. CASE Requests(h)
        BY <4>2, <4>3 DEF Requests, ReceiveJoin, ReceiveDelete, ReceiveGet, Receive, heap
      <4>4. CASE Joining(h)
        BY <4>2, <4>4 DEF Joining, DerefRemove, Search, Shift, LoadLast, Clear, DerefAdd, LoadSize, StoreSize, Store,
                         heap
      <4>5. CASE Answering(h)
        BY <4>2, <4>5 DEF Answering, Seed, Grow, Show, Respond, heap
      <4> QED
        BY <4>2, <4>3, <4>4, <4>5 DEF Moves
    <3>2. Unseeded(k, t)
      <4>1. CASE k # h
        BY <1>1, <1>8, <4>1 DEF Unmoved, Unseeded, At
      <4>2. CASE k = h
        <5>1. CASE Requests(h)
          <6>1. thread'[h].op # "create"
            <7>1. CASE ReceiveDelete(h) \/ \E p \in Players, u \in Teams : ReceiveJoin(h, p, u)
              BY <1>1, <7>1 DEF ReceiveDelete, ReceiveJoin, Receive, Fresh
            <7>2. CASE ReceiveGet(h)
              BY <1>1, <7>2 DEF ReceiveGet, At, GotoList, CreateOK, ThreadType
            <7> QED
              BY <3>1, <5>1, <7>1, <7>2 DEF Requests
          <6> QED
            BY <1>8, <4>2, <6>1 DEF Unseeded
        <5>2. CASE Joining(h) \/ Answering(h)
          <6>1. thread'[h].op = "create" /\ thread[h].op = "create"
            BY <1>1, <1>8, <4>2, <5>2, RequestKept DEF Unseeded
          <6>2. thread[h].pc \in {"seedRed", "seedBlue", "grow"} /\ game = created /\ game # NoGame
            BY <1>1, <6>1 DEF CreateOK
          <6>3. CASE t = "blue"
            BY <4>2, <6>1, <6>3 DEF Unseeded
          <6>4. CASE t = "red"
            <7>1. Seed(h, "red") \/ Seed(h, "blue") \/ Grow(h)
              BY <5>2, <6>2 DEF Joining, DerefRemove, Search, Shift, LoadLast, Clear, DerefAdd, LoadSize, StoreSize,
                                Store, Answering, Show, Respond, At, Teams
            <7>2. ~Grow(h)
              BY <1>1, <1>8, <4>2, <6>4 DEF Grow, AfterSeed, Goto, Idle, Fresh, ThreadType, Unseeded, At
            <7>3. ~Seed(h, "blue")
              BY <1>1, <1>8, <4>2, <6>2, <6>4 DEF Seed, GotoList, ThreadType, Unseeded, At
            <7> QED
              BY <4>2, <6>1, <7>1, <7>2, <7>3 DEF Seed, SeedStep, At, Unseeded
          <6> QED
            BY <6>3, <6>4 DEF Teams
        <5> QED
          BY <5>1, <5>2 DEF Moves
      <4> QED
        BY <4>1, <4>2
    <3>3. Places(g, t, s) = {}
      BY <1>2, <1>8, <3>1, <3>2 DEF SeedOK
    <3> QED
      BY <2>1, <3>3 DEF NoNew
  <2> QED
    BY <2>2, <2>3
<1> QED
  BY <1>5, <1>7, <1>8 DEF SeedOK

----------------------------------------------------------------------------
(* The players. *)

LEMMA SingleKept ==
    ASSUME NEW g \in Games, NEW p, \A t \in Teams : NoNew(g, t, p)
    PROVE  /\ Single(g, p) => Single(g, p)'
           /\ Absent(g, p) => Absent(g, p)'
           /\ \A t \in Teams : Places(g, t, p) = {} => Places(g, t, p)' = {}
<1>1. \A t \in Teams : Other[t] \in Teams
  BY DEF Teams, Other
<1> QED
  BY <1>1 DEF NoNew, Single, Absent

(* What a step does to the players who do not send its request. *)
LEMMA PlayerElse ==
    ASSUME OrderInv, NEW h \in Handlers, Unmoved(h), NEW g \in Games, NEW p \in Players, PlayerOK(g, p),
           \A t \in Teams : NoNew(g, t, p), ~Joins(h, p), ~Joins(h, p)', button'[p] = button[p],
           g = game' => g = game \/ Absent(g, p)
    PROVE  PlayerOK(g, p)'
<1>1. Single(g, p)' /\ (Absent(g, p) => Absent(g, p)')
      /\ \A t \in Teams : Places(g, t, p) = {} => Places(g, t, p)' = {}
  BY SingleKept DEF PlayerOK
<1>2. \A k \in Handlers : Joins(k, p)' <=> Joins(k, p)
  BY DEF Unmoved, Joins
<1>3. ASSUME g = game', \A k \in Handlers : ~Joins(k, p)', NEW t \in Teams, Places(g, t, p)' # {}
      PROVE  button'[p] = t
  <2>1. ~Absent(g, p)
    BY <1>1, <1>3 DEF Absent
  <2> QED
    BY <1>1, <1>2, <1>3, <2>1 DEF PlayerOK
<1>4. ASSUME NEW k \in Handlers, Joins(k, p)' PROVE JoinOK(k, g, p)'
  <2>1. thread'[k] = thread[k] /\ JoinOK(k, g, p)
    BY <1>2, <1>4 DEF Unmoved, PlayerOK
  <2>2. thread[k].op = "join"
    BY <1>2, <1>4 DEF Joins
  <2>3. thread[k].team \in Teams /\ \A t \in Teams : Other[t] \in Teams
    BY DEF OrderInv, ListInv, IInv, TypeOK, ThreadType, Teams, Other
  <2>4. Absent(g, p) => \A t \in Teams : Places(g, t, p)' = {}
    BY <1>1 DEF Absent
  <2> QED
    BY <1>1, <2>1, <2>3, <2>4 DEF JoinOK, Absent, At
<1> QED
  BY <1>1, <1>3, <1>4 DEF PlayerOK

(* A phone whose button allows a join is not in the team that it asks for. *)
LEMMA PlayerOnRequest ==
    ASSUME OrderInv, Orderly, DistinctSeeds, NEW h \in Handlers, NEW g \in Games, NotRaced(g)', NEW p \in Players,
           NEW t \in Teams, ReceiveJoin(h, p, t)
    PROVE  PlayerOK(g, p)'
<1>1. /\ Moves(h) /\ Unmoved(h) /\ NotRaced(g) /\ PlayerOK(g, p) /\ thread \in [Handlers -> ThreadType]
      /\ UNCHANGED <<game, button>>
  <2>1. Moves(h) /\ UNCHANGED <<game, button>>
    BY DEF Moves, Requests, ReceiveJoin, Receive
  <2>2. ListInv /\ IInv /\ PlayersOK /\ thread \in [Handlers -> ThreadType]
    BY DEF OrderInv, ListInv, IInv, TypeOK
  <2>3. NotRaced(g)
    BY <2>1, <2>2, Frame DEF NotRaced
  <2> QED
    BY <2>1, <2>2, <2>3, Frame DEF PlayersOK
<1>2. /\ button[p] # t /\ \A k \in Handlers : ~Joins(k, p)
  BY DEF ReceiveJoin, Waits, Joins
<1>3. thread'[h] = Fresh("remove", "join", p, t)
  BY <1>1 DEF ReceiveJoin, Receive
<1>4. \A u \in Teams : NoNew(g, u, p)
  <2>1. ~Store(h) /\ ~Grow(h)
    BY DEF ReceiveJoin, Receive, Store, Grow, At
  <2>2. p \in Names /\ \A u \in Teams : ~raced'[g][u]
    BY DEF NotRaced, Names
  <2> QED
    BY <1>1, <2>1, <2>2, PlacesStep DEF OrderInv
<1>5. Single(g, p)' /\ \A u \in Teams : Places(g, u, p) = {} => Places(g, u, p)' = {}
  BY <1>1, <1>4, SingleKept DEF PlayerOK
<1>6. g = game => Places(g, t, p) = {}
  BY <1>1, <1>2 DEF PlayerOK
<1>7. Joins(h, p)' /\ \A k \in Handlers \ {h} : ~Joins(k, p)'
  BY <1>1, <1>2, <1>3 DEF Unmoved, Joins, Fresh
<1>8. JoinOK(h, g, p)'
  BY <1>1, <1>3, <1>5, <1>6 DEF JoinOK, At, Fresh
<1> QED
  BY <1>5, <1>7, <1>8 DEF PlayerOK

(* The steps of a join. *)
LEMMA PlayerOnJoin ==
    ASSUME OrderInv, Orderly, DistinctSeeds, NEW h \in Handlers, Joining(h), NEW g \in Games, NotRaced(g)',
           NEW p \in Players, Joins(h, p)
    PROVE  PlayerOK(g, p)'
<1>1. /\ Moves(h) /\ Unmoved(h) /\ IInv /\ ListInv /\ NotRaced(g) /\ PlayerOK(g, p) /\ JoinOK(h, g, p)
      /\ thread \in [Handlers -> ThreadType] /\ thread[h] \in ThreadType
      /\ button \in [Players -> Teams \union {None}]
  <2>1. Moves(h)
    BY DEF Moves
  <2>2. ListInv /\ IInv /\ PlayersOK /\ thread \in [Handlers -> ThreadType] /\ thread[h] \in ThreadType
        /\ button \in [Players -> Teams \union {None}]
    BY DEF OrderInv, ListInv, IInv, TypeOK
  <2>3. NotRaced(g)
    BY <2>1, <2>2, Frame DEF NotRaced
  <2>4. PlayerOK(g, p)
    BY <2>2, <2>3 DEF PlayersOK
  <2> QED
    BY <2>1, <2>2, <2>3, <2>4, Frame DEF PlayerOK
<1>2. game' = game /\ g # NoGame
  <2>1. game' = game
    BY DEF Joining, DerefRemove, Search, Shift, LoadLast, Clear, DerefAdd, LoadSize, StoreSize, Store, heap
  <2> QED
    BY <2>1 DEF Games, NoGame
<1>3. PICK T \in Teams : T = thread[h].team
  BY <1>1 DEF ThreadType
<1>4. Other[T] \in Teams /\ Other[Other[T]] = T /\ \A t \in Teams : t = T \/ t = Other[T]
  BY DEF Teams, Other
<1>5. \A k \in Handlers \ {h} : ~Joins(k, p)'
  <2>1. \A k \in Handlers \ {h} : ~Joins(k, p)
    BY DEF OrderInv, JoinOnce
  <2> QED
    BY <1>1, <2>1 DEF Unmoved, Joins
<1>6. /\ p \in Names /\ p \notin SeedNames("red") /\ p \notin SeedNames("blue")
      /\ \A t \in Teams : ~raced'[g][t]
  BY DEF Names, DistinctSeeds, NotRaced, Teams
<1>7. \A t \in Teams : NoNew(g, t, p) \/ (Store(h) /\ thread[h].at = g /\ thread[h].part = t)
  BY <1>1, <1>6, PlacesStep DEF Teams
<1>8. ASSUME ~(Store(h) /\ thread[h].at = g)
      PROVE  /\ Single(g, p)' /\ (Absent(g, p) => Absent(g, p)')
             /\ \A t \in Teams : Places(g, t, p) = {} => Places(g, t, p)' = {}
  BY <1>1, <1>7, <1>8, SingleKept DEF PlayerOK
<1>9. ASSUME Joins(h, p)', Single(g, p)', JoinOK(h, g, p)' PROVE PlayerOK(g, p)'
  BY <1>5, <1>9 DEF PlayerOK
<1>10. ASSUME thread'[h].op # "join", Single(g, p)',
              g = game => \A t \in Teams : Places(g, t, p)' # {} => button'[p] = t
       PROVE  PlayerOK(g, p)'
  BY <1>2, <1>5, <1>10 DEF PlayerOK, Joins
<1>11. CASE DerefRemove(h)
  <2>1. ~Store(h) /\ thread[h].pc = "remove"
    BY <1>11 DEF DerefRemove, Store, At
  <2>2. /\ Joins(h, p)' /\ thread'[h].team = T
        /\ \/ game = NoGame /\ thread'[h].pc = "add"
           \/ thread'[h].pc = "search" /\ thread'[h].at = game /\ thread'[h].part = Other[T]
    BY <1>1, <1>3, <1>11 DEF DerefRemove, Goto, GotoList, ThreadType, Joins
  <2>3. g = game => Places(g, T, p) = {}
    BY <1>1, <1>3, <2>1 DEF JoinOK, At
  <2>4. JoinOK(h, g, p)'
    BY <1>2, <1>3, <1>8, <2>1, <2>2, <2>3 DEF JoinOK, At
  <2> QED
    BY <1>8, <1>9, <2>1, <2>2, <2>4
<1>12. CASE Search(h)
  <2> DEFINE found == Found(Array(h), Load(h), p)
  <2>1. ~Store(h) /\ thread[h].pc = "search"
    BY <1>12 DEF Search, Store, At
  <2>2. /\ Joins(h, p)' /\ thread'[h].team = T /\ thread'[h].at = thread[h].at /\ thread'[h].part = thread[h].part
        /\ \/ found = {} /\ thread'[h].pc = "add"
           \/ thread'[h].pc = "shift"
    BY <1>1, <1>3, <1>12 DEF Search, Goto, GotoWith, ThreadType, Joins
  <2>3. /\ thread[h].part = Other[T]
        /\ g = thread[h].at => Places(g, T, p) = {}
        /\ g = game /\ g # thread[h].at => Absent(g, p)
    BY <1>1, <1>3, <2>1 DEF JoinOK, At
  <2>4. ASSUME found = {}, g = thread[h].at PROVE Places(g, Other[T], p) = {}
    <3> DEFINE a == slots[g][Other[T]]
    <3>1. PICK k \in Int : k = size[g][Other[T]]
      BY <1>1, <1>4 DEF IInv, TypeOK
    <3>2. Found(a, k, p) = {}
      BY <2>3, <2>4, <3>1 DEF Array, Load
    <3>3. \A i \in 1..k : Slot(a, i) # p
      <4>1. CASE k \in Nat
        BY <3>2, <4>1, FoundNobody
      <4>2. CASE k \notin Nat
        BY <3>1, <4>2
      <4> QED
        BY <4>1, <4>2
    <3>4. Counted(g, Other[T]) \in Int /\ Counted(g, Other[T]) <= k
      BY <3>1 DEF Counted
    <3> QED
      BY <3>1, <3>3, <3>4 DEF Places
  <2>5. JoinOK(h, g, p)'
    <3>1. CASE thread'[h].pc = "shift"
      BY <1>2, <1>3, <1>8, <2>1, <2>2, <2>3, <3>1 DEF JoinOK, At
    <3>2. CASE found = {} /\ thread'[h].pc = "add"
      <4>1. g = game => Absent(g, p)
        BY <1>4, <2>3, <2>4, <3>2 DEF Absent
      <4> QED
        BY <1>2, <1>3, <1>8, <2>1, <2>2, <3>2, <4>1 DEF JoinOK, At
    <3> QED
      BY <2>2, <3>1, <3>2
  <2> QED
    BY <1>8, <1>9, <2>1, <2>2, <2>5
<1>13. CASE Shift(h)
  <2>1. ~Store(h) /\ thread[h].pc = "shift"
    BY <1>13 DEF Shift, Store, At
  <2>2. Joins(h, p)' /\ thread'[h].team = T /\ thread'[h].at = thread[h].at /\ thread'[h].pc = "last"
    BY <1>1, <1>3, <1>13 DEF Shift, Goto, ThreadType, Joins
  <2>3. /\ thread[h].part = Other[T]
        /\ g = thread[h].at => Places(g, T, p) = {}
        /\ g = game /\ g # thread[h].at => Absent(g, p)
    BY <1>1, <1>3, <2>1 DEF JoinOK, At
  <2>4. g = thread[h].at => Absent(g, p)'
    <3> SUFFICES ASSUME g = thread[h].at PROVE Absent(g, p)'
      OBVIOUS
    <3>1. ~raced[g][Other[T]] /\ Once(g, Other[T], p)
      BY <1>1, <1>4 DEF NotRaced, PlayerOK, Single
    <3>2. Places(g, Other[T], p)' = {}
      BY <1>1, <1>4, <1>13, <2>3, <3>1, PlacesOnShift DEF Joins
    <3> QED
      BY <1>4, <1>8, <2>1, <2>3, <3>2 DEF Absent
  <2>5. JoinOK(h, g, p)'
    BY <1>2, <1>8, <2>1, <2>2, <2>3, <2>4 DEF JoinOK, At
  <2> QED
    BY <1>8, <1>9, <2>1, <2>2, <2>5
<1>14. CASE LoadLast(h) \/ LoadSize(h) \/ StoreSize(h)
  <2>1. /\ ~Store(h) /\ thread[h].pc \in {"last", "load", "size"}
    BY <1>14 DEF LoadLast, LoadSize, StoreSize, Store, At
  <2>2. /\ Joins(h, p)' /\ thread'[h].team = T /\ thread'[h].at = thread[h].at
        /\ thread'[h].pc \in {"clear", "size", "store"}
    BY <1>1, <1>3, <1>14 DEF LoadLast, LoadSize, StoreSize, Goto, GotoWith, ThreadType, Joins
  <2>3. g = game \/ g = thread[h].at => Absent(g, p)
    BY <1>1, <2>1 DEF JoinOK, At
  <2>4. JoinOK(h, g, p)'
    BY <1>2, <1>8, <2>1, <2>2, <2>3 DEF JoinOK, At
  <2> QED
    BY <1>8, <1>9, <2>1, <2>2, <2>4
<1>15. CASE Clear(h) \/ DerefAdd(h)
  <2>1. /\ ~Store(h) /\ thread[h].pc \in {"clear", "add"}
    BY <1>15 DEF Clear, DerefAdd, Store, At
  <2>2. g = game => Absent(g, p)
    BY <1>1, <2>1 DEF JoinOK, At
  <2>3. \/ thread'[h] = Idle
        \/ /\ Joins(h, p)' /\ thread'[h].team = T
           /\ \/ thread'[h].pc = "add"
              \/ thread'[h].pc = "load" /\ thread'[h].at = game
    <3>1. CASE Clear(h)
      BY <1>1, <1>3, <3>1 DEF Clear, Goto, Answer, ThreadType, Joins
    <3>2. CASE DerefAdd(h)
      BY <1>1, <1>3, <3>2 DEF DerefAdd, GotoList, Answer, ThreadType, Joins
    <3> QED
      BY <1>15, <3>1, <3>2
  <2>4. CASE thread'[h] = Idle
    <3>1. g = game => \A t \in Teams : Places(g, t, p)' = {}
      BY <1>8, <2>1, <2>2 DEF Absent
    <3> QED
      BY <1>8, <1>10, <2>1, <2>4, <3>1 DEF Idle, Fresh
  <2>5. CASE Joins(h, p)' /\ thread'[h].pc = "add"
    <3>1. JoinOK(h, g, p)'
      BY <1>2, <1>8, <2>1, <2>2, <2>5 DEF JoinOK, At
    <3> QED
      BY <1>8, <1>9, <2>1, <2>5, <3>1
  <2>6. CASE Joins(h, p)' /\ thread'[h].pc = "load" /\ thread'[h].at = game
    <3>1. JoinOK(h, g, p)'
      BY <1>2, <1>8, <2>1, <2>2, <2>6 DEF JoinOK, At
    <3> QED
      BY <1>8, <1>9, <2>1, <2>6, <3>1
  <2> QED
    BY <2>3, <2>4, <2>5, <2>6
<1>16. CASE Store(h)
  <2>1. thread[h].pc = "store" /\ thread'[h] = Idle /\ thread[h].part = T /\ thread[h].player = p
    BY <1>1, <1>3, <1>16 DEF Store, At, Answer, IInv, StepsKnown, Joins
  <2>2. button'[p] = T
    BY <1>1, <1>3, <1>16 DEF Store, Answer, Joins
  <2>3. g = game \/ g = thread[h].at => Absent(g, p)
    BY <1>1, <2>1 DEF JoinOK, At
  <2>4. CASE g = thread[h].at
    <3>1. NoNew(g, Other[T], p)
      BY <1>4, <1>7, <2>1 DEF Teams, Other
    <3>2. Places(g, Other[T], p)' = {}
      BY <1>4, <2>3, <2>4, <3>1 DEF NoNew, Absent
    <3>3. Once(g, T, p)'
      BY <1>1, <1>6, <1>16, <2>1, <2>3, <2>4, PlacesOnAdding DEF Absent
    <3>4. \A t \in Teams : Once(g, t, p)'
      BY <1>4, <3>2, <3>3 DEF Once
    <3>5. Single(g, p)'
      BY <1>4, <3>2, <3>4 DEF Single
    <3> QED
      BY <1>4, <1>10, <2>1, <2>2, <3>2, <3>5 DEF Idle, Fresh
  <2>5. CASE g # thread[h].at
    <3>1. g = game => \A t \in Teams : Places(g, t, p)' = {}
      BY <1>8, <2>3, <2>5 DEF Absent
    <3> QED
      BY <1>8, <1>10, <2>1, <2>5, <3>1 DEF Idle, Fresh
  <2> QED
    BY <2>4, <2>5
<1> QED
  BY <1>11, <1>12, <1>13, <1>14, <1>15, <1>16 DEF Joining

LEMMA PlayersStep ==
    ASSUME OrderInv, Orderly, DistinctSeeds, NEW h \in Handlers, Moves(h)
    PROVE  PlayersOK'
<1> SUFFICES ASSUME NEW g \in Games, NotRaced(g)', NEW p \in Players
             PROVE  PlayerOK(g, p)'
  BY DEF PlayersOK
<1>1. /\ Unmoved(h) /\ IInv /\ ListInv /\ CreateOK /\ NotRaced(g) /\ PlayerOK(g, p)
      /\ button \in [Players -> Teams \union {None}]
  <2>1. ListInv /\ IInv /\ CreateOK /\ PlayersOK /\ button \in [Players -> Teams \union {None}]
    BY DEF OrderInv, ListInv, IInv, TypeOK
  <2>2. NotRaced(g) /\ Unmoved(h)
    BY <2>1, Frame DEF NotRaced
  <2> QED
    BY <2>1, <2>2 DEF PlayersOK
<1>2. CASE \E t \in Teams : ReceiveJoin(h, p, t)
  BY <1>2, PlayerOnRequest
<1>3. CASE Joins(h, p)
  <2>1. thread[h].pc \in JoinSteps
    BY <1>1, <1>3 DEF Joins, IInv, StepsKnown
  <2>2. Joining(h)
    BY <2>1 DEF Moves, Requests, ReceiveJoin, ReceiveCreate, ReceiveDelete, ReceiveGet, Receive, Answering, Seed, Grow,
                Show, Respond, At, SeedStep, Teams, JoinSteps
  <2> QED
    BY <1>3, <2>2, PlayerOnJoin
<1>4. CASE ~Joins(h, p) /\ ~\E t \in Teams : ReceiveJoin(h, p, t)
  <2>1. ~Joins(h, p)'
    BY <1>4, JoinOnceStep
  <2>2. \A t \in Teams : NoNew(g, t, p)
    <3>1. Store(h) => thread[h].player # p
      BY <1>1, <1>4 DEF Store, At, IInv, StepsKnown, JoinSteps, Joins
    <3>2. p \in Names /\ \A t \in Teams : p \notin SeedNames(t) /\ ~raced'[g][t]
      BY DEF Names, DistinctSeeds, NotRaced
    <3> QED
      BY <1>1, <3>1, <3>2, PlacesStep
  <2>3. button'[p] = button[p]
    <3>1. UNCHANGED button \/ Answer(h)
      <4>1. CASE Requests(h)
        BY <4>1 DEF Requests, ReceiveJoin, ReceiveCreate, ReceiveDelete, ReceiveGet, Receive
      <4>2. CASE Joining(h)
        BY <4>2 DEF Joining, DerefRemove, Search, Shift, LoadLast, Clear, DerefAdd, LoadSize, StoreSize, Store
      <4>3. CASE Answering(h)
        BY <4>3 DEF Answering, Seed, Grow, Show, Respond
      <4> QED
        BY <4>1, <4>2, <4>3 DEF Moves
    <3> QED
      BY <1>1, <1>4, <3>1 DEF Answer, Joins
  <2>4. g = game' => g = game \/ Absent(g, p)
    <3>1. CASE ReceiveCreate(h) /\ g = game'
      <4>1. created \in Nat /\ g = created + 1
        BY <1>1, <3>1, BoundsAssumption DEF ReceiveCreate, IInv, TypeOK
      <4>2. \A t \in Teams : size[g][t] = 0
        BY <1>1, <4>1 DEF CreateOK
      <4>3. \A t \in Teams : ~(1 <= Counted(g, t))
        BY <4>2 DEF Counted
      <4>4. \A t \in Teams : Counted(g, t) \in Int
        BY <4>2 DEF Counted
      <4> QED
        BY <4>3, <4>4 DEF Absent, Places
    <3>2. CASE ~ReceiveCreate(h)
      <4>1. game' \in {game, NoGame}
        <5>1. CASE Requests(h)
          BY <3>2, <5>1 DEF Requests, ReceiveJoin, ReceiveDelete, ReceiveGet, Receive, heap
        <5>2. CASE Joining(h)
          BY <5>2 DEF Joining, DerefRemove, Search, Shift, LoadLast, Clear, DerefAdd, LoadSize, StoreSize, Store,
                      heap
        <5>3. CASE Answering(h)
          BY <5>3 DEF Answering, Seed, Grow, Show, Respond, heap
        <5> QED
          BY <5>1, <5>2, <5>3 DEF Moves
      <4> QED
        BY <4>1 DEF Games, NoGame
    <3> QED
      BY <3>1, <3>2
  <2> QED
    BY <1>1, <1>4, <2>1, <2>2, <2>3, <2>4, PlayerElse
<1> QED
  BY <1>2, <1>3, <1>4

LEMMA OrderInitial == Init => OrderInv
<1> SUFFICES ASSUME Init PROVE OrderInv
  OBVIOUS
<1>1. ListInv
  BY ListInitial
<1>2. /\ \A h \in Handlers : thread[h].pc = "idle" /\ thread[h].op = "get" /\ thread[h].at = 0
      /\ \A g \in Games, t \in Teams : size[g][t] = 0
      /\ game = 0 /\ created = 0
  BY DEF Init, Idle, Fresh, NoGame
<1>3. CreateOK /\ JoinOnce
  BY <1>2 DEF CreateOK, JoinOnce, Joins, At, NoGame
<1>4. \A g \in Games, t \in Teams : \A q : Places(g, t, q) = {}
  <2>1. \A g \in Games, t \in Teams : Counted(g, t) = 0
    BY <1>2 DEF Counted, Inside, Halfway
  <2> QED
    BY <2>1 DEF Places
<1>5. \A t \in Teams : Other[t] \in Teams
  BY DEF Teams, Other
<1>6. SeedsOK
  BY <1>4, <1>5 DEF SeedsOK, SeedOK, Once
<1>7. PlayersOK
  BY <1>2, <1>4, <1>5 DEF PlayersOK, PlayerOK, Single, Once, Joins
<1> QED
  BY <1>1, <1>3, <1>6, <1>7 DEF OrderInv

LEMMA OrderInductive == ASSUME Orderly, DistinctSeeds PROVE Spec => []OrderInv
<1>1. Init => OrderInv
  BY OrderInitial
<1>2. OrderInv /\ ListInv' /\ [Next]_vars => OrderInv'
  <2> SUFFICES ASSUME OrderInv, ListInv', [Next]_vars PROVE OrderInv'
    OBVIOUS
  <2>1. CASE UNCHANGED vars
    <3>1. CreateOK' /\ JoinOnce'
      BY <2>1 DEF vars, heap, OrderInv, CreateOK, JoinOnce, Joins, At
    <3>2. SeedsOK'
      BY <2>1 DEF vars, heap, OrderInv, SeedsOK, SeedOK, NotRaced, Unseeded, Once, Places, Counted, Inside, At
    <3>3. PlayersOK'
      BY <2>1 DEF vars, heap, OrderInv, PlayersOK, PlayerOK, JoinOK, NotRaced, Single, Absent, Once, Places, Counted,
                  Inside, Joins, At
    <3> QED
      BY <3>1, <3>2, <3>3 DEF OrderInv
  <2>2. ASSUME NEW h \in Handlers, Moves(h) PROVE OrderInv'
    BY <2>2, CreateStep, JoinOnceStep, SeedsStep, PlayersStep DEF OrderInv
  <2> QED
    BY <2>1, <2>2 DEF Next, Moves
<1> QED
  BY <1>1, <1>2, ListsInductive, PTL DEF Spec

(* In a list without a writer the places that count are those of its size. *)
LEMMA OrderlyMeans ==
    ASSUME OrderInv, DistinctSeeds, NEW g \in Games, NEW p \in Names,
           \A t \in Teams : ~raced[g][t] /\ Quiet(g, t)
    PROVE  Cardinality({m \in Teams \X (1..MaxSize) :
               m[2] <= size[g][m[1]] /\ Slot(slots[g][m[1]], m[2]) = p}) <= 1
<1> DEFINE S == {m \in Teams \X (1..MaxSize) : m[2] <= size[g][m[1]] /\ Slot(slots[g][m[1]], m[2]) = p}
<1>1. \A t \in Teams : Counted(g, t) = size[g][t] /\ Other[t] \in Teams
  BY QuietCounts DEF Quiet, Teams, Other
<1>2. Single(g, p)
  <2>1. NotRaced(g)
    BY DEF NotRaced
  <2>2. CASE p \in Players
    BY <2>1, <2>2 DEF OrderInv, PlayersOK, PlayerOK
  <2>3. ASSUME NEW t \in Teams, p \in SeedNames(t) PROVE Single(g, p)
    <3>1. SeedOK(g, t, p) /\ \A u \in Teams : u = t \/ u = Other[t]
      BY <2>1, <2>3 DEF OrderInv, SeedsOK, Teams, Other
    <3>2. Once(g, t, p) /\ Places(g, Other[t], p) = {} /\ Other[Other[t]] = t
      BY <3>1 DEF SeedOK, Teams, Other
    <3>3. Once(g, Other[t], p)
      BY <3>2 DEF Once
    <3> QED
      BY <3>1, <3>2, <3>3 DEF Single
  <2> QED
    BY <2>2, <2>3 DEF Names, Teams
<1>3. ASSUME NEW m \in S, NEW i \in S PROVE m = i
  <2>1. /\ m = <<m[1], m[2]>> /\ i = <<i[1], i[2]>> /\ m[1] \in Teams /\ i[1] \in Teams
        /\ m[2] \in Places(g, m[1], p) /\ i[2] \in Places(g, i[1], p)
    BY <1>1 DEF Places
  <2>2. m[1] = i[1]
    BY <1>2, <2>1 DEF Single, Teams, Other
  <2>3. m[2] = i[2]
    BY <1>2, <2>1, <2>2 DEF Single, Once
  <2> QED
    BY <2>1, <2>2, <2>3
<1>4. CASE S = {}
  <2>1. Cardinality(S) = 0
    <3> HIDE DEF S
    <3> QED
      BY <1>4, FS_EmptySet
  <2> QED
    BY <2>1
<1>5. CASE S # {}
  <2>1. PICK m : m \in S
    BY <1>5
  <2>2. S = {m}
    BY <1>3, <2>1
  <2>3. Cardinality({m}) = 1
    BY FS_Singleton
  <2> QED
    BY <2>2, <2>3
<1> QED
  BY <1>4, <1>5

(* Phones that wait for the answer to a join and disable the button of the team *)
(* that they are in, and one creation or deletion at a time: nobody is in both  *)
(* teams of a game or in one of them twice, unless two handlers met in a list.  *)
(* The test players have to have names of their own.                            *)
THEOREM NobodyTwice == ASSUME DistinctSeeds PROVE Spec => []NoDoubles
<1>1. CASE Orderly
  <2>1. OrderInv => NoDoubles
    BY OrderlyMeans DEF NoDoubles
  <2> QED
    BY <1>1, <2>1, OrderInductive, PTL
<1>2. CASE ~Orderly
  <2>1. NoDoubles
    BY <1>2 DEF NoDoubles
  <2> QED
    BY <2>1, PTL
<1> QED
  BY <1>1, <1>2
=============================================================================
