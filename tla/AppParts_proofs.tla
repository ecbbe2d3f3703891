-------------------------- MODULE AppParts_proofs --------------------------
(***************************************************************************)
(* Safety of the app's parts, each for any values of its bounds: what a    *)
(* state has to keep so that every further step of the part is safe.  The  *)
(* constants and variables are those of the parts, with the names that     *)
(* MCPhone gives them, but that q of PositionCalc is called position and   *)
(* its Anchors, of which RenderLoop has some too, MapAnchors.              *)
(***************************************************************************)
EXTENDS Integers, SequenceTheorems, FunctionTheorems, FiniteSetTheorems, WellFoundedInduction, TLAPS

CONSTANTS
    MaxRecordings, MaxQueue, Rounds,    \* ChatRecorder
    Others, OnlyMap, MaxGets, MaxCuts, MaxLeaves, MaxOrders, MaxRecreated, Restarts,    \* MapSession
    Anchors, MaxLoops, MaxMovables, OneChange,  \* RenderLoop
    Phones, Creators, MaxGames, Orderly, Lossy, \* Lobby
    Order, MaxTasks,    \* TagScan
    AnchorCount, Message, MaxDrops, MaxMaps, MaxAir, RequestsFail, MapFirst,    \* TagLink
    MAXITER, WINDOW_SIZE, MapAnchors, Measurements, MaxPosted   \* PositionCalc

VARIABLES
    chatQueue, recording, recorders, armed, fired, updates, progress, chatCrashed, late,
    mapGame, left, renderLoop, movables, gets, mapLink, told, session, orders, leaves,
    chatActivated, spyEnabled, rounds, cuts, recreated, mapCrashed, answers, overdue,
    surface, main, loops, canvas, failed, why,
    top, listener, hears, admin, team, seen, off, lobbyLink, subscribed, lobbyGame, created,
    members, calls, starts, joined, unsure, summoned,
    scanDialog, scanning, timer, scanQueue, foundTags, listAdapter, tapped, connected, scanCrashed,
    tagLink, modeCharacteristic, requests, anchorCount, map, linkDialog, tag, air, handed, missed,
    drops, maps, linkCrashed,
    data, posted, pc, rows, position, qPrev, iter, window, used, results

Chat == INSTANCE ChatRecorder WITH queue <- chatQueue, crashed <- chatCrashed
Map == INSTANCE MapSession WITH MapOnly <- OnlyMap, game <- mapGame, link <- mapLink, crashed <- mapCrashed
Render == INSTANCE RenderLoop
Lobby == INSTANCE Lobby WITH link <- lobbyLink, game <- lobbyGame
Scan == INSTANCE TagScan WITH MaxQueue <- MaxTasks, dialog <- scanDialog, queue <- scanQueue,
    crashed <- scanCrashed
Link == INSTANCE TagLink WITH MapOnly <- MapFirst, link <- tagLink, dialog <- linkDialog,
    crashed <- linkCrashed
Calc == INSTANCE PositionCalc WITH Anchors <- MapAnchors, q <- position

-----------------------------------------------------------------------------
(* ChatRecorder: a limit is late for the recording that goes on, once and *)
(* after its timer has gone off, until a tap has stopped such a recording.  *)

LimitsDue ==
    /\ \A r \in fired : recording /\ r = Len(recorders) /\ armed = {}
    /\ \A i \in 1..Len(chatQueue) : chatQueue[i] # 0 =>
        /\ recording /\ armed = {} /\ fired = {} /\ chatQueue[i] = Len(recorders)
        /\ \A j \in 1..Len(chatQueue) : chatQueue[j] # 0 => j = i

ChatInv ==
    /\ Chat!TypeOK
    /\ updates = 1 => progress <= Rounds
    /\ ~chatCrashed =>
         /\ ~recording => updates = 0
         /\ armed \subseteq (IF recording THEN {Len(recorders)} ELSE {}) /\ Chat!MicrophoneShown
         /\ ~late => LimitsDue
         /\ \A i \in 1..Len(chatQueue) : chatQueue[i] # 0 => Len(recorders) > 0
    /\ Chat!StoppedTwiceOnlyIfLate

ChatStep == Chat!Next \/ UNCHANGED Chat!vars

LEMMA ChatInitial == ASSUME Chat!BoundsAssumption, Chat!Init PROVE ChatInv
<1> USE DEF Chat!Recorders, Chat!Current, Chat!Init
<1>1. Len(chatQueue) = 0 /\ Len(recorders) = 0
  BY EmptySeq
<1>2. chatQueue \in Seq(Nat) /\ recorders \in Seq(Chat!Stage \union {"released"})
  BY EmptySeq
<1>3. Chat!TypeOK
  <2>1. {recording, chatCrashed, late} \subseteq BOOLEAN
    BY Zenon
  <2>2. Len(recorders) <= MaxRecordings /\ armed \subseteq 1..Len(recorders)
        /\ fired \subseteq 1..Len(recorders) /\ updates \in 0..1
        /\ progress \in 0..(Rounds + 1)
    BY <1>1 DEF Chat!BoundsAssumption
  <2> QED
    BY <1>2, <2>1, <2>2, Zenon DEF Chat!TypeOK
<1>4. Chat!MicrophoneShown /\ Chat!StoppedTwiceOnlyIfLate
  BY <1>1 DEF Chat!MicrophoneShown, Chat!StoppedTwiceOnlyIfLate
<1> QED
  BY <1>1, <1>3, <1>4 DEF ChatInv, LimitsDue

(* A queue without a limit, and one after its head. *)
LEMMA QueuePut ==
    ASSUME NEW t \in Nat, chatQueue \in Seq(Nat), chatQueue' = Append(chatQueue, t)
    PROVE  /\ chatQueue' \in Seq(Nat) /\ Len(chatQueue') = Len(chatQueue) + 1
           /\ \A i \in 1..Len(chatQueue) : chatQueue'[i] = chatQueue[i]
           /\ chatQueue'[Len(chatQueue) + 1] = t /\ Len(chatQueue) \in Nat
BY AppendProperties, LenProperties

LEMMA QueueTaken ==
    ASSUME chatQueue \in Seq(Nat), chatQueue # <<>>, chatQueue' = Tail(chatQueue)
    PROVE  /\ chatQueue' \in Seq(Nat) /\ Head(chatQueue) \in Nat
           /\ Head(chatQueue) = chatQueue[1] /\ Len(chatQueue') = Len(chatQueue) - 1
           /\ Len(chatQueue) \in Nat /\ Len(chatQueue) >= 1
           /\ \A i \in 1..Len(chatQueue') : chatQueue'[i] = chatQueue[i + 1]
<1>1. Len(chatQueue) \in Nat /\ Len(chatQueue) # 0
  BY EmptySeq, LenProperties
<1> QED
  BY <1>1, HeadTailProperties

(* The recorders: one is made, and one goes on. *)
LEMMA RecorderMade ==
    ASSUME recorders \in Seq(Chat!Stage \union {"released"}), recorders' = Append(recorders, "created")
    PROVE  /\ recorders' \in Seq(Chat!Stage \union {"released"}) /\ Len(recorders') = Len(recorders) + 1
           /\ \A r \in 1..Len(recorders) : recorders'[r] = recorders[r]
           /\ recorders'[Len(recorders) + 1] = "created" /\ Len(recorders) \in Nat
<1>1. "created" \in Chat!Stage \union {"released"}
  BY DEF Chat!Stage, Chat!Stages
<1> QED
  BY <1>1, AppendProperties, LenProperties

LEMMA RecorderGoesOn ==
    ASSUME recorders \in Seq(Chat!Stage \union {"released"}), NEW r \in 1..Len(recorders),
           NEW s \in Chat!Stage \union {"released"}, recorders' = [recorders EXCEPT ![r] = s]
    PROVE  /\ recorders' \in Seq(Chat!Stage \union {"released"}) /\ Len(recorders') = Len(recorders)
           /\ \A k \in 1..Len(recorders) : recorders'[k] = IF k = r THEN s ELSE recorders[k]
BY ExceptSeq

LEMMA ChatInductive == ASSUME Chat!BoundsAssumption, ChatInv, ChatStep PROVE ChatInv'
<1> USE DEF Chat!Recorders, Chat!Current
<1>1. CASE UNCHANGED Chat!vars
  BY <1>1 DEF Chat!vars, ChatInv, Chat!TypeOK, Chat!MicrophoneShown,
              LimitsDue, Chat!StoppedTwiceOnlyIfLate
<1> SUFFICES ASSUME Chat!Next PROVE ChatInv'
  BY <1>1 DEF ChatStep
<1>2. /\ ~chatCrashed /\ Chat!TypeOK /\ (updates = 1 => progress <= Rounds) /\ (~recording => updates = 0)
      /\ Chat!MicrophoneShown /\ (~late => LimitsDue)
      /\ armed \subseteq (IF recording THEN {Len(recorders)} ELSE {})
      /\ {r \in 1..Len(recorders) : recorders[r] # "released"} = (IF recording THEN {Len(recorders)} ELSE {})
      /\ \A i \in 1..Len(chatQueue) : chatQueue[i] # 0 => Len(recorders) > 0
  BY DEF Chat!Next, ChatInv, Chat!MicrophoneShown
<1>3. Len(recorders) \in Nat
  BY <1>2, LenProperties DEF Chat!TypeOK
<1>4. CASE Chat!Tap
  <2>1. UNCHANGED <<recording, recorders, armed, fired, updates, progress, chatCrashed, late>>
        /\ chatQueue' = Append(chatQueue, 0)
    BY <1>4 DEF Chat!Tap, Chat!TapTask
  <2>2. chatQueue' \in Seq(Nat) /\ (~late' => LimitsDue')
    BY <1>2, <2>1, QueuePut DEF Chat!TypeOK, LimitsDue
  <2> QED
    BY <1>2, <2>1, <2>2 DEF ChatInv, Chat!TypeOK, Chat!MicrophoneShown,
                            Chat!StoppedTwiceOnlyIfLate
<1>5. ASSUME NEW r \in 1..Len(recorders), Chat!TimeOver(r) PROVE ChatInv'
  <2>1. /\ UNCHANGED <<chatQueue, recording, recorders, updates, progress, chatCrashed, late>>
        /\ r \in armed /\ armed' = armed \ {r} /\ fired' = fired \union {r}
    BY <1>5 DEF Chat!TimeOver
  <2>2. recording /\ r = Len(recorders) /\ armed = {r} /\ armed' = {}
    BY <1>2, <2>1
  <2>3. ~late' => LimitsDue'
    BY <1>2, <2>1, <2>2 DEF LimitsDue
  <2> QED
    BY <1>2, <2>1, <2>2, <2>3 DEF ChatInv, Chat!TypeOK, Chat!MicrophoneShown, Chat!StoppedTwiceOnlyIfLate
<1>6. ASSUME NEW r \in 1..Len(recorders), Chat!PostLimit(r) PROVE ChatInv'
  <2>1. /\ UNCHANGED <<recording, recorders, armed, updates, progress, chatCrashed, late>>
        /\ r \in fired /\ fired' = fired \ {r} /\ chatQueue' = Append(chatQueue, r)
    BY <1>6 DEF Chat!PostLimit
  <2>2. r \in Nat /\ r # 0 /\ Len(recorders) > 0
    BY <1>3
  <2>3. /\ chatQueue' \in Seq(Nat) /\ Len(chatQueue') = Len(chatQueue) + 1
        /\ \A i \in 1..Len(chatQueue) : chatQueue'[i] = chatQueue[i]
        /\ chatQueue'[Len(chatQueue) + 1] = r /\ Len(chatQueue) \in Nat
    BY <1>2, <2>1, <2>2, QueuePut DEF Chat!TypeOK
  <2>4. ~late' => LimitsDue'
    <3>1. ASSUME ~late
          PROVE  /\ recording /\ r = Len(recorders) /\ armed = {} /\ fired = {r} /\ fired' = {}
                 /\ \A i \in 1..Len(chatQueue) : chatQueue[i] = 0
      BY <1>2, <2>1, <3>1 DEF LimitsDue
    <3> QED
      BY <2>1, <2>3, <3>1 DEF LimitsDue
  <2>5. \A i \in 1..Len(chatQueue') : chatQueue'[i] # 0 => Len(recorders') > 0
    BY <2>1, <2>2
  <2>6. Chat!TypeOK'
    BY <1>2, <2>1, <2>3 DEF Chat!TypeOK
  <2> QED
    BY <1>2, <2>1, <2>4, <2>5, <2>6 DEF ChatInv, Chat!MicrophoneShown, Chat!StoppedTwiceOnlyIfLate
<1>7. CASE Chat!Task
  <2>1. /\ chatQueue # <<>> /\ chatQueue' = Tail(chatQueue) /\ chatQueue \in Seq(Nat)
        /\ fired' = fired /\ fired \subseteq 1..Len(recorders)
    BY <1>2, <1>7 DEF Chat!Task, Chat!TypeOK
  <2>2. /\ chatQueue' \in Seq(Nat) /\ Head(chatQueue) \in Nat
        /\ Head(chatQueue) = chatQueue[1] /\ Len(chatQueue') = Len(chatQueue) - 1
        /\ Len(chatQueue) \in Nat /\ Len(chatQueue) >= 1
        /\ \A i \in 1..Len(chatQueue') : chatQueue'[i] = chatQueue[i + 1]
    BY <2>1, QueueTaken
  <2>3. CASE ~recording /\ Chat!Start
    <3>1. /\ recorders' = Append(recorders, "created") /\ recording' = TRUE
          /\ armed' = armed \union {Len(recorders) + 1} /\ updates' = updates + 1 /\ progress' = 1
          /\ UNCHANGED <<chatCrashed, late>> /\ Len(recorders) < MaxRecordings
      BY <2>3 DEF Chat!Start, Chat!Armed, Chat!Stages
    <3>2. /\ recorders' \in Seq(Chat!Stage \union {"released"}) /\ Len(recorders') = Len(recorders) + 1
          /\ \A r \in 1..Len(recorders) : recorders'[r] = recorders[r]
          /\ recorders'[Len(recorders) + 1] = "created"
      BY <1>2, <3>1, RecorderMade DEF Chat!TypeOK
    <3>3. armed' = {Len(recorders')} /\ updates' = 1
      BY <1>2, <2>3, <3>1, <3>2
    <3>4. ~late' => LimitsDue'
      <4>1. ASSUME ~late PROVE fired = {} /\ \A i \in 1..Len(chatQueue') : chatQueue'[i] = 0
        BY <1>2, <2>2, <2>3, <4>1 DEF LimitsDue
      <4> QED
        BY <2>1, <3>1, <4>1 DEF LimitsDue
    <3>5. Chat!TypeOK'
      BY <1>2, <1>3, <2>1, <2>2, <3>1, <3>2, <3>3 DEF Chat!TypeOK, Chat!BoundsAssumption
    <3>6. \A r \in 1..Len(recorders') : recorders'[r] # "released" <=> r = Len(recorders')
      BY <1>2, <1>3, <2>3, <3>2
    <3>7. Chat!MicrophoneShown'
      BY <1>3, <3>1, <3>2, <3>6 DEF Chat!MicrophoneShown
    <3> QED
      BY <1>2, <3>1, <3>3, <3>4, <3>5, <3>7
      DEF ChatInv, Chat!StoppedTwiceOnlyIfLate, Chat!BoundsAssumption
  <2>4. CASE UNCHANGED <<recording, recorders, armed, updates, progress, chatCrashed, late>>
             /\ Head(chatQueue) = 0
    <3>1. ~late' => LimitsDue'
      <4>1. ASSUME ~late, NEW i \in 1..Len(chatQueue'), NEW j \in 1..Len(chatQueue'),
                   chatQueue'[i] # 0, chatQueue'[j] # 0
            PROVE  recording /\ armed = {} /\ fired = {} /\ chatQueue'[i] = Len(recorders) /\ i = j
        <5>1. /\ i + 1 \in 1..Len(chatQueue) /\ j + 1 \in 1..Len(chatQueue)
              /\ chatQueue[i + 1] # 0 /\ chatQueue[j + 1] # 0
          BY <2>2, <4>1
        <5>2. /\ recording /\ armed = {} /\ fired = {} /\ chatQueue[i + 1] = Len(recorders)
              /\ i + 1 = j + 1
          BY <1>2, <4>1, <5>1 DEF LimitsDue
        <5>3. chatQueue'[i] = chatQueue[i + 1]
          BY <2>2
        <5> QED
          BY <5>2, <5>3
      <4>2. ASSUME ~late PROVE \A r \in fired : recording /\ r = Len(recorders) /\ armed = {}
        BY <1>2, <4>2 DEF LimitsDue
      <4> QED
        BY <2>1, <2>4, <4>1, <4>2 DEF LimitsDue
    <3> QED
      BY <1>2, <2>1, <2>2, <2>4, <3>1 DEF ChatInv, Chat!TypeOK, Chat!MicrophoneShown,
                                    Chat!StoppedTwiceOnlyIfLate
  <2>5. CASE (Head(chatQueue) = 0 => recording) /\ Chat!Stop
    <3>1. /\ armed' = armed \ {Len(recorders)}
          /\ late' = (late \/ (/\ Head(chatQueue) = 0
                              /\ Len(recorders) \in fired \union Chat!QueuedLimits(chatQueue)))
      BY <2>5 DEF Chat!Stop, Chat!Cancelled, Chat!TapTask
    <3>2. armed' = {} /\ late' \in BOOLEAN /\ (late => late')
      BY <1>2, <3>1 DEF Chat!TypeOK
    <3>3. ASSUME ~late' PROVE recording /\ fired = {} /\ \A i \in 1..Len(chatQueue') : chatQueue'[i] = 0
      <4>1. CASE Head(chatQueue) = 0
        <5>1. Len(recorders) \notin fired \union Chat!QueuedLimits(chatQueue)
          BY <3>1, <3>3, <4>1
        <5>2. \A i \in 1..Len(chatQueue) : chatQueue[i] \in Chat!ToSet(chatQueue)
          BY DEF Chat!ToSet
        <5>3. \A i \in 1..Len(chatQueue) : chatQueue[i] # Len(recorders) \/ chatQueue[i] = 0
          BY <5>1, <5>2 DEF Chat!QueuedLimits, Chat!TapTask
        <5>4. LimitsDue /\ recording
          BY <1>2, <2>5, <3>2, <3>3, <4>1
        <5>5. fired = {} /\ \A i \in 1..Len(chatQueue) : chatQueue[i] = 0
          BY <5>1, <5>3, <5>4 DEF LimitsDue
        <5> QED
          BY <2>2, <5>4, <5>5
      <4>2. CASE Head(chatQueue) # 0
        BY <1>2, <2>2, <3>2, <3>3, <4>2 DEF LimitsDue
      <4> QED
        BY <4>1, <4>2
    <3>4. Len(recorders) \in 1..Len(recorders)
      BY <1>2, <1>3, <2>2, <2>5
    <3>5. ~recording => \A r \in 1..Len(recorders) : recorders[r] = "released"
      BY <1>2
    <3>6. CASE /\ recorders[Len(recorders)] \in {"started", "fed"}
               /\ recorders' = [recorders EXCEPT ![Len(recorders)] = "released"]
               /\ recording' = FALSE /\ updates' = 0 /\ UNCHANGED <<progress, chatCrashed>>
      <4>1. recorders' \in Seq(Chat!Stage \union {"released"}) /\ Len(recorders') = Len(recorders)
            /\ \A k \in 1..Len(recorders) :
                   recorders'[k] = IF k = Len(recorders) THEN "released" ELSE recorders[k]
        BY <1>2, <3>4, <3>6, RecorderGoesOn DEF Chat!TypeOK
      <4>2. \A k \in 1..Len(recorders') : recorders'[k] = "released"
        BY <1>2, <4>1
      <4>3. Chat!MicrophoneShown'
        BY <3>6, <4>2 DEF Chat!MicrophoneShown
      <4>4. Chat!TypeOK'
        <5>1. Len(recorders) <= MaxRecordings /\ progress \in 0..(Rounds + 1) /\ chatCrashed \in BOOLEAN
          BY <1>2 DEF Chat!TypeOK
        <5>2. armed' \subseteq 1..Len(recorders') /\ fired' \subseteq 1..Len(recorders') /\ updates' \in 0..1
          BY <2>1, <3>2, <3>6, <4>1
        <5>3. {recording, chatCrashed, late}' \subseteq BOOLEAN
          BY <3>2, <3>6, <5>1, Zenon
        <5> QED
          BY <2>2, <3>6, <4>1, <5>1, <5>2, <5>3 DEF Chat!TypeOK
      <4> QED
        BY <1>2, <2>1, <2>2, <3>2, <3>3, <3>6, <4>3, <4>4
        DEF ChatInv, LimitsDue, Chat!StoppedTwiceOnlyIfLate
    <3>7. CASE chatCrashed' = TRUE /\ UNCHANGED <<recording, recorders, updates, progress>>
      <4>1. recorders'[Len(recorders')] = "released" => late'
        BY <1>2, <3>3, <3>4, <3>7
      <4>2. Chat!TypeOK'
        BY <1>2, <2>1, <2>2, <3>2, <3>7 DEF Chat!TypeOK
      <4> QED
        BY <1>2, <3>7, <4>1, <4>2
        DEF ChatInv, Chat!MicrophoneShown, Chat!StoppedTwiceOnlyIfLate
    <3> QED
      BY <2>5, <3>6, <3>7 DEF Chat!Stop, Chat!Stopped, Chat!UpdatesRemoved
  <2> QED
    BY <1>7, <2>3, <2>4, <2>5 DEF Chat!Task, Chat!TapTask
<1>8. CASE Chat!Update
  BY <1>2, <1>8 DEF Chat!Update, ChatInv, Chat!TypeOK, Chat!MicrophoneShown, LimitsDue,
                    Chat!StoppedTwiceOnlyIfLate, Chat!BoundsAssumption
<1>9. ASSUME NEW r \in 1..Len(recorders), Chat!Thread(r) PROVE ChatInv'
  <2>1. PICK i \in 1..4 : /\ recorders[r] = Chat!Stages[i]
                          /\ recorders' = [recorders EXCEPT ![r] = Chat!Stages[i + 1]]
    BY <1>9 DEF Chat!Thread
  <2>2. /\ Chat!Stages[i] # "released" /\ Chat!Stages[i + 1] # "released"
        /\ Chat!Stages[i + 1] \in Chat!Stage \union {"released"}
    BY DEF Chat!Stages, Chat!Stage
  <2>3. /\ recorders' \in Seq(Chat!Stage \union {"released"}) /\ Len(recorders') = Len(recorders)
        /\ \A k \in 1..Len(recorders) :
               recorders'[k] = IF k = r THEN Chat!Stages[i + 1] ELSE recorders[k]
    BY <1>2, <2>1, <2>2, RecorderGoesOn DEF Chat!TypeOK
  <2>4. \A k \in 1..Len(recorders) : recorders'[k] # "released" <=> recorders[k] # "released"
    BY <2>1, <2>2, <2>3
  <2>5. UNCHANGED <<chatQueue, recording, armed, fired, updates, progress, chatCrashed, late>>
    BY <1>9 DEF Chat!Thread
  <2>6. Chat!MicrophoneShown'
    BY <1>2, <2>3, <2>4, <2>5 DEF Chat!MicrophoneShown
  <2> QED
    BY <1>2, <2>3, <2>5, <2>6 DEF ChatInv, Chat!TypeOK, LimitsDue,
                                  Chat!StoppedTwiceOnlyIfLate
<1> QED
  BY <1>4, <1>5, <1>7, <1>8, <1>9, <1>6 DEF Chat!Next

LEMMA ChatMeans ==
    ASSUME ChatInv
    PROVE  Chat!TypeOK /\ Chat!LimitsAreCurrent /\ Chat!MicrophoneShown /\ Chat!StoppedTwiceOnlyIfLate
<1>1. ASSUME ~chatCrashed, ~late PROVE \A x \in Chat!QueuedLimits(chatQueue) : recording /\ x = Len(recorders)
  <2>1. LimitsDue
    BY <1>1 DEF ChatInv
  <2> SUFFICES ASSUME NEW x \in Chat!QueuedLimits(chatQueue) PROVE recording /\ x = Len(recorders)
    OBVIOUS
  <2>2. PICK i \in 1..Len(chatQueue) : chatQueue[i] = x /\ x # 0
    BY DEF Chat!QueuedLimits, Chat!ToSet, Chat!TapTask
  <2> QED
    BY <2>1, <2>2 DEF LimitsDue
<1>2. ASSUME ~chatCrashed, ~late PROVE \A x \in fired : recording /\ x = Len(recorders)
  BY <1>2 DEF ChatInv, LimitsDue
<1>3. Chat!LimitsAreCurrent
  BY <1>1, <1>2 DEF ChatInv, Chat!LimitsAreCurrent, Chat!Current
<1> QED
  BY <1>3 DEF ChatInv, Chat!MicrophoneShown

(* The microphone is used by the recording that the button shows and by nobody else. *)
(* No timer is set for a recording that is over; a limit of one is still under way,  *)
(* to end the next recording or to stop a released recorder, only if a tap stopped   *)
(* it after its timer's thread had taken the task.  For any numbers of recordings,   *)
(* queued tasks and updates of the display.                                          *)
THEOREM RecordingSafe ==
    ASSUME Chat!BoundsAssumption
    PROVE  Chat!Spec => [](/\ Chat!TypeOK /\ Chat!LimitsAreCurrent /\ Chat!MicrophoneShown
                           /\ Chat!StoppedTwiceOnlyIfLate)
<1>1. Chat!Init => ChatInv
  BY ChatInitial
<1>2. ChatInv /\ [Chat!Next]_Chat!vars => ChatInv'
  BY ChatInductive DEF ChatStep
<1> QED
  BY <1>1, <1>2, ChatMeans, PTL DEF Chat!Spec

-----------------------------------------------------------------------------
(* MapSession: what the broker will send when it has taken every order that *)
(* is on its way to it.                                                     *)

LastIs(q, w, t) ==
    \E i \in 1..Len(q) : q[i] = <<w, t>> /\ \A j \in 1..Len(q) : j > i => q[j][2] # t
NoneOf(q, t) == \A i \in 1..Len(q) : q[i][2] # t
Gets(q, s, t) == LastIs(q, "subscribe", t) \/ (NoneOf(q, t) /\ t \in s)
After(s, o) == IF o[1] = "subscribe" THEN s \union {o[2]} ELSE s \ {o[2]}

LEMMA OrdersAdded ==
    ASSUME NEW q \in Seq(Map!Orders), NEW new \in Seq(Map!Orders), NEW t
    PROVE  /\ q \o new \in Seq(Map!Orders) /\ Len(q \o new) = Len(q) + Len(new)
           /\ \A w : LastIs(new, w, t) => LastIs(q \o new, w, t)
           /\ NoneOf(new, t) => /\ NoneOf(q, t) <=> NoneOf(q \o new, t)
                                /\ \A w : LastIs(q, w, t) <=> LastIs(q \o new, w, t)
<1>1. /\ q \o new \in Seq(Map!Orders) /\ Len(q \o new) = Len(q) + Len(new)
      /\ \A i \in 1..Len(q) + Len(new) : (q \o new)[i] = IF i <= Len(q) THEN q[i] ELSE new[i - Len(q)]
  BY ConcatProperties
<1>2. Len(q) \in Nat /\ Len(new) \in Nat
  BY LenProperties
<1>3. ASSUME NEW w, LastIs(new, w, t) PROVE LastIs(q \o new, w, t)
  <2>1. PICK i \in 1..Len(new) : new[i] = <<w, t>> /\ \A j \in 1..Len(new) : j > i => new[j][2] # t
    BY <1>3 DEF LastIs
  <2>2. Len(q) + i \in 1..Len(q \o new) /\ (q \o new)[Len(q) + i] = <<w, t>>
    BY <1>1, <1>2, <2>1
  <2>3. ASSUME NEW j \in 1..Len(q \o new), j > Len(q) + i PROVE (q \o new)[j][2] # t
    BY <1>1, <1>2, <2>1, <2>3
  <2> QED
    BY <2>2, <2>3 DEF LastIs
<1>4. ASSUME NoneOf(new, t) PROVE NoneOf(q, t) <=> NoneOf(q \o new, t)
  BY <1>1, <1>2, <1>4 DEF NoneOf
<1>5. ASSUME NoneOf(new, t), NEW w, LastIs(q, w, t) PROVE LastIs(q \o new, w, t)
  <2>1. PICK i \in 1..Len(q) : q[i] = <<w, t>> /\ \A j \in 1..Len(q) : j > i => q[j][2] # t
    BY <1>5 DEF LastIs
  <2>2. i \in 1..Len(q \o new) /\ (q \o new)[i] = <<w, t>>
    BY <1>1, <1>2, <2>1
  <2>3. ASSUME NEW j \in 1..Len(q \o new), j > i PROVE (q \o new)[j][2] # t
    BY <1>1, <1>2, <1>5, <2>1, <2>3 DEF NoneOf
  <2> QED
    BY <2>2, <2>3 DEF LastIs
<1>6. ASSUME NoneOf(new, t), NEW w, LastIs(q \o new, w, t) PROVE LastIs(q, w, t)
  <2>1. PICK i \in 1..Len(q \o new) :
            (q \o new)[i] = <<w, t>> /\ \A j \in 1..Len(q \o new) : j > i => (q \o new)[j][2] # t
    BY <1>6 DEF LastIs
  <2>2. i <= Len(q)
    BY <1>1, <1>2, <1>6, <2>1 DEF NoneOf
  <2>3. i \in 1..Len(q) /\ q[i] = <<w, t>>
    BY <1>1, <1>2, <2>1, <2>2
  <2>4. ASSUME NEW j \in 1..Len(q), j > i PROVE q[j][2] # t
    BY <1>1, <1>2, <2>1, <2>4
  <2> QED
    BY <2>3, <2>4 DEF LastIs
<1> QED
  BY <1>1, <1>3, <1>4, <1>5, <1>6

LEMMA OrderTaken ==
    ASSUME NEW q \in Seq(Map!Orders), q # <<>>, NEW s, NEW t
    PROVE  /\ Head(q) \in Map!Orders /\ Tail(q) \in Seq(Map!Orders)
           /\ \A w : LastIs(Tail(q), w, t) => LastIs(q, w, t)
           /\ NoneOf(Tail(q), t) /\ Head(q)[2] # t => NoneOf(q, t)
           /\ NoneOf(Tail(q), t) /\ Head(q)[2] = t => LastIs(q, Head(q)[1], t)
           /\ Gets(q, s, t) => Gets(Tail(q), After(s, Head(q)), t)
<1>1. /\ Head(q) \in Map!Orders /\ Tail(q) \in Seq(Map!Orders) /\ Len(Tail(q)) = Len(q) - 1
      /\ \A i \in 1..Len(Tail(q)) : Tail(q)[i] = q[i + 1]
      /\ Head(q) = q[1]
  BY HeadTailProperties
<1>2. Len(q) \in Nat /\ Len(q) # 0
  BY LenProperties, EmptySeq
<1>3. Head(q) = <<Head(q)[1], Head(q)[2]>> /\ Head(q)[1] \in {"subscribe", "unsubscribe"}
  BY <1>1 DEF Map!Orders
<1>4. ASSUME NEW w, LastIs(Tail(q), w, t) PROVE LastIs(q, w, t)
  <2>1. PICK i \in 1..Len(Tail(q)) :
            Tail(q)[i] = <<w, t>> /\ \A j \in 1..Len(Tail(q)) : j > i => Tail(q)[j][2] # t
    BY <1>4 DEF LastIs
  <2>2. i + 1 \in 1..Len(q) /\ q[i + 1] = <<w, t>>
    BY <1>1, <1>2, <2>1
  <2>3. ASSUME NEW j \in 1..Len(q), j > i + 1 PROVE q[j][2] # t
    <3>1. j - 1 \in 1..Len(Tail(q)) /\ j - 1 > i /\ q[(j - 1) + 1] = q[j]
      BY <1>1, <1>2, <2>1, <2>3
    <3> QED
      BY <1>1, <2>1, <3>1
  <2> QED
    BY <2>2, <2>3 DEF LastIs
<1>5. ASSUME NoneOf(Tail(q), t), NEW j \in 1..Len(q), j > 1 PROVE q[j][2] # t
  <2>1. j - 1 \in 1..Len(Tail(q)) /\ q[(j - 1) + 1] = q[j]
    BY <1>1, <1>2, <1>5
  <2> QED
    BY <1>1, <1>5, <2>1 DEF NoneOf
<1>6. ASSUME NoneOf(Tail(q), t), Head(q)[2] # t PROVE NoneOf(q, t)
  BY <1>1, <1>2, <1>5, <1>6 DEF NoneOf
<1>7. ASSUME NoneOf(Tail(q), t), Head(q)[2] = t PROVE LastIs(q, Head(q)[1], t)
  <2>1. 1 \in 1..Len(q) /\ q[1] = <<Head(q)[1], t>>
    BY <1>1, <1>2, <1>3, <1>7
  <2> QED
    BY <1>5, <1>7, <2>1 DEF LastIs
<1>8. ASSUME LastIs(q, "subscribe", t) PROVE Gets(Tail(q), After(s, Head(q)), t)
  <2>1. PICK i \in 1..Len(q) : q[i] = <<"subscribe", t>> /\ \A j \in 1..Len(q) : j > i => q[j][2] # t
    BY <1>8 DEF LastIs
  <2>2. CASE i = 1
    <3>1. NoneOf(Tail(q), t)
      BY <1>1, <1>2, <2>1, <2>2 DEF NoneOf
    <3> QED
      BY <1>1, <2>1, <2>2, <3>1 DEF Gets, After
  <2>3. CASE i > 1
    <3>1. i - 1 \in 1..Len(Tail(q)) /\ Tail(q)[i - 1] = q[(i - 1) + 1] /\ (i - 1) + 1 = i
      BY <1>1, <1>2, <2>1, <2>3
    <3>2. ASSUME NEW j \in 1..Len(Tail(q)), j > i - 1 PROVE Tail(q)[j][2] # t
      BY <1>1, <1>2, <2>1, <3>2
    <3> QED
      BY <2>1, <3>1, <3>2 DEF Gets, LastIs
  <2> QED
    BY <2>2, <2>3
<1>9. ASSUME NoneOf(q, t), t \in s PROVE Gets(Tail(q), After(s, Head(q)), t)
  <2>1. NoneOf(Tail(q), t) /\ Head(q)[2] # t
    BY <1>1, <1>2, <1>9 DEF NoneOf
  <2> QED
    BY <1>9, <2>1 DEF Gets, After
<1> QED
  BY <1>1, <1>4, <1>6, <1>7, <1>8, <1>9 DEF Gets

-----------------------------------------------------------------------------
(* MapSession: the invariant, by what its properties are about. *)

ENEMY == "enemyPositions"

(* A game on a connection that lasts; activities that subscribe anew when they are *)
(* made anew.                                                                      *)
Lasting == MaxCuts = 0 /\ MaxRecreated = 0 /\ ~Restarts /\ ~OnlyMap
Resubscribing == ~OnlyMap \/ MaxRecreated = 0

MapTypes ==
    /\ Map!TypeOK
    /\ gets <= MaxGets + recreated
    /\ ~mapLink => ~told /\ orders = <<>>

(* The button's round is the only one of this activity. *)
RoundsInv ==
    ~mapCrashed =>
        /\ spyEnabled => \A i \in 1..Len(rounds) : ~rounds[i].here
        /\ ~spyEnabled => \E i \in 1..Len(rounds) :
                              rounds[i].here /\ \A j \in 1..Len(rounds) : rounds[j].here => j = i

(* The orders of the open connection, which may be on their way, keep the team heard. *)
TeamInv ==
    mapLink /\ told => /\ Gets(orders, session, "positions")
                       /\ chatActivated => Gets(orders, session, "chat")

(* Behind each start of spying on its way there is its end, unless it lasts. *)
Ended(q, lasts) ==
    \A i \in 1..Len(q) : q[i] = <<"subscribe", ENEMY>> =>
        lasts \/ \E j \in 1..Len(q) : j > i /\ q[j] = <<"unsubscribe", ENEMY>>

SpyInv ==
    /\ Ended(orders, Map!Spying)
    /\ NoneOf(orders, ENEMY) /\ ENEMY \in session => Map!Spying \/ overdue
    /\ Lasting => /\ mapLink /\ told /\ ~overdue /\ (Map!Spying => Gets(orders, session, ENEMY))
                  /\ \A i \in 1..Len(rounds) : rounds[i].here

(* Whom the renderer has, and how often. *)
Placed(p) ==
    /\ movables[p] <= answers
    /\ answers > 0 => IF p \in left THEN movables[p] < answers ELSE movables[p] > 0
ShownInv == (~renderLoop => answers = 0) /\ \A p \in Others : Placed(p)

MapInv == MapTypes /\ RoundsInv /\ TeamInv /\ SpyInv /\ ShownInv

MapStep == Map!Next \/ UNCHANGED Map!vars

(* The orders that are sent. *)
LEMMA OneOrder ==
    ASSUME NEW w \in {"subscribe", "unsubscribe"}, NEW t \in Map!Topics
    PROVE  /\ << <<w, t>> >> \in Seq(Map!Orders) /\ LastIs(<< <<w, t>> >>, w, t)
           /\ \A u : u # t => NoneOf(<< <<w, t>> >>, u)
           /\ Len(<< <<w, t>> >>) = 1 /\ << <<w, t>> >>[1] = <<w, t>>
<1>1. <<w, t>> \in Map!Orders
  BY DEF Map!Orders
<1> QED
  BY <1>1 DEF LastIs, NoneOf

LEMMA TeamOrders ==
    /\ Map!SubscribeTeam \in Seq(Map!Orders)
    /\ LastIs(Map!SubscribeTeam, "subscribe", "positions")
    /\ LastIs(Map!SubscribeTeam, "subscribe", "chat")
    /\ NoneOf(Map!SubscribeTeam, ENEMY)
<1> DEFINE s == Map!SubscribeTeam
<1>1. /\ s \in [1..2 -> Map!Orders] /\ s[1] = <<"subscribe", "chat">> /\ s[2] = <<"subscribe", "positions">>
  BY DEF Map!SubscribeTeam, Map!TeamTopics, Map!Orders, Map!Topics
<1>2. s \in Seq(Map!Orders)
  BY <1>1, SeqDef
<1>3. Len(s) = 2
  BY <1>1, <1>2, LenProperties
<1> HIDE DEF s
<1>4. LastIs(s, "subscribe", "positions")
  BY <1>1, <1>3 DEF LastIs
<1>5. LastIs(s, "subscribe", "chat")
  <2>1. \A j \in 1..Len(s) : j > 1 => s[j][2] # "chat"
    BY <1>1, <1>3
  <2> QED
    BY <1>1, <1>3, <2>1 DEF LastIs
<1>6. NoneOf(s, ENEMY)
  BY <1>1, <1>3 DEF NoneOf, ENEMY
<1> QED
  BY <1>2, <1>4, <1>5, <1>6 DEF s

LEMMA Sent ==
    ASSUME MapTypes, NEW new \in Seq(Map!Orders), Map!Send(new)
    PROVE  /\ orders' \in Seq(Map!Orders)
           /\ ~mapLink => orders' = <<>>
           /\ mapLink => orders' = orders \o new
BY OrdersAdded DEF MapTypes, Map!TypeOK, Map!Send

(* The rounds: one more, one's end, one less, and all of an earlier activity. *)
Round == [spying : BOOLEAN, here : BOOLEAN]

LEMMA RoundAdded ==
    ASSUME rounds \in Seq(Round), rounds' = Append(rounds, [spying |-> TRUE, here |-> TRUE])
    PROVE  /\ rounds' \in Seq(Round) /\ Len(rounds) \in Nat /\ Len(rounds') = Len(rounds) + 1
           /\ \A i \in 1..Len(rounds) : rounds'[i] = rounds[i]
           /\ rounds'[Len(rounds) + 1].spying /\ rounds'[Len(rounds) + 1].here
<1>1. [spying |-> TRUE, here |-> TRUE] \in Round
  BY DEF Round
<1> QED
  BY <1>1, AppendProperties, LenProperties

LEMMA RoundEnded ==
    ASSUME rounds \in Seq(Round), NEW i \in 1..Len(rounds), rounds' = [rounds EXCEPT ![i].spying = FALSE]
    PROVE  /\ rounds' \in Seq(Round) /\ Len(rounds') = Len(rounds)
           /\ \A k \in 1..Len(rounds) : rounds'[k].here = rounds[k].here
           /\ \A k \in 1..Len(rounds) : k # i => rounds'[k] = rounds[k]
           /\ rounds'[i].spying = FALSE
<1>1. PICK r \in Round : r = rounds[i]
  BY ElementOfSeq
<1>2. PICK e \in Round : e = [r EXCEPT !.spying = FALSE]
  BY DEF Round
<1>3. e.here = r.here /\ e.spying = FALSE
  BY <1>1, <1>2 DEF Round
<1>4. rounds' = [rounds EXCEPT ![i] = e]
  BY <1>1, <1>2
<1>5. /\ rounds' \in Seq(Round) /\ Len(rounds') = Len(rounds)
      /\ \A k \in 1..Len(rounds) : rounds'[k] = IF k = i THEN e ELSE rounds[k]
  <2>1. /\ [rounds EXCEPT ![i] = e] \in Seq(Round) /\ Len([rounds EXCEPT ![i] = e]) = Len(rounds)
        /\ \A k \in 1..Len(rounds) : [rounds EXCEPT ![i] = e][k] = IF k = i THEN e ELSE rounds[k]
    BY ExceptSeq
  <2> QED
    BY <1>4, <2>1
<1> QED
  BY <1>1, <1>3, <1>5

LEMMA RoundsRemade ==
    ASSUME rounds \in Seq(Round), rounds' = [i \in 1..Len(rounds) |-> [rounds[i] EXCEPT !.here = FALSE]]
    PROVE  /\ rounds' \in Seq(Round) /\ Len(rounds') = Len(rounds)
           /\ \A k \in 1..Len(rounds) : rounds'[k].spying = rounds[k].spying /\ rounds'[k].here = FALSE
<1>1. Len(rounds) \in Nat
  BY LenProperties
<1>2. ASSUME NEW k \in 1..Len(rounds)
      PROVE  /\ [rounds[k] EXCEPT !.here = FALSE] \in Round
             /\ [rounds[k] EXCEPT !.here = FALSE].spying = rounds[k].spying
             /\ [rounds[k] EXCEPT !.here = FALSE].here = FALSE
  <2>1. PICK r \in Round : r = rounds[k]
    BY ElementOfSeq
  <2> QED
    BY <2>1 DEF Round
<1>3. rounds' \in [1..Len(rounds) -> Round]
  BY <1>2
<1>4. rounds' \in Seq(Round)
  BY <1>1, <1>3, SeqDef
<1>5. Len(rounds') = Len(rounds)
  BY <1>1, <1>3, <1>4, LenProperties
<1> QED
  BY <1>2, <1>4, <1>5

LEMMA RoundTaken ==
    ASSUME rounds \in Seq(Round), rounds # <<>>, rounds' = Tail(rounds)
    PROVE  /\ rounds' \in Seq(Round) /\ Len(rounds) \in Nat /\ Len(rounds') = Len(rounds) - 1
           /\ Head(rounds) = rounds[1] /\ Len(rounds) >= 1
           /\ \A i \in 1..Len(rounds') : rounds'[i] = rounds[i + 1]
<1>1. Len(rounds) \in Nat /\ Len(rounds) # 0
  BY LenProperties, EmptySeq
<1> QED
  BY <1>1, HeadTailProperties

LEMMA RoundsStep == ASSUME MapInv, Map!Next PROVE RoundsInv'
<1>1. /\ rounds \in Seq(Round) /\ ~mapCrashed
      /\ spyEnabled => \A i \in 1..Len(rounds) : ~rounds[i].here
      /\ ~spyEnabled => \E i \in 1..Len(rounds) :
                            rounds[i].here /\ \A j \in 1..Len(rounds) : rounds[j].here => j = i
  BY DEF MapInv, MapTypes, Map!TypeOK, Round, RoundsInv, Map!Next
<1>2. CASE UNCHANGED <<spyEnabled, rounds>>
  BY <1>1, <1>2 DEF RoundsInv
<1>3. CASE Map!Spy
  <2>1. spyEnabled /\ spyEnabled' = FALSE /\ rounds' = Append(rounds, [spying |-> TRUE, here |-> TRUE])
    BY <1>3 DEF Map!Spy, Map!AfterTap
  <2>2. /\ Len(rounds) \in Nat /\ Len(rounds') = Len(rounds) + 1
        /\ \A i \in 1..Len(rounds) : rounds'[i] = rounds[i]
        /\ rounds'[Len(rounds) + 1].here
    BY <1>1, <2>1, RoundAdded
  <2>3. ASSUME NEW j \in 1..Len(rounds'), rounds'[j].here PROVE j = Len(rounds) + 1
    BY <1>1, <2>1, <2>2, <2>3
  <2>4. Len(rounds) + 1 \in 1..Len(rounds')
    BY <2>2
  <2>5. \E i \in 1..Len(rounds') : rounds'[i].here /\ \A j \in 1..Len(rounds') : rounds'[j].here => j = i
    BY <2>2, <2>3, <2>4
  <2> QED
    BY <2>1, <2>5 DEF RoundsInv
<1>4. ASSUME NEW i \in 1..Len(rounds), Map!SpyingTimeOver(i) PROVE RoundsInv'
  <2>1. rounds' = [rounds EXCEPT ![i].spying = FALSE] /\ spyEnabled' = spyEnabled
    BY <1>4 DEF Map!SpyingTimeOver
  <2>2. Len(rounds') = Len(rounds) /\ \A k \in 1..Len(rounds) : rounds'[k].here = rounds[k].here
    BY <1>1, <2>1, RoundEnded
  <2> QED
    BY <1>1, <2>1, <2>2 DEF RoundsInv
<1>5. CASE Map!Recharged
  <2>1. /\ rounds # <<>> /\ rounds' = Tail(rounds)
        /\ IF Head(rounds).here THEN spyEnabled' = TRUE /\ mapCrashed' = mapCrashed
           ELSE mapCrashed' = TRUE /\ spyEnabled' = spyEnabled
    BY <1>5 DEF Map!Recharged
  <2>2. /\ Len(rounds) \in Nat /\ Len(rounds') = Len(rounds) - 1
        /\ Head(rounds) = rounds[1] /\ Len(rounds) >= 1
        /\ \A i \in 1..Len(rounds') : rounds'[i] = rounds[i + 1]
    BY <1>1, <2>1, RoundTaken
  <2>3. CASE Head(rounds).here
    <3>1. \A i \in 1..Len(rounds) : rounds[i].here => i = 1
      BY <1>1, <2>2, <2>3
    <3>2. ASSUME NEW i \in 1..Len(rounds') PROVE ~rounds'[i].here
      <4>1. i + 1 \in 1..Len(rounds) /\ i + 1 # 1
        BY <2>2
      <4> QED
        BY <2>2, <3>1, <4>1
    <3> QED
      BY <2>1, <2>3, <3>2 DEF RoundsInv
  <2>4. CASE ~Head(rounds).here
    BY <2>1, <2>4 DEF RoundsInv
  <2> QED
    BY <2>3, <2>4
<1>6. CASE Map!Recreate
  <2>1. /\ rounds' = [i \in 1..Len(rounds) |-> [rounds[i] EXCEPT !.here = FALSE]]
        /\ spyEnabled' = TRUE
    BY <1>6 DEF Map!Recreate
  <2>2. Len(rounds') = Len(rounds) /\ \A k \in 1..Len(rounds) : rounds'[k].here = FALSE
    BY <1>1, <2>1, RoundsRemade
  <2> QED
    BY <2>1, <2>2 DEF RoundsInv
<1> QED
  BY <1>2, <1>3, <1>4, <1>5, <1>6
  DEF Map!Next, Map!Timers, Map!Answer, Map!LeaveArrives, Map!ConnectComplete, Map!AnswerNone,
      Map!SurfaceChanged, Map!ActivateChat, Map!Connect, Map!Cut, Map!BrokerRestart, Map!BrokerTakes,
      Map!PlayerLeaves, Map!buttons

(* The team's topics. *)
LEMMA GetsKept ==
    ASSUME NEW q \in Seq(Map!Orders), NEW new \in Seq(Map!Orders), NEW s, NEW t
    PROVE  /\ LastIs(new, "subscribe", t) => Gets(q \o new, s, t)
           /\ NoneOf(new, t) /\ Gets(q, s, t) => Gets(q \o new, s, t)
BY OrdersAdded DEF Gets

LEMMA TeamStep == ASSUME Map!BoundsAssumption, Resubscribing, MapInv, Map!Next PROVE TeamInv'
<1> USE DEF Map!screen, Map!buttons
<1>1. MapTypes /\ TeamInv /\ orders \in Seq(Map!Orders) /\ (~mapLink => ~told)
  BY DEF MapInv, MapTypes, Map!TypeOK
<1>2. CASE UNCHANGED <<mapLink, told, orders, session, chatActivated>>
  BY <1>1, <1>2 DEF TeamInv
<1>3. CASE mapLink' = FALSE \/ told' = FALSE
  BY <1>3 DEF TeamInv
<1>4. CASE Map!ActivateChat
  <2>1. PICK w \in {"subscribe", "unsubscribe"} :
            /\ w = IF chatActivated THEN "unsubscribe" ELSE "subscribe"
            /\ Map!Send(<< <<w, "chat">> >>)
    BY <1>4 DEF Map!ActivateChat
  <2>2. UNCHANGED <<mapLink, told, session>> /\ chatActivated' = ~chatActivated
    BY <1>4 DEF Map!ActivateChat
  <2>3. /\ << <<w, "chat">> >> \in Seq(Map!Orders) /\ LastIs(<< <<w, "chat">> >>, w, "chat")
        /\ NoneOf(<< <<w, "chat">> >>, "positions")
    BY OneOrder DEF Map!Topics
  <2>4. CASE mapLink /\ told
    <3>1. orders' = orders \o << <<w, "chat">> >>
      BY <1>1, <2>1, <2>3, <2>4, Sent
    <3>2. Gets(orders', session, "positions")
      BY <1>1, <2>3, <2>4, <3>1, GetsKept DEF TeamInv
    <3>3. chatActivated' => Gets(orders', session, "chat")
      BY <1>1, <2>1, <2>2, <2>3, <3>1, GetsKept
    <3> QED
      BY <2>2, <3>2, <3>3 DEF TeamInv
  <2> QED
    BY <2>2, <2>4 DEF TeamInv
<1>5. CASE Map!Spy
  <2>1. /\ Map!Send(<< <<"subscribe", ENEMY>> >>) /\ UNCHANGED <<mapLink, told, session, chatActivated>>
    BY <1>5 DEF Map!Spy, ENEMY
  <2>2. /\ << <<"subscribe", ENEMY>> >> \in Seq(Map!Orders)
        /\ NoneOf(<< <<"subscribe", ENEMY>> >>, "positions") /\ NoneOf(<< <<"subscribe", ENEMY>> >>, "chat")
    BY OneOrder DEF Map!Topics, ENEMY
  <2>3. mapLink => orders' = orders \o << <<"subscribe", ENEMY>> >>
    BY <1>1, <2>1, <2>2, Sent
  <2> QED
    BY <1>1, <2>1, <2>2, <2>3, GetsKept DEF TeamInv
<1>6. ASSUME NEW i \in 1..Len(rounds), Map!SpyingTimeOver(i) PROVE TeamInv'
  <2>1. /\ Map!Send(<< <<"unsubscribe", ENEMY>> >>) /\ UNCHANGED <<mapLink, told, session, chatActivated>>
    BY <1>6 DEF Map!SpyingTimeOver, Map!EndOfRound, ENEMY
  <2>2. /\ << <<"unsubscribe", ENEMY>> >> \in Seq(Map!Orders)
        /\ NoneOf(<< <<"unsubscribe", ENEMY>> >>, "positions")
        /\ NoneOf(<< <<"unsubscribe", ENEMY>> >>, "chat")
    BY OneOrder DEF Map!Topics, ENEMY
  <2>3. mapLink => orders' = orders \o << <<"unsubscribe", ENEMY>> >>
    BY <1>1, <2>1, <2>2, Sent
  <2> QED
    BY <1>1, <2>1, <2>2, <2>3, GetsKept DEF TeamInv
<1>7. CASE Map!ConnectComplete \/ Map!Recreate
  <2>1. CASE Map!Send(Map!SubscribeTeam)
    <3>1. mapLink => orders' = orders \o Map!SubscribeTeam
      BY <1>1, <2>1, Sent, TeamOrders
    <3>2. mapLink => \A s : Gets(orders', s, "positions") /\ Gets(orders', s, "chat")
      BY <1>1, <3>1, GetsKept, TeamOrders
    <3>3. mapLink' = mapLink
      BY <1>7 DEF Map!ConnectComplete, Map!Recreate
    <3> QED
      BY <3>2, <3>3 DEF TeamInv
  <2>2. CASE ~Map!Send(Map!SubscribeTeam)
    <3>1. Map!Recreate /\ OnlyMap
      BY <1>7, <2>2 DEF Map!ConnectComplete, Map!Recreate, Map!Again
    <3>2. recreated \in 0..MaxRecreated /\ recreated < MaxRecreated
      BY <1>1, <3>1 DEF MapTypes, Map!TypeOK, Map!Recreate
    <3>3. MaxRecreated \in Nat /\ MaxRecreated # 0
      BY <3>2 DEF Map!BoundsAssumption
    <3> QED
      BY <3>1, <3>3 DEF Resubscribing
  <2> QED
    BY <2>1, <2>2
<1>8. CASE Map!BrokerTakes
  <2>1. orders # <<>> /\ orders' = Tail(orders) /\ session' = After(session, Head(orders))
        /\ UNCHANGED <<mapLink, told, chatActivated>>
    BY <1>8 DEF Map!BrokerTakes, After
  <2> QED
    BY <1>1, <2>1, OrderTaken DEF TeamInv
<1>9. CASE Map!Connect
  BY <1>1, <1>9 DEF TeamInv, Map!Connect
<1> QED
  BY <1>2, <1>3, <1>4, <1>5, <1>6, <1>7, <1>8, <1>9
  DEF Map!Next, Map!Timers, Map!Answer, Map!LeaveArrives, Map!AnswerNone, Map!SurfaceChanged, Map!Cut,
      Map!BrokerRestart, Map!Lose, Map!PlayerLeaves, Map!Recharged, Map!net

(* The other team's. *)
LEMMA EndedKept ==
    ASSUME NEW q \in Seq(Map!Orders), NEW new \in Seq(Map!Orders), NEW on, Ended(q, on)
    PROVE  /\ NoneOf(new, ENEMY) => Ended(q \o new, on)
           /\ \A over : LastIs(new, "unsubscribe", ENEMY) /\ Len(new) = 1 => Ended(q \o new, over)
<1>1. /\ Len(q \o new) = Len(q) + Len(new)
      /\ \A i \in 1..Len(q) + Len(new) : (q \o new)[i] = IF i <= Len(q) THEN q[i] ELSE new[i - Len(q)]
  BY ConcatProperties
<1>2. Len(q) \in Nat /\ Len(new) \in Nat
  BY LenProperties
<1>3. ASSUME NoneOf(new, ENEMY), NEW i \in 1..Len(q \o new), (q \o new)[i] = <<"subscribe", ENEMY>>
      PROVE  on \/ \E j \in 1..Len(q \o new) : j > i /\ (q \o new)[j] = <<"unsubscribe", ENEMY>>
  <2>1. i <= Len(q)
    <3>1. ASSUME i > Len(q) PROVE FALSE
      <4>1. i - Len(q) \in 1..Len(new) /\ new[i - Len(q)] = <<"subscribe", ENEMY>>
        BY <1>1, <1>2, <1>3, <3>1
      <4> QED
        BY <1>3, <4>1 DEF NoneOf
    <3> QED
      BY <1>2, <3>1
  <2>2. i \in 1..Len(q) /\ q[i] = <<"subscribe", ENEMY>>
    BY <1>1, <1>2, <1>3, <2>1
  <2>3. CASE \E j \in 1..Len(q) : j > i /\ q[j] = <<"unsubscribe", ENEMY>>
    BY <1>1, <1>2, <2>3
  <2> QED
    BY <2>2, <2>3 DEF Ended
<1>4. ASSUME LastIs(new, "unsubscribe", ENEMY), Len(new) = 1,
             NEW i \in 1..Len(q \o new), (q \o new)[i] = <<"subscribe", ENEMY>>
      PROVE  \E j \in 1..Len(q \o new) : j > i /\ (q \o new)[j] = <<"unsubscribe", ENEMY>>
  <2>1. new[1] = <<"unsubscribe", ENEMY>>
    BY <1>4 DEF LastIs
  <2>2. Len(q) + 1 \in 1..Len(q \o new) /\ (q \o new)[Len(q) + 1] = <<"unsubscribe", ENEMY>>
    BY <1>1, <1>2, <1>4, <2>1
  <2>3. i # Len(q) + 1
    BY <1>4, <2>2
  <2> QED
    BY <1>1, <1>2, <1>4, <2>2, <2>3
<1> QED
  BY <1>3, <1>4 DEF Ended

LEMMA EndedTaken ==
    ASSUME NEW q \in Seq(Map!Orders), q # <<>>, NEW on, Ended(q, on)
    PROVE  /\ Ended(Tail(q), on)
           /\ NoneOf(Tail(q), ENEMY) /\ Head(q) = <<"subscribe", ENEMY>> => on
<1>1. /\ Len(Tail(q)) = Len(q) - 1 /\ Head(q) = q[1]
      /\ \A i \in 1..Len(Tail(q)) : Tail(q)[i] = q[i + 1]
  BY HeadTailProperties
<1>2. Len(q) \in Nat /\ Len(q) # 0
  BY LenProperties, EmptySeq
<1>3. ASSUME NEW i \in 1..Len(Tail(q)), Tail(q)[i] = <<"subscribe", ENEMY>>, ~on
      PROVE  \E j \in 1..Len(Tail(q)) : j > i /\ Tail(q)[j] = <<"unsubscribe", ENEMY>>
  <2>1. i + 1 \in 1..Len(q) /\ q[i + 1] = <<"subscribe", ENEMY>>
    BY <1>1, <1>2, <1>3
  <2>2. PICK j \in 1..Len(q) : j > i + 1 /\ q[j] = <<"unsubscribe", ENEMY>>
    BY <1>3, <2>1 DEF Ended
  <2>3. j - 1 \in 1..Len(Tail(q)) /\ j - 1 > i /\ (j - 1) + 1 = j
    BY <1>1, <1>2, <2>2
  <2> QED
    BY <1>1, <2>2, <2>3
<1>4. ASSUME NoneOf(Tail(q), ENEMY), Head(q) = <<"subscribe", ENEMY>>, ~on PROVE FALSE
  <2>1. 1 \in 1..Len(q) /\ q[1] = <<"subscribe", ENEMY>>
    BY <1>1, <1>2, <1>4
  <2>2. PICK j \in 1..Len(q) : j > 1 /\ q[j] = <<"unsubscribe", ENEMY>>
    BY <1>4, <2>1 DEF Ended
  <2>3. j - 1 \in 1..Len(Tail(q)) /\ (j - 1) + 1 = j
    BY <1>1, <1>2, <2>2
  <2>4. Tail(q)[j - 1] = <<"unsubscribe", ENEMY>>
    BY <1>1, <2>2, <2>3
  <2> QED
    <3>1. Tail(q)[j - 1][2] # ENEMY
      BY <1>4, <2>3 DEF NoneOf
    <3>2. <<"unsubscribe", ENEMY>>[2] = ENEMY
      OBVIOUS
    <3> QED
      BY <2>4, <3>1, <3>2, Zenon
<1> QED
  BY <1>3, <1>4 DEF Ended

LEMMA SpyElse ==
    ASSUME MapTypes, SpyInv, NEW new \in Seq(Map!Orders), NoneOf(new, ENEMY),
           Map!Send(new) \/ UNCHANGED orders, UNCHANGED <<session, overdue>>, Map!Spying' <=> Map!Spying,
           Lasting => mapLink' /\ told' /\ \A i \in 1..Len(rounds') : rounds'[i].here
    PROVE  SpyInv'
<1>1. orders \in Seq(Map!Orders) /\ (~mapLink => orders = <<>>)
  BY DEF MapTypes, Map!TypeOK
<1>2. orders' = orders \/ orders' = orders \o new
  BY <1>1 DEF Map!Send
<1>3. Ended(orders', Map!Spying)
  BY <1>1, <1>2, EndedKept DEF SpyInv
<1>4. Ended(orders', Map!Spying')
  BY <1>3 DEF Ended
<1>5. NoneOf(orders', ENEMY) => NoneOf(orders, ENEMY)
  BY <1>1, <1>2, OrdersAdded
<1>6. Gets(orders, session, ENEMY) => Gets(orders', session, ENEMY)
  BY <1>1, <1>2, GetsKept
<1> QED
  BY <1>4, <1>5, <1>6 DEF SpyInv

LEMMA SpyStep == ASSUME Map!BoundsAssumption, MapInv, Map!Next PROVE SpyInv'
<1>1. /\ MapTypes /\ SpyInv /\ orders \in Seq(Map!Orders) /\ rounds \in Seq(Round) /\ ~mapCrashed
      /\ (~mapLink => ~told /\ orders = <<>>)
  BY DEF MapInv, MapTypes, Map!TypeOK, Round, Map!Next
<1>2. <<>> \in Seq(Map!Orders) /\ NoneOf(<<>>, ENEMY)
  BY EmptySeq DEF NoneOf
<1>3. CASE UNCHANGED <<orders, session, rounds, overdue, mapLink, told>>
  <2>1. Map!Spying' <=> Map!Spying
    BY <1>3 DEF Map!Spying
  <2> QED
    BY <1>1, <1>2, <1>3, <2>1, SpyElse DEF SpyInv
<1>4. CASE Map!ActivateChat \/ Map!ConnectComplete \/ Map!Connect
  <2>1. UNCHANGED <<session, overdue, rounds>> /\ (told => told') /\ (mapLink => mapLink')
    BY <1>4 DEF Map!ActivateChat, Map!ConnectComplete, Map!Connect, Map!buttons
  <2>2. Map!Spying' <=> Map!Spying
    BY <2>1 DEF Map!Spying
  <2>3. Lasting => mapLink' /\ told' /\ \A i \in 1..Len(rounds') : rounds'[i].here
    BY <1>1, <2>1 DEF SpyInv
  <2>4. \E new \in Seq(Map!Orders) : NoneOf(new, ENEMY) /\ (Map!Send(new) \/ UNCHANGED orders)
    <3>1. CASE Map!ActivateChat
      <4>1. PICK w \in {"subscribe", "unsubscribe"} : Map!Send(<< <<w, "chat">> >>)
        BY <3>1 DEF Map!ActivateChat
      <4>2. << <<w, "chat">> >> \in Seq(Map!Orders) /\ NoneOf(<< <<w, "chat">> >>, ENEMY)
        BY OneOrder DEF Map!Topics, ENEMY
      <4> QED
        BY <4>1, <4>2
    <3>2. CASE Map!ConnectComplete
      BY <3>2, TeamOrders DEF Map!ConnectComplete, Map!Again
    <3>3. CASE Map!Connect
      BY <1>2, <3>3 DEF Map!Connect
    <3> QED
      BY <1>4, <3>1, <3>2, <3>3
  <2> QED
    BY <1>1, <2>1, <2>2, <2>3, <2>4, SpyElse
<1>5. CASE Map!Recharged
  <2>1. /\ UNCHANGED <<orders, session, overdue, mapLink, told>>
        /\ rounds # <<>> /\ ~Head(rounds).spying /\ rounds' = Tail(rounds)
    BY <1>5 DEF Map!Recharged, Map!net
  <2>2. /\ Len(rounds) \in Nat /\ Len(rounds') = Len(rounds) - 1
        /\ Head(rounds) = rounds[1] /\ Len(rounds) >= 1
        /\ \A i \in 1..Len(rounds') : rounds'[i] = rounds[i + 1]
    BY <1>1, <2>1, RoundTaken
  <2>3. ASSUME NEW i \in 1..Len(rounds), rounds[i].spying
        PROVE  \E k \in 1..Len(rounds') : rounds'[k].spying
    <3>1. i - 1 \in 1..Len(rounds') /\ (i - 1) + 1 = i
      BY <2>1, <2>2, <2>3
    <3>2. rounds'[i - 1] = rounds[i]
      BY <2>2, <3>1
    <3> QED
      BY <2>3, <3>1, <3>2
  <2>4. \A i \in 1..Len(rounds') : i + 1 \in 1..Len(rounds)
    BY <2>2
  <2>5. Map!Spying' <=> Map!Spying
    BY <2>2, <2>3, <2>4 DEF Map!Spying
  <2>6. Lasting => \A i \in 1..Len(rounds') : rounds'[i].here
    BY <1>1, <2>2, <2>4 DEF SpyInv
  <2> QED
    BY <1>1, <1>2, <2>1, <2>5, <2>6, SpyElse DEF SpyInv
<1>6. CASE Map!Recreate
  <2>1. /\ rounds' = [i \in 1..Len(rounds) |-> [rounds[i] EXCEPT !.here = FALSE]]
        /\ UNCHANGED <<session, overdue>> /\ recreated < MaxRecreated
        /\ (Map!Send(Map!SubscribeTeam) \/ UNCHANGED orders)
    BY <1>6 DEF Map!Recreate
  <2>2. ~Lasting
    BY <1>1, <2>1 DEF Lasting, MapTypes, Map!TypeOK
  <2>3. Len(rounds') = Len(rounds) /\ \A k \in 1..Len(rounds) : rounds'[k].spying = rounds[k].spying
    BY <1>1, <2>1, RoundsRemade
  <2>4. Map!Spying' <=> Map!Spying
    BY <2>3 DEF Map!Spying
  <2> QED
    BY <1>1, <2>1, <2>2, <2>4, SpyElse, TeamOrders
<1>7. CASE Map!Spy
  <2>1. /\ Map!Send(<< <<"subscribe", ENEMY>> >>) /\ UNCHANGED <<mapLink, told, session, overdue>>
        /\ rounds' = Append(rounds, [spying |-> TRUE, here |-> TRUE])
    BY <1>7 DEF Map!Spy, ENEMY
  <2>2. /\ Len(rounds) \in Nat /\ Len(rounds') = Len(rounds) + 1
        /\ \A i \in 1..Len(rounds) : rounds'[i] = rounds[i]
        /\ rounds'[Len(rounds) + 1].spying /\ rounds'[Len(rounds) + 1].here
    BY <1>1, <2>1, RoundAdded
  <2>3. Map!Spying'
    <3>1. Len(rounds) + 1 \in 1..Len(rounds')
      BY <2>2
    <3> QED
      BY <2>2, <3>1 DEF Map!Spying
  <2>4. \A i \in 1..Len(rounds') : i \in 1..Len(rounds) \/ i = Len(rounds) + 1
    BY <2>2
  <2>5. Lasting => \A i \in 1..Len(rounds') : rounds'[i].here
    BY <1>1, <2>2, <2>4 DEF SpyInv
  <2>6. Lasting => Gets(orders', session, ENEMY)
    <3>1. << <<"subscribe", ENEMY>> >> \in Seq(Map!Orders)
          /\ LastIs(<< <<"subscribe", ENEMY>> >>, "subscribe", ENEMY)
      BY OneOrder DEF Map!Topics, ENEMY
    <3>2. mapLink => orders' = orders \o << <<"subscribe", ENEMY>> >>
      BY <1>1, <2>1, <3>1, Sent
    <3> QED
      BY <1>1, <3>1, <3>2, GetsKept DEF SpyInv
  <2> QED
    BY <1>1, <2>1, <2>3, <2>5, <2>6 DEF SpyInv, Ended
<1>8. ASSUME NEW i \in 1..Len(rounds), Map!SpyingTimeOver(i) PROVE SpyInv'
  <2>1. /\ Map!Send(<< <<"unsubscribe", ENEMY>> >>) /\ UNCHANGED <<mapLink, told, session, spyEnabled>>
        /\ rounds' = [rounds EXCEPT ![i].spying = FALSE] /\ overdue' = (overdue \/ ~mapLink)
    BY <1>8 DEF Map!SpyingTimeOver, Map!EndOfRound, ENEMY
  <2>2. /\ << <<"unsubscribe", ENEMY>> >> \in Seq(Map!Orders) /\ Len(<< <<"unsubscribe", ENEMY>> >>) = 1
        /\ LastIs(<< <<"unsubscribe", ENEMY>> >>, "unsubscribe", ENEMY)
    BY OneOrder DEF Map!Topics, ENEMY
  <2>3. /\ mapLink => orders' = orders \o << <<"unsubscribe", ENEMY>> >>
        /\ ~mapLink => orders' = <<>>
    BY <1>1, <2>1, <2>2, Sent
  <2>4. Ended(orders', Map!Spying')
    <3>1. CASE mapLink
      <4>1. \A over : Ended(orders', over)
        BY <1>1, <2>2, <2>3, <3>1, EndedKept DEF SpyInv
      <4> QED
        BY <4>1 DEF Ended
    <3>2. CASE ~mapLink
      BY <2>3, <3>2, EmptySeq DEF Ended
    <3> QED
      BY <3>1, <3>2
  <2>5. mapLink => ~NoneOf(orders', ENEMY)
    <3>1. mapLink => LastIs(orders', "unsubscribe", ENEMY)
      <4>1. LastIs(orders \o << <<"unsubscribe", ENEMY>> >>, "unsubscribe", ENEMY)
        BY <1>1, <2>2, OrdersAdded
      <4> QED
        BY <2>3, <4>1
    <3> QED
      BY <3>1 DEF LastIs, NoneOf
  <2>6. Len(rounds') = Len(rounds) /\ rounds'[i].spying = FALSE
        /\ \A k \in 1..Len(rounds) : rounds'[k].here = rounds[k].here
    BY <1>1, <2>1, RoundEnded
  <2>7. ASSUME Lasting PROVE ~Map!Spying'
    <3>1. \A k \in 1..Len(rounds) : rounds[k].here
      BY <1>1, <2>7 DEF SpyInv
    <3>2. \A k \in 1..Len(rounds) : k = i
      BY <1>1, <3>1 DEF MapInv, RoundsInv
    <3> QED
      BY <2>6, <3>2 DEF Map!Spying
  <2>8. Lasting => \A k \in 1..Len(rounds') : rounds'[k].here
    BY <1>1, <2>6 DEF SpyInv
  <2> QED
    BY <1>1, <2>1, <2>4, <2>5, <2>7, <2>8 DEF SpyInv
<1>9. CASE Map!Cut \/ Map!BrokerRestart
  <2>1. /\ orders' = <<>> /\ session' \subseteq session /\ UNCHANGED rounds
        /\ overdue' = (overdue \/ \E i \in 1..Len(orders) : orders[i] = <<"unsubscribe", ENEMY>>)
        /\ cuts < MaxCuts
    BY <1>9 DEF Map!Cut, Map!BrokerRestart, Map!Lose, Map!buttons, ENEMY
  <2>2. ~Lasting
    BY <1>1, <2>1 DEF Lasting, MapTypes, Map!TypeOK
  <2>3. Map!Spying' <=> Map!Spying
    BY <2>1 DEF Map!Spying
  <2>4. ENEMY \in session => Map!Spying \/ overdue'
    <3>1. CASE NoneOf(orders, ENEMY)
      BY <1>1, <2>1, <3>1 DEF SpyInv
    <3>2. ASSUME NEW i \in 1..Len(orders), orders[i][2] = ENEMY PROVE Map!Spying \/ overdue'
      <4>1. PICK o \in Map!Orders : o = orders[i]
        BY <1>1, ElementOfSeq
      <4>2. o = <<"subscribe", ENEMY>> \/ o = <<"unsubscribe", ENEMY>>
        BY <3>2, <4>1 DEF Map!Orders
      <4> QED
        BY <1>1, <2>1, <4>1, <4>2 DEF SpyInv, Ended
    <3> QED
      BY <3>1, <3>2 DEF NoneOf
  <2> QED
    BY <1>2, <2>1, <2>2, <2>3, <2>4, EmptySeq DEF SpyInv, Ended
<1>10. CASE Map!BrokerTakes
  <2>1. orders # <<>> /\ orders' = Tail(orders) /\ session' = After(session, Head(orders))
        /\ UNCHANGED <<mapLink, told, rounds>>
        /\ overdue' = (overdue /\ Head(orders) # <<"unsubscribe", ENEMY>>)
    BY <1>10 DEF Map!BrokerTakes, After, Map!buttons, ENEMY
  <2>2. Map!Spying' <=> Map!Spying
    BY <2>1 DEF Map!Spying
  <2>3. Ended(orders', Map!Spying')
    <3>1. Ended(orders', Map!Spying)
      BY <1>1, <2>1, EndedTaken DEF SpyInv
    <3> QED
      BY <2>2, <3>1 DEF Ended
  <2>4. PICK o \in Map!Orders : o = Head(orders)
    BY <1>1, <2>1, OrderTaken
  <2>5. o = <<o[1], o[2]>> /\ o[1] \in {"subscribe", "unsubscribe"}
    BY <2>4 DEF Map!Orders
  <2>6. ASSUME NoneOf(orders', ENEMY), ENEMY \in session' PROVE Map!Spying \/ overdue'
    <3>1. CASE o[2] = ENEMY
      <4>1. o = <<"subscribe", ENEMY>>
        BY <2>1, <2>4, <2>5, <2>6, <3>1 DEF After
      <4> QED
        BY <1>1, <2>1, <2>4, <2>6, <4>1, EndedTaken DEF SpyInv
    <3>2. CASE o[2] # ENEMY
      <4>1. NoneOf(orders, ENEMY)
        BY <1>1, <2>1, <2>4, <2>6, <3>2, OrderTaken
      <4>2. ENEMY \in session /\ o # <<"unsubscribe", ENEMY>>
        BY <2>1, <2>4, <2>6, <3>2 DEF After
      <4> QED
        BY <1>1, <2>1, <2>4, <4>1, <4>2 DEF SpyInv
    <3> QED
      BY <3>1, <3>2
  <2>7. Gets(orders, session, ENEMY) => Gets(orders', session', ENEMY)
    BY <1>1, <2>1, OrderTaken
  <2> QED
    BY <1>1, <2>1, <2>2, <2>3, <2>6, <2>7 DEF SpyInv
<1> QED
  BY <1>3, <1>4, <1>5, <1>6, <1>7, <1>8, <1>9, <1>10
  DEF Map!Next, Map!Timers, Map!Answer, Map!LeaveArrives, Map!AnswerNone, Map!SurfaceChanged,
      Map!PlayerLeaves, Map!net, Map!buttons

(* The players: one of them loses a place. *)
Less(a, b) == a <= b /\ (b > 0 => a < b)

LEMMA OneLess ==
    ASSUME NEW m \in [Others -> Nat], NEW p
    PROVE  /\ Map!Without(m, p) \in [Others -> Nat]
           /\ \A o \in Others \ {p} : Map!Without(m, p)[o] = m[o]
           /\ p \in Others => Less(Map!Without(m, p)[p], m[p])
<1>1. Map!Without(m, p) = [o \in Others |-> IF o = p THEN IF m[p] = 0 THEN 0 ELSE m[p] - 1 ELSE m[o]]
  BY DEF Map!Without
<1>2. \A o \in Others : m[o] \in Nat
  OBVIOUS
<1>3. \A o \in Others : (IF o = p THEN IF m[p] = 0 THEN 0 ELSE m[p] - 1 ELSE m[o]) \in Nat
  BY <1>2
<1>4. Map!Without(m, p) \in [Others -> Nat]
  BY <1>1, <1>3
<1> QED
  BY <1>1, <1>2, <1>4 DEF Less

LEMMA ShownStep == ASSUME Map!BoundsAssumption, MapInv, Map!Next PROVE ShownInv'
<1>1. movables \in [Others -> Nat] /\ answers \in Nat /\ ShownInv
  BY DEF MapInv, MapTypes, Map!TypeOK
<1>2. CASE UNCHANGED Map!screen
  BY <1>1, <1>2 DEF ShownInv, Placed, Map!screen
<1>3. CASE Map!Answer
  <2>1. left' = {} /\ renderLoop' = renderLoop
    BY <1>3 DEF Map!Answer
  <2>2. CASE renderLoop
    <3>1. movables' = [p \in Others |-> movables[p] + 1] /\ answers' = answers + 1
      BY <1>3, <2>2 DEF Map!Answer
    <3> QED
      BY <1>1, <2>1, <2>2, <3>1 DEF ShownInv, Placed
  <2>3. CASE ~renderLoop
    <3>1. UNCHANGED <<movables, answers>> /\ answers = 0
      BY <1>1, <1>3, <2>3 DEF Map!Answer, ShownInv
    <3> QED
      BY <1>1, <2>1, <3>1 DEF ShownInv, Placed
  <2> QED
    BY <2>2, <2>3
<1>4. CASE Map!LeaveArrives
  <2>1. CASE mapGame
    <3>1. PICK p : /\ left' = left \union {p} /\ UNCHANGED <<renderLoop, answers>>
                   /\ movables' = Map!Without(movables, p)
      BY <1>4, <2>1 DEF Map!LeaveArrives
    <3>2. /\ movables' \in [Others -> Nat]
          /\ \A o \in Others \ {p} : movables'[o] = movables[o]
          /\ p \in Others => Less(movables'[p], movables[p])
      BY <1>1, <3>1, OneLess
    <3>3. ASSUME NEW o \in Others
          PROVE  Placed(o)'
      <4>1. Placed(o)
        BY <1>1 DEF ShownInv
      <4>2. movables[o] \in Nat /\ movables'[o] \in Nat /\ answers' = answers
        BY <1>1, <3>1, <3>2
      <4>3. CASE o = p
        <5>1. Less(movables'[o], movables[o])
          BY <3>2, <4>3
        <5>2. o \in left'
          BY <3>1, <4>3
        <5> QED
          BY <1>1, <4>1, <4>2, <5>1, <5>2 DEF Placed, Less
      <4>4. CASE o # p
        <5>1. movables'[o] = movables[o] /\ (o \in left' <=> o \in left)
          BY <3>1, <3>2, <4>4
        <5> QED
          BY <1>1, <4>1, <4>2, <5>1 DEF Placed
      <4> QED
        BY <4>3, <4>4
    <3> QED
      BY <1>1, <3>1, <3>3 DEF ShownInv
  <2>2. CASE ~mapGame
    BY <1>1, <1>4, <2>2 DEF Map!LeaveArrives, ShownInv, Placed
  <2> QED
    BY <2>1, <2>2
<1>5. CASE Map!SurfaceChanged \/ Map!Recreate
  BY <1>5 DEF Map!SurfaceChanged, Map!Recreate, Map!Nobody, ShownInv, Placed
<1> QED
  BY <1>2, <1>3, <1>4, <1>5
  DEF Map!Next, Map!Timers, Map!SpyingTimeOver, Map!Recharged, Map!ConnectComplete, Map!ActivateChat, Map!Spy,
      Map!Connect, Map!Cut, Map!BrokerRestart, Map!BrokerTakes, Map!PlayerLeaves, Map!AnswerNone

(* The types. *)
LEMMA TypesStep ==
    ASSUME Map!BoundsAssumption, MapInv, Map!Next PROVE MapTypes'
<1>1. /\ MapTypes /\ left \subseteq Others /\ movables \in [Others -> Nat]
      /\ gets \in 0..(MaxGets + MaxRecreated) /\ session \subseteq Map!Topics
      /\ orders \in Seq(Map!Orders) /\ leaves \in Seq(Others)
      /\ mapGame \in BOOLEAN /\ renderLoop \in BOOLEAN /\ mapLink \in BOOLEAN /\ told \in BOOLEAN
      /\ chatActivated \in BOOLEAN /\ spyEnabled \in BOOLEAN /\ mapCrashed \in BOOLEAN
      /\ answers \in Nat /\ overdue \in BOOLEAN
      /\ rounds \in Seq(Round) /\ cuts \in 0..MaxCuts /\ recreated \in 0..MaxRecreated
      /\ gets <= MaxGets + recreated /\ (~mapLink => ~told /\ orders = <<>>)
      /\ MaxGets \in Nat /\ MaxCuts \in Nat /\ MaxRecreated \in Nat
  BY DEF MapInv, MapTypes, Map!TypeOK, Round, Map!BoundsAssumption
<1> DEFINE Screen == /\ left \subseteq Others /\ movables \in [Others -> Nat]
                     /\ mapGame \in BOOLEAN /\ renderLoop \in BOOLEAN /\ answers \in Nat
           Buttons == chatActivated \in BOOLEAN /\ spyEnabled \in BOOLEAN /\ rounds \in Seq(Round)
           Net == /\ mapLink \in BOOLEAN /\ told \in BOOLEAN /\ session \subseteq Map!Topics
                  /\ orders \in Seq(Map!Orders) /\ leaves \in Seq(Others) /\ cuts \in 0..MaxCuts
                  /\ (~mapLink => ~told /\ orders = <<>>)
           Rest == /\ gets \in 0..(MaxGets + MaxRecreated) /\ gets <= MaxGets + recreated
                   /\ recreated \in 0..MaxRecreated /\ mapCrashed \in BOOLEAN /\ overdue \in BOOLEAN
<1>2. Screen /\ Buttons /\ Net /\ Rest
  BY <1>1
<1>3. SUFFICES Screen' /\ Buttons' /\ Net' /\ Rest'
  BY <1>3 DEF MapTypes, Map!TypeOK, Round
<1>4. CASE Map!Answer
  <2>1. /\ gets > 0 /\ gets' = gets - 1 /\ mapGame' = TRUE /\ left' = {}
        /\ \/ movables' = [p \in Others |-> movables[p] + 1] /\ answers' = answers + 1
           \/ UNCHANGED <<movables, answers>>
        /\ UNCHANGED <<renderLoop, chatActivated, spyEnabled, rounds, mapLink, told, session, orders, leaves,
                       cuts, recreated, mapCrashed, overdue>>
    BY <1>4 DEF Map!Answer, Map!buttons, Map!net
  <2>2. movables' \in [Others -> Nat] /\ answers' \in Nat
    BY <1>1, <2>1
  <2> QED
    BY <1>1, <2>1, <2>2
<1>5. CASE Map!LeaveArrives
  <2>1. /\ leaves # <<>> /\ leaves' = Tail(leaves)
        /\ \/ left' = left \union {Head(leaves)} /\ movables' = Map!Without(movables, Head(leaves))
           \/ UNCHANGED <<left, movables>>
        /\ UNCHANGED <<mapGame, renderLoop, answers, chatActivated, spyEnabled, rounds, mapLink, told, session,
                       orders, cuts, gets, recreated, mapCrashed, overdue>>
    BY <1>5 DEF Map!LeaveArrives, Map!buttons
  <2>2. Head(leaves) \in Others /\ leaves' \in Seq(Others)
    BY <1>1, <2>1, HeadTailProperties
  <2>3. movables' \in [Others -> Nat] /\ left' \subseteq Others
    BY <1>1, <2>1, <2>2, OneLess
  <2> QED
    BY <1>1, <2>1, <2>2, <2>3
<1>6. CASE Map!Timers
  <2>1. PICK i \in 1..Len(rounds) : Map!SpyingTimeOver(i)
    BY <1>6 DEF Map!Timers
  <2>2. /\ rounds' = [rounds EXCEPT ![i].spying = FALSE] /\ Map!Send(<< <<"unsubscribe", ENEMY>> >>)
        /\ overdue' = (overdue \/ ~mapLink)
        /\ UNCHANGED <<left, movables, mapGame, renderLoop, answers, chatActivated, spyEnabled, mapLink, told,
                       session, leaves, cuts, gets, recreated, mapCrashed>>
    BY <2>1 DEF Map!SpyingTimeOver, Map!EndOfRound, Map!screen, ENEMY
  <2>3. rounds' \in Seq(Round)
    BY <1>1, <2>2, RoundEnded
  <2>4. orders' \in Seq(Map!Orders) /\ (~mapLink => orders' = <<>>)
    BY <1>1, <2>2, OneOrder, Sent DEF Map!Topics, ENEMY
  <2> QED
    BY <1>1, <2>2, <2>3, <2>4
<1>7. CASE Map!Recharged
  <2>1. /\ rounds # <<>> /\ rounds' = Tail(rounds)
        /\ (spyEnabled' = TRUE \/ spyEnabled' = spyEnabled) /\ (mapCrashed' = TRUE \/ mapCrashed' = mapCrashed)
        /\ UNCHANGED <<left, movables, mapGame, renderLoop, answers, chatActivated, mapLink, told,
                       session, orders, leaves, cuts, gets, recreated, overdue>>
    BY <1>7 DEF Map!Recharged, Map!screen, Map!net
  <2>2. rounds' \in Seq(Round)
    BY <1>1, <2>1, RoundTaken
  <2> QED
    BY <1>1, <2>1, <2>2
<1>8. CASE Map!ConnectComplete
  <2>1. /\ mapLink /\ told' = TRUE /\ Map!Send(Map!SubscribeTeam)
        /\ UNCHANGED <<left, movables, mapGame, renderLoop, answers, chatActivated, spyEnabled, rounds, mapLink,
                       session, leaves, cuts, gets, recreated, mapCrashed, overdue>>
    BY <1>8 DEF Map!ConnectComplete, Map!Again, Map!screen, Map!buttons
  <2>2. orders' \in Seq(Map!Orders)
    BY <1>1, <2>1, TeamOrders, Sent
  <2> QED
    BY <1>1, <2>1, <2>2
<1>9. CASE Map!AnswerNone
  BY <1>1, <1>9 DEF Map!AnswerNone, Map!screen, Map!buttons, Map!net
<1>10. CASE Map!SurfaceChanged
  BY <1>1, <1>10 DEF Map!SurfaceChanged, Map!Nobody, Map!buttons, Map!net
<1>11. CASE Map!ActivateChat
  <2>1. PICK w \in {"subscribe", "unsubscribe"} : Map!Send(<< <<w, "chat">> >>)
    BY <1>11 DEF Map!ActivateChat
  <2>2. /\ chatActivated' = ~chatActivated
        /\ UNCHANGED <<left, movables, mapGame, renderLoop, answers, spyEnabled, rounds, mapLink, told,
                       session, leaves, cuts, gets, recreated, mapCrashed, overdue>>
    BY <1>11 DEF Map!ActivateChat, Map!screen
  <2>3. orders' \in Seq(Map!Orders) /\ (~mapLink => orders' = <<>>)
    BY <1>1, <2>1, OneOrder, Sent DEF Map!Topics
  <2> QED
    BY <1>1, <2>2, <2>3
<1>12. CASE Map!Spy
  <2>1. /\ Map!Send(<< <<"subscribe", ENEMY>> >>) /\ spyEnabled' = FALSE
        /\ rounds' = Append(rounds, [spying |-> TRUE, here |-> TRUE])
        /\ UNCHANGED <<left, movables, mapGame, renderLoop, answers, chatActivated, mapLink, told,
                       session, leaves, cuts, gets, recreated, mapCrashed, overdue>>
    BY <1>12 DEF Map!Spy, Map!AfterTap, Map!screen, ENEMY
  <2>2. rounds' \in Seq(Round)
    BY <1>1, <2>1, RoundAdded
  <2>3. orders' \in Seq(Map!Orders) /\ (~mapLink => orders' = <<>>)
    BY <1>1, <2>1, OneOrder, Sent DEF Map!Topics, ENEMY
  <2> QED
    BY <1>1, <2>1, <2>2, <2>3
<1>13. CASE Map!Connect
  BY <1>1, <1>13 DEF Map!Connect, Map!screen, Map!buttons
<1>14. CASE Map!Cut \/ Map!BrokerRestart
  <2>1. /\ mapLink' = FALSE /\ told' = FALSE /\ orders' = <<>> /\ leaves' = <<>> /\ session' \subseteq session
        /\ cuts < MaxCuts /\ cuts' = cuts + 1 /\ overdue' \in BOOLEAN
        /\ UNCHANGED <<left, movables, mapGame, renderLoop, answers, chatActivated, spyEnabled, rounds,
                       gets, recreated, mapCrashed>>
    BY <1>14 DEF Map!Cut, Map!BrokerRestart, Map!Lose, Map!screen, Map!buttons
  <2>2. <<>> \in Seq(Map!Orders) /\ <<>> \in Seq(Others)
    BY EmptySeq
  <2>3. mapLink' \in BOOLEAN /\ told' \in BOOLEAN /\ ~told'
    BY <2>1, Zenon
  <2>4. cuts' \in 0..MaxCuts
    BY <1>1, <2>1
  <2>5. Net'
    BY <1>1, <2>1, <2>2, <2>3, <2>4
  <2> QED
    BY <1>1, <2>1, <2>5
<1>15. CASE Map!BrokerTakes
  <2>1. /\ orders # <<>> /\ orders' = Tail(orders) /\ session' = After(session, Head(orders))
        /\ overdue' \in BOOLEAN
        /\ UNCHANGED <<left, movables, mapGame, renderLoop, answers, chatActivated, spyEnabled, rounds, mapLink,
                       told, leaves, cuts, gets, recreated, mapCrashed>>
    BY <1>15 DEF Map!BrokerTakes, Map!screen, Map!buttons, After
  <2>2. PICK o \in Map!Orders : o = Head(orders) /\ orders' \in Seq(Map!Orders)
    BY <1>1, <2>1, HeadTailProperties
  <2>3. session' \subseteq Map!Topics
    BY <1>1, <2>1, <2>2 DEF After, Map!Orders
  <2> QED
    BY <1>1, <2>1, <2>2, <2>3
<1>16. CASE Map!Recreate
  <2>1. /\ mapGame' = FALSE /\ left' = {} /\ renderLoop' = FALSE /\ movables' = [p \in Others |-> 0] /\ answers' = 0
        /\ chatActivated' = TRUE /\ spyEnabled' = TRUE
        /\ rounds' = [i \in 1..Len(rounds) |-> [rounds[i] EXCEPT !.here = FALSE]]
        /\ recreated < MaxRecreated /\ recreated' = recreated + 1
        /\ (gets' = gets \/ gets' = gets + 1) /\ (UNCHANGED orders \/ Map!Send(Map!SubscribeTeam))
        /\ UNCHANGED <<mapLink, told, session, leaves, cuts, mapCrashed, overdue>>
    BY <1>16 DEF Map!Recreate, Map!Nobody
  <2>2. rounds' \in Seq(Round)
    BY <1>1, <2>1, RoundsRemade
  <2>3. orders' \in Seq(Map!Orders) /\ (~mapLink => orders' = <<>>)
    BY <1>1, <2>1, TeamOrders, Sent
  <2>4. Screen'
    BY <2>1
  <2>5. Buttons'
    BY <2>1, <2>2
  <2>6. Net'
    BY <1>1, <2>1, <2>3
  <2>7. Rest'
    BY <1>1, <2>1
  <2> QED
    BY <2>4, <2>5, <2>6, <2>7
<1>17. ASSUME NEW p \in Others, Map!PlayerLeaves(p) PROVE Screen' /\ Buttons' /\ Net' /\ Rest'
  <2>1. leaves' \in Seq(Others)
    BY <1>1, <1>17, AppendProperties DEF Map!PlayerLeaves
  <2> QED
    BY <1>1, <1>17, <2>1 DEF Map!PlayerLeaves, Map!screen, Map!buttons
<1> QED
  BY <1>4, <1>5, <1>6, <1>7, <1>8, <1>9, <1>10, <1>11, <1>12, <1>13, <1>14, <1>15, <1>16, <1>17 DEF Map!Next

LEMMA MapInitial == ASSUME Map!BoundsAssumption, Map!Init PROVE MapInv
<1> USE DEF Map!Init
<1>1. <<>> \in Seq(Map!Orders) /\ <<>> \in Seq(Others) /\ <<>> \in Seq(Round) /\ Len(<<>>) = 0
  BY EmptySeq
<1>2. orders = <<>> \/ orders = Map!SubscribeTeam
  OBVIOUS
<1>3. MapTypes
  <2>1. gets \in 0..MaxGets /\ MaxGets \in Nat /\ MaxCuts \in Nat /\ MaxRecreated \in Nat
    BY DEF Map!BoundsAssumption
  <2>2. orders \in Seq(Map!Orders) /\ (~mapLink => ~told /\ orders = <<>>)
    BY <1>1, TeamOrders
  <2>3. session \subseteq Map!Topics
    BY DEF Map!Topics
  <2>4. {mapGame, renderLoop, mapLink, told, chatActivated, spyEnabled, mapCrashed, overdue} \subseteq BOOLEAN
    OBVIOUS
  <2>5. rounds \in Seq([spying : BOOLEAN, here : BOOLEAN])
    BY EmptySeq
  <2>6. left \subseteq Others /\ movables \in [Others -> Nat] /\ answers \in Nat
        /\ leaves \in Seq(Others) /\ cuts = 0 /\ recreated = 0
    BY <1>1 DEF Map!Nobody
  <2>7. gets \in 0..(MaxGets + MaxRecreated) /\ cuts \in 0..MaxCuts /\ recreated \in 0..MaxRecreated
        /\ gets <= MaxGets + recreated
    BY <2>1, <2>6
  <2> QED
    BY <2>2, <2>3, <2>4, <2>5, <2>6, <2>7 DEF MapTypes, Map!TypeOK
<1>4. RoundsInv
  BY <1>1 DEF RoundsInv
<1>5. TeamInv
  BY TeamOrders DEF TeamInv, Gets
<1>6. SpyInv
  <2>1. NoneOf(orders, ENEMY)
    BY <1>1, <1>2, TeamOrders DEF NoneOf
  <2>2. ENEMY \notin session /\ ~Map!Spying
    BY <1>1 DEF ENEMY, Map!Spying
  <2>3. Ended(orders, Map!Spying)
    BY <2>1 DEF Ended, NoneOf
  <2>4. Lasting => mapLink /\ told /\ ~overdue
    BY DEF Lasting
  <2> QED
    BY <1>1, <2>2, <2>3, <2>4 DEF SpyInv
<1>7. ShownInv
  BY DEF ShownInv, Placed, Map!Nobody
<1> QED
  BY <1>3, <1>4, <1>5, <1>6, <1>7 DEF MapInv

(* The team is part of the invariant of activities that subscribe anew only: an open map *)
(* that is made anew without a game keeps what was muted, and shows it as not muted.     *)
LEMMA MapInductive ==
    ASSUME Map!BoundsAssumption, Resubscribing, MapInv, MapStep PROVE MapInv'
<1>1. CASE Map!Next
  BY <1>1, RoundsStep, TeamStep, SpyStep, ShownStep, TypesStep DEF MapInv
<1>2. CASE UNCHANGED Map!vars
  <2> USE <1>2 DEF Map!vars, Map!screen, Map!buttons, Map!net
  <2>1. MapTypes'
    BY DEF MapInv, MapTypes, Map!TypeOK
  <2>2. RoundsInv' /\ TeamInv' /\ ShownInv'
    BY DEF MapInv, RoundsInv, TeamInv, ShownInv, Placed
  <2>3. SpyInv'
    BY DEF MapInv, SpyInv, Ended, Map!Spying
  <2> QED
    BY <2>1, <2>2, <2>3 DEF MapInv
<1> QED
  BY <1>1, <1>2 DEF MapStep

LEMMA MapMeans ==
    ASSUME MapInv
    PROVE  /\ Map!TypeOK /\ Map!TeamHeard /\ Map!RoundsShown /\ Map!SpyingEnds
           /\ Lasting => Map!SpyingExact
           /\ Map!ShownAsAnswered
<1>1. /\ MapTypes /\ RoundsInv /\ TeamInv /\ SpyInv /\ ShownInv
  BY DEF MapInv
<1>2. ASSUME orders = <<>> PROVE \A t : NoneOf(orders, t) /\ (Gets(orders, session, t) => t \in session)
  BY <1>2, EmptySeq DEF NoneOf, LastIs, Gets
<1>3. Map!TeamHeard
  BY <1>1, <1>2 DEF Map!TeamHeard, Map!Settled, TeamInv
<1>4. Map!SpyingEnds
  BY <1>1, <1>2 DEF Map!SpyingEnds, Map!Settled, SpyInv, ENEMY
<1>5. Lasting => Map!SpyingExact
  BY <1>1, <1>2 DEF Map!SpyingExact, Map!Settled, SpyInv, ENEMY
<1>6. Map!RoundsShown
  <2> SUFFICES ASSUME ~mapCrashed
               PROVE  Cardinality({i \in 1..Len(rounds) : rounds[i].here}) = (IF spyEnabled THEN 0 ELSE 1)
    <3>1. \A S : Map!Cardinality(S) = Cardinality(S)
      BY DEF Map!Cardinality, Cardinality
    <3> QED
      BY <3>1 DEF Map!RoundsShown
  <2>1. CASE spyEnabled
    <3>1. {i \in 1..Len(rounds) : rounds[i].here} = {}
      BY <1>1, <2>1 DEF RoundsInv
    <3> QED
      BY <2>1, <3>1, FS_EmptySet
  <2>2. CASE ~spyEnabled
    <3>1. PICK k \in 1..Len(rounds) : rounds[k].here /\ \A j \in 1..Len(rounds) : rounds[j].here => j = k
      BY <1>1, <2>2 DEF RoundsInv
    <3>2. {i \in 1..Len(rounds) : rounds[i].here} = {k}
      BY <3>1
    <3> QED
      BY <2>2, <3>2, FS_Singleton
  <2> QED
    BY <2>1, <2>2
<1>7. Map!ShownAsAnswered
  <2>1. movables \in [Others -> Nat] /\ answers \in Nat
    BY <1>1 DEF MapTypes, Map!TypeOK
  <2>2. ASSUME NEW p \in Others
        PROVE  /\ answers = 0 => movables[p] = 0
               /\ answers > 0 /\ p \in left => movables[p] < answers
               /\ answers > 0 /\ p \notin left => movables[p] \in 1..answers
    <3>1. movables[p] \in Nat
      BY <2>1
    <3>2. Placed(p)
      BY <1>1 DEF ShownInv
    <3> QED
      BY <2>1, <3>1, <3>2 DEF Placed
  <2>3. answers = 0 \/ answers > 0
    BY <2>1
  <2> QED
    BY <2>2, <2>3 DEF Map!ShownAsAnswered
<1> QED
  BY <1>1, <1>3, <1>4, <1>5, <1>6, <1>7 DEF MapTypes

(* On any connection, however often it is cut and the activity made anew, a phone     *)
(* whose orders have arrived gets its team's positions and the chat it has not muted, *)
(* its button shows the round of its activity, and the other team's positions come    *)
(* beyond a round only if its end was lost (on a connection that lasts: exactly while *)
(* a round lasts).  The map shows who has not left since the last answer, but once    *)
(* for every answer that found its loop: for any numbers of players, answers, cuts,   *)
(* messages and taps.                                                                 *)
THEOREM MapSafe ==
    ASSUME Map!BoundsAssumption, Resubscribing
    PROVE  Map!Spec => [](/\ Map!TypeOK /\ Map!TeamHeard /\ Map!RoundsShown /\ Map!SpyingEnds
                          /\ Lasting => Map!SpyingExact
                          /\ Map!ShownAsAnswered)
<1>1. Map!Init => MapInv
  BY MapInitial
<1>2. MapInv /\ [Map!Next]_Map!vars => MapInv'
  BY MapInductive DEF MapStep
<1> QED
  BY <1>1, <1>2, MapMeans, PTL DEF Map!Spec

-----------------------------------------------------------------------------
(* RenderLoop: the loop that surfaceDestroyed waits for is the last one, and *)
(* a surface is gone only when that one is over.                             *)

Loop == [running : BOOLEAN, at : {"test", "lock", "anchors", "movables", "over"},
         sizes : [anchors : 0..Anchors, movables : 0..MaxMovables], cursor : Nat, torn : BOOLEAN]

(* An iterator that is not torn is within its list. *)
Within(e) == e.at \in {"anchors", "movables"} /\ ~e.torn => e.cursor <= e.sizes[e.at]

RenderInv ==
    /\ loops \in Seq(Loop) /\ \A l \in 1..Len(loops) : Within(loops[l])
    /\ surface \in BOOLEAN /\ main \in {"idle", "anchors", "joining"} /\ canvas \in 0..Len(loops)
    /\ failed \in 0..Len(loops) /\ why \in {"none", "no canvas", "modified"} /\ (failed = 0 => why = "none")
    /\ surface => loops # <<>>
    /\ main # "idle" => surface
    /\ ~surface /\ loops # <<>> => loops[Len(loops)].at = "over"
    /\ Render!OnlyForgottenFail
    /\ OneChange => \A l \in 1..Len(loops) : l # Len(loops) => loops[l].at = "over"

RenderStep == Render!Next \/ UNCHANGED Render!vars

LEMMA RenderInitial == ASSUME Render!BoundsAssumption, Render!Init PROVE RenderInv
<1>1. loops \in Seq(Loop) /\ Len(loops) = 0
  BY EmptySeq DEF Render!Init
<1>2. surface \in BOOLEAN /\ main \in {"idle", "anchors", "joining"} /\ canvas = 0 /\ failed = 0 /\ why = "none"
      /\ main = "idle" /\ ~surface /\ loops = <<>>
  BY DEF Render!Init
<1> QED
  BY <1>1, <1>2 DEF RenderInv, Render!OnlyForgottenFail

LEMMA LoopMade ==
    ASSUME loops \in Seq(Loop), Render!BoundsAssumption, loops' = Append(loops, Render!NewLoop)
    PROVE  /\ loops' \in Seq(Loop) /\ Len(loops) \in Nat /\ Len(loops') = Len(loops) + 1
           /\ \A k \in 1..Len(loops) : loops'[k] = loops[k]
           /\ loops'[Len(loops) + 1] = Render!NewLoop
           /\ Within(Render!NewLoop) /\ Render!NewLoop.at = "test"
<1>1. Render!NewLoop \in Loop /\ Within(Render!NewLoop) /\ Render!NewLoop.at = "test"
  BY DEF Render!NewLoop, Render!Drawn, Loop, Within, Render!BoundsAssumption
<1> QED
  BY <1>1, AppendProperties, LenProperties

LEMMA LoopSet ==
    ASSUME loops \in Seq(Loop), NEW l \in 1..Len(loops), NEW e \in Loop, loops' = [loops EXCEPT ![l] = e]
    PROVE  /\ loops' \in Seq(Loop) /\ Len(loops') = Len(loops) /\ Len(loops) \in Nat
           /\ \A k \in 1..Len(loops) : loops'[k] = IF k = l THEN e ELSE loops[k]
<1>1. /\ [loops EXCEPT ![l] = e] \in Seq(Loop) /\ Len([loops EXCEPT ![l] = e]) = Len(loops)
      /\ \A k \in 1..Len(loops) : [loops EXCEPT ![l] = e][k] = IF k = l THEN e ELSE loops[k]
  BY ExceptSeq
<1> QED
  BY <1>1, LenProperties

(* What the others depend on in a step that changes one loop. *)
Changes(l, e) ==
    /\ loops' = [loops EXCEPT ![l] = e] /\ Within(e) /\ (loops[l].at = "over" => e.at = "over")
    /\ surface' = surface /\ main' \in {"idle", "anchors", "joining"} /\ (main' # "idle" => surface)
    /\ canvas' \in 0..Len(loops) /\ failed' \in 0..Len(loops) /\ why' \in {"none", "no canvas", "modified"}
    /\ (failed' = 0 => why' = "none") /\ (why' = "no canvas" => failed' # Len(loops))

LEMMA LoopChanged ==
    ASSUME RenderInv, failed = 0, NEW l \in 1..Len(loops), NEW e \in Loop, Changes(l, e)
    PROVE  RenderInv'
<1>1. /\ loops' \in Seq(Loop) /\ Len(loops') = Len(loops) /\ Len(loops) \in Nat
      /\ \A k \in 1..Len(loops) : loops'[k] = IF k = l THEN e ELSE loops[k]
  BY LoopSet DEF RenderInv, Changes
<1>2. Len(loops) # 0 /\ Len(loops') # 0 /\ Len(loops) \in 1..Len(loops)
  BY <1>1
<1>3. loops # <<>> /\ loops' # <<>>
  <2>1. Len(<<>>) = 0
    BY EmptySeq
  <2> QED
    BY <1>2, <2>1, Zenon
<1>4. \A k \in 1..Len(loops') : Within(loops'[k])
  BY <1>1 DEF RenderInv, Changes
<1>5. \A k \in 1..Len(loops) : loops[k].at = "over" => loops'[k].at = "over"
  BY <1>1 DEF Changes
<1>6. surface' \in BOOLEAN /\ (main' # "idle" => surface') /\ (surface' => loops' # <<>>)
  BY <1>3 DEF RenderInv, Changes
<1>7. ~surface' /\ loops' # <<>> => loops'[Len(loops')].at = "over"
  BY <1>1, <1>2, <1>3, <1>5 DEF RenderInv, Changes
<1>8. OneChange => \A k \in 1..Len(loops') : k # Len(loops') => loops'[k].at = "over"
  BY <1>1, <1>5 DEF RenderInv
<1>9. (Render!OnlyForgottenFail)'
  BY <1>1 DEF Changes, Render!OnlyForgottenFail, Render!Last
<1>10. /\ main' \in {"idle", "anchors", "joining"} /\ canvas' \in 0..Len(loops')
       /\ failed' \in 0..Len(loops') /\ why' \in {"none", "no canvas", "modified"}
       /\ (failed' = 0 => why' = "none")
  BY <1>1 DEF Changes
<1> QED
  BY <1>1, <1>4, <1>6, <1>7, <1>8, <1>9, <1>10 DEF RenderInv

(* A loop whose renderer's list of anchors or of players changes. *)
LEMMA ListChanged ==
    ASSUME Render!BoundsAssumption, NEW o \in Loop, Within(o), NEW list \in {"anchors", "movables"},
           NEW n \in 0..IF list = "anchors" THEN Anchors ELSE MaxMovables,
           NEW step \in Int, n = o.sizes[list] + step
    PROVE  LET e == Render!Change(o, list, step) IN e \in Loop /\ Within(e) /\ e.at = o.at
<1>1. PICK e : e = [o EXCEPT !.sizes[list] = n, !.torn = o.torn \/ o.at = list]
  OBVIOUS
<1>2. Render!Change(o, list, step) = e
  BY <1>1 DEF Render!Change
<1>3. PICK s : s = [o.sizes EXCEPT ![list] = n]
  OBVIOUS
<1>4. s \in [anchors : 0..Anchors, movables : 0..MaxMovables]
  BY <1>3 DEF Loop, Render!BoundsAssumption
<1>5. /\ e.running = o.running /\ e.at = o.at /\ e.cursor = o.cursor
      /\ e.torn = (o.torn \/ o.at = list) /\ e.sizes = s
  BY <1>1, <1>3 DEF Loop
<1>6. e \in Loop
  BY <1>1, <1>3, <1>4 DEF Loop
<1>7. Within(e)
  BY <1>3, <1>4, <1>5 DEF Within, Loop
<1> QED
  BY <1>2, <1>5, <1>6, <1>7

LEMMA RenderInductive == ASSUME Render!BoundsAssumption, RenderInv, RenderStep PROVE RenderInv'
<1> USE DEF Render!Last, Render!Loops
<1>1. CASE UNCHANGED Render!vars
  BY <1>1 DEF Render!vars, RenderInv, Render!OnlyForgottenFail
<1> SUFFICES ASSUME Render!Next PROVE RenderInv'
  BY <1>1 DEF RenderStep
<1>2. /\ failed = 0 /\ why = "none" /\ loops \in Seq(Loop) /\ Len(loops) \in Nat
      /\ \A l \in 1..Len(loops) : Within(loops[l]) /\ loops[l] \in Loop
      /\ canvas \in 0..Len(loops) /\ main \in {"idle", "anchors", "joining"} /\ (main # "idle" => surface)
      /\ (surface => loops # <<>>) /\ (loops # <<>> => Len(loops) \in 1..Len(loops))
      /\ (~surface /\ loops # <<>> => loops[Len(loops)].at = "over")
  <2>1. failed = 0 /\ RenderInv
    BY DEF Render!Next
  <2>2. loops \in Seq(Loop) /\ Len(loops) \in Nat
    BY LenProperties DEF RenderInv
  <2>3. loops # <<>> => Len(loops) \in 1..Len(loops)
    BY <2>2, EmptySeq
  <2> QED
    BY <2>1, <2>2, <2>3, ElementOfSeq DEF RenderInv
<1>12. /\ main \in {"idle", "anchors", "joining"} /\ (main # "idle" => surface)
       /\ canvas \in 0..Len(loops) /\ failed = 0 /\ why = "none" /\ Len(loops) \in Nat
  BY <1>2
<1>3. CASE Render!SurfaceChanged
  <2>1. /\ main = "idle" /\ (OneChange => ~surface) /\ surface' = TRUE /\ main' = "anchors"
        /\ loops' = Append(loops, Render!NewLoop) /\ UNCHANGED <<canvas, failed, why>>
    BY <1>3 DEF Render!SurfaceChanged
  <2>2. /\ loops' \in Seq(Loop) /\ Len(loops) \in Nat /\ Len(loops') = Len(loops) + 1
        /\ \A k \in 1..Len(loops) : loops'[k] = loops[k]
        /\ loops'[Len(loops) + 1] = Render!NewLoop /\ Within(Render!NewLoop)
    BY <1>2, <2>1, LoopMade
  <2>3. loops' # <<>>
    <3>1. Len(<<>>) = 0 /\ Len(loops') # 0
      BY <2>2, EmptySeq
    <3> QED
      BY <3>1
  <2>4. \A l \in 1..Len(loops') : l \in 1..Len(loops) \/ l = Len(loops) + 1
    BY <2>2
  <2>5. \A l \in 1..Len(loops') : Within(loops'[l])
    BY <1>2, <2>2, <2>4
  <2>6. OneChange => \A l \in 1..Len(loops') : l # Len(loops') => loops'[l].at = "over"
    <3>1. OneChange => \A l \in 1..Len(loops) : loops[l].at = "over"
      BY <1>2, <2>1 DEF RenderInv
    <3> QED
      BY <2>2, <2>4, <3>1
  <2> QED
    BY <1>2, <2>1, <2>2, <2>3, <2>5, <2>6 DEF RenderInv, Render!OnlyForgottenFail
<1>4. ASSUME main # "idle" => surface, surface' = surface, main' \in {"idle", "anchors", "joining"},
             main' # "idle" => surface, UNCHANGED <<canvas, failed, why>>,
             NEW l \in 1..Len(loops), NEW e \in Loop, loops' = [loops EXCEPT ![l] = e],
             Within(e), loops[l].at = "over" => e.at = "over"
      PROVE  RenderInv'
  <2>1. canvas' \in 0..Len(loops) /\ failed' \in 0..Len(loops) /\ why' = "none"
    BY <1>2, <1>4
  <2>2. Changes(l, e)
    BY <1>4, <2>1 DEF Changes
  <2> QED
    BY <1>2, <2>2, LoopChanged
<1>5. CASE Render!AddAnchor
  <2>1. main = "anchors" /\ UNCHANGED <<surface, canvas, failed, why>> /\ Len(loops) \in 1..Len(loops)
    BY <1>2, <1>5 DEF Render!AddAnchor
  <2>2. CASE loops[Len(loops)].sizes.anchors < Anchors
    <3>1. PICK o \in Loop : o = loops[Len(loops)] /\ Within(o)
      BY <1>2, <2>1
    <3>2. o.sizes["anchors"] + 1 \in 0..Anchors
      BY <2>2, <3>1 DEF Loop, Render!BoundsAssumption
    <3>3. PICK e : e = Render!Change(o, "anchors", 1)
      OBVIOUS
    <3>4. e \in Loop /\ Within(e) /\ e.at = o.at
      BY <3>1, <3>2, <3>3, ListChanged
    <3>5. loops' = [loops EXCEPT ![Len(loops)] = e] /\ main' = main
      BY <1>5, <2>2, <3>1, <3>3 DEF Render!AddAnchor
    <3> QED
      BY <1>2, <1>4, <2>1, <3>1, <3>4, <3>5
  <2>3. CASE ~(loops[Len(loops)].sizes.anchors < Anchors)
    <3>1. main' = "idle" /\ loops' = loops
      BY <1>5, <2>3 DEF Render!AddAnchor
    <3> QED
      BY <2>1, <3>1 DEF RenderInv, Render!OnlyForgottenFail
  <2> QED
    BY <2>2, <2>3
<1>6. CASE Render!AddPlayer \/ Render!RemovePlayer
  <2>1. main = "idle" /\ UNCHANGED <<surface, main, canvas, failed, why>> /\ Len(loops) \in 1..Len(loops)
    BY <1>2, <1>6 DEF Render!AddPlayer, Render!RemovePlayer
  <2>2. PICK o \in Loop : o = loops[Len(loops)] /\ Within(o)
    BY <1>2, <2>1
  <2>3. PICK step \in Int : /\ loops' = [loops EXCEPT ![Len(loops)] = Render!Change(o, "movables", step)]
                            /\ o.sizes["movables"] + step \in 0..MaxMovables
    <3>1. o.sizes["movables"] \in 0..MaxMovables /\ MaxMovables \in Nat
      BY DEF Loop, Render!BoundsAssumption
    <3>2. CASE Render!AddPlayer
      <4>1. loops' = [loops EXCEPT ![Len(loops)] = Render!Change(o, "movables", 1)]
            /\ o.sizes["movables"] < MaxMovables
        BY <2>2, <3>2 DEF Render!AddPlayer
      <4>2. 1 \in Int /\ o.sizes["movables"] + 1 \in 0..MaxMovables
        BY <3>1, <4>1
      <4> QED
        BY <4>1, <4>2, Zenon
    <3>3. CASE Render!RemovePlayer
      <4>1. loops' = [loops EXCEPT ![Len(loops)] = Render!Change(o, "movables", -1)]
            /\ o.sizes["movables"] > 0
        BY <2>2, <3>3 DEF Render!RemovePlayer
      <4>2. -1 \in Int /\ o.sizes["movables"] + (-1) \in 0..MaxMovables
        BY <3>1, <4>1
      <4> QED
        BY <4>1, <4>2, Zenon
    <3> QED
      BY <1>6, <3>2, <3>3
  <2>4. PICK e : e = Render!Change(o, "movables", step)
    OBVIOUS
  <2>5. e \in Loop /\ Within(e) /\ e.at = o.at
    BY <2>2, <2>3, <2>4, ListChanged
  <2>6. loops' = [loops EXCEPT ![Len(loops)] = e]
    BY <2>3, <2>4
  <2> QED
    BY <1>2, <1>4, <2>1, <2>2, <2>5, <2>6
<1>7. CASE Render!SurfaceDestroyed
  <2>1. /\ main = "idle" /\ surface /\ main' = "joining" /\ Len(loops) \in 1..Len(loops)
        /\ UNCHANGED <<surface, canvas, failed, why>>
    BY <1>2, <1>7 DEF Render!SurfaceDestroyed
  <2>2. PICK o \in Loop : o = loops[Len(loops)] /\ Within(o)
    BY <1>2, <2>1
  <2>3. PICK e : e = [o EXCEPT !.running = FALSE]
    OBVIOUS
  <2>4. e \in Loop /\ Within(e) /\ e.at = o.at
    BY <2>2, <2>3 DEF Loop, Within
  <2>5. loops' = [loops EXCEPT ![Len(loops)] = e]
    BY <1>7, <2>2, <2>3 DEF Render!SurfaceDestroyed, Render!Stopped
  <2> QED
    BY <1>4, <2>1, <2>2, <2>4, <2>5
<1>8. CASE Render!Return
  BY <1>2, <1>8 DEF Render!Return, Render!Joined, RenderInv, Render!OnlyForgottenFail
<1>9. ASSUME NEW l \in 1..Len(loops), Render!Test(l) PROVE RenderInv'
  <2>1. PICK o \in Loop : o = loops[l] /\ Within(o)
    BY <1>2
  <2>2. PICK e : e = [o EXCEPT !.at = IF o.running THEN "lock" ELSE "over"]
    OBVIOUS
  <2>3. e \in Loop /\ Within(e)
    BY <2>1, <2>2 DEF Loop, Within
  <2>4. o.at = "test" /\ loops' = [loops EXCEPT ![l] = e] /\ UNCHANGED <<surface, main, canvas, failed, why>>
    BY <1>9, <2>1, <2>2 DEF Render!Test
  <2> QED
    BY <1>2, <1>4, <2>1, <2>3, <2>4
<1>10. ASSUME NEW l \in 1..Len(loops), Render!Lock(l) PROVE RenderInv'
  <2>1. PICK o \in Loop : o = loops[l] /\ Within(o)
    BY <1>2
  <2>2. o.at = "lock" /\ UNCHANGED <<surface, main>>
    BY <1>10, <2>1 DEF Render!Lock
  <2>3. CASE surface
    <3>1. PICK e : e = [o EXCEPT !.at = "anchors", !.cursor = 0, !.torn = FALSE]
      OBVIOUS
    <3>6. /\ e.running = o.running /\ e.sizes = o.sizes /\ e.at = "anchors" /\ e.cursor = 0 /\ e.torn = FALSE
          /\ e = [running |-> e.running, at |-> e.at, sizes |-> e.sizes, cursor |-> e.cursor, torn |-> e.torn]
      BY <3>1 DEF Loop
    <3>2. e \in Loop /\ Within(e)
      <4>1. e.running \in BOOLEAN /\ e.torn \in BOOLEAN /\ e.cursor \in Nat
        <5>1. e.torn \in BOOLEAN
          BY <3>6, Zenon
        <5>2. o.running \in BOOLEAN
          BY DEF Loop
        <5>3. e.running \in BOOLEAN
          BY <3>6, <5>2, Zenon
        <5>4. e.cursor \in Nat
          BY <3>6
        <5> QED
          BY <5>1, <5>3, <5>4, Zenon
      <4>2. e.sizes \in [anchors : 0..Anchors, movables : 0..MaxMovables]
        BY <3>6 DEF Loop
      <4>3. e.at \in {"test", "lock", "anchors", "movables", "over"}
        BY <2>1, <3>6
      <4>4. e \in Loop
        BY <3>6, <4>1, <4>2, <4>3 DEF Loop
      <4>5. e.at \in {"anchors", "movables"} => e.cursor <= e.sizes[e.at]
        BY <3>6, <4>2 DEF Render!BoundsAssumption
      <4> QED
        BY <4>4, <4>5 DEF Within
    <3>3. canvas' = l /\ UNCHANGED <<failed, why>>
          /\ loops' = [loops EXCEPT ![l].at = "anchors", ![l].cursor = 0, ![l].torn = FALSE]
      BY <1>10, <2>3 DEF Render!Lock
    <3>4. loops' = [loops EXCEPT ![l] = e]
      BY <1>2, <2>1, <3>1, <3>3
    <3>5. Changes(l, e)
      <4>1. canvas' \in 0..Len(loops) /\ failed' \in 0..Len(loops) /\ why' = "none" /\ loops[l].at = "lock"
        BY <1>12, <2>1, <2>2, <3>3
      <4> QED
        BY <1>12, <2>2, <3>2, <3>4, <4>1 DEF Changes
    <3> QED
      BY <1>2, <3>2, <3>5, LoopChanged
  <2>4. CASE ~surface
    <3>1. PICK e : e = [o EXCEPT !.at = "over"]
      OBVIOUS
    <3>2. e \in Loop /\ Within(e) /\ e.at = "over"
      BY <2>1, <3>1 DEF Loop, Within
    <3>3. canvas' = canvas /\ failed' = l /\ why' = "no canvas" /\ loops' = [loops EXCEPT ![l] = e]
      BY <1>10, <2>1, <2>4, <3>1 DEF Render!Lock, Render!Fail
    <3>4. l # Len(loops) /\ failed' # 0
      <4>1. l # 0 /\ Len(loops) # 0
        BY <1>2
      <4>2. Len(<<>>) = 0
        BY EmptySeq
      <4>3. loops # <<>>
        BY <4>1, <4>2, Zenon
      <4>4. loops[Len(loops)].at = "over" /\ loops[l].at = "lock"
        BY <1>2, <2>1, <2>2, <2>4, <4>3
      <4> QED
        BY <3>3, <4>1, <4>4
    <3>5. Changes(l, e)
      <4>2. canvas' = canvas /\ failed' = l /\ Len(loops) \in Nat /\ canvas \in 0..Len(loops)
        BY <1>12, <3>3, Zenon
      <4>1. canvas' \in 0..Len(loops) /\ failed' \in 0..Len(loops)
        BY <4>2
      <4> QED
        BY <1>12, <2>2, <3>2, <3>3, <3>4, <4>1 DEF Changes
    <3> QED
      BY <1>2, <3>2, <3>5, LoopChanged
  <2> QED
    BY <2>3, <2>4
<1>11. ASSUME NEW l \in 1..Len(loops), Render!Draw(l) PROVE RenderInv'
  <2>1. PICK o \in Loop : o = loops[l] /\ Within(o)
    BY <1>2
  <2>2. o.at \in {"anchors", "movables"} /\ UNCHANGED <<surface, main>>
    BY <1>11, <2>1 DEF Render!Draw, Render!Drawn
  <2>3. CASE o.cursor # o.sizes[o.at] /\ o.torn
    <3>1. PICK e : e = [o EXCEPT !.at = "over"]
      OBVIOUS
    <3>2. e \in Loop /\ Within(e) /\ e.at = "over"
      BY <2>1, <3>1 DEF Loop, Within
    <3>3. canvas' = 0 /\ failed' = l /\ why' = "modified" /\ loops' = [loops EXCEPT ![l] = e]
      BY <1>11, <2>1, <2>3, <3>1 DEF Render!Draw, Render!HasNext, Render!Fail
    <3> QED
      <4>1. Changes(l, e)
        BY <1>2, <2>1, <2>2, <3>2, <3>3 DEF Changes
      <4> QED
        BY <1>2, <3>2, <4>1, LoopChanged
  <2>4. CASE o.cursor # o.sizes[o.at] /\ ~o.torn
    <3>1. PICK e : e = [o EXCEPT !.cursor = o.cursor + 1]
      OBVIOUS
    <3>2. o.cursor \in Nat /\ o.sizes[o.at] \in Nat /\ o.cursor <= o.sizes[o.at]
      BY <2>1, <2>2, <2>4 DEF Loop, Within, Render!BoundsAssumption
    <3>3. e \in Loop /\ e.at = o.at /\ e.sizes = o.sizes /\ e.cursor = o.cursor + 1
      BY <2>1, <3>1 DEF Loop
    <3>4. Within(e)
      BY <2>4, <3>2, <3>3 DEF Within
    <3>5. UNCHANGED <<canvas, failed, why>> /\ loops' = [loops EXCEPT ![l] = e]
      BY <1>11, <2>1, <2>4, <3>1 DEF Render!Draw, Render!HasNext
    <3> QED
      BY <1>2, <1>4, <2>1, <2>2, <3>3, <3>4, <3>5
  <2>5. CASE ~(o.cursor # o.sizes[o.at])
    <3>1. PICK next \in {"movables", "test"} : next = IF o.at = "anchors" THEN "movables" ELSE "test"
      OBVIOUS
    <3>2. PICK e : e = [o EXCEPT !.cursor = 0, !.torn = FALSE, !.at = next]
      OBVIOUS
    <3>6. /\ e.running = o.running /\ e.sizes = o.sizes /\ e.at = next /\ e.cursor = 0 /\ e.torn = FALSE
          /\ e = [running |-> e.running, at |-> e.at, sizes |-> e.sizes, cursor |-> e.cursor, torn |-> e.torn]
      BY <3>2 DEF Loop
    <3>3. e \in Loop /\ Within(e)
      <4>1. e.running \in BOOLEAN /\ e.torn \in BOOLEAN /\ e.cursor \in Nat
        <5>1. e.torn \in BOOLEAN
          BY <3>6, Zenon
        <5>2. o.running \in BOOLEAN
          BY DEF Loop
        <5>3. e.running \in BOOLEAN
          BY <3>6, <5>2, Zenon
        <5>4. e.cursor \in Nat
          BY <3>6
        <5> QED
          BY <5>1, <5>3, <5>4, Zenon
      <4>2. e.sizes \in [anchors : 0..Anchors, movables : 0..MaxMovables]
        BY <3>6 DEF Loop
      <4>3. e.at \in {"test", "lock", "anchors", "movables", "over"}
        BY <2>1, <3>1, <3>6
      <4>4. e \in Loop
        BY <3>6, <4>1, <4>2, <4>3 DEF Loop
      <4>5. e.at \in {"anchors", "movables"} => e.cursor <= e.sizes[e.at]
        BY <3>6, <4>2 DEF Render!BoundsAssumption
      <4> QED
        BY <4>4, <4>5 DEF Within
    <3>4. /\ loops' = [loops EXCEPT ![l].cursor = 0, ![l].torn = FALSE,
                                    ![l].at = IF @ = "anchors" THEN "movables" ELSE "test"]
          /\ canvas' \in {canvas, 0} /\ UNCHANGED <<failed, why>>
      BY <1>11, <2>1, <2>5 DEF Render!Draw, Render!HasNext
    <3>5. loops' = [loops EXCEPT ![l] = e]
      BY <1>2, <2>1, <3>1, <3>2, <3>4
    <3> QED
      <4>1. canvas' \in 0..Len(loops)
        BY <1>2, <3>4
      <4>2. Changes(l, e)
        <5>1. failed' \in 0..Len(loops) /\ why' = "none" /\ loops[l].at # "over"
          BY <1>12, <2>1, <2>2, <3>4
        <5> QED
          BY <1>12, <2>2, <3>3, <3>5, <4>1, <5>1 DEF Changes
      <4> QED
        BY <1>2, <3>3, <4>2, LoopChanged
  <2> QED
    BY <2>3, <2>4, <2>5
<1> QED
  BY <1>3, <1>5, <1>6, <1>7, <1>8, <1>9, <1>10, <1>11 DEF Render!Next, Render!Main, Render!Thread

LEMMA RenderMeans ==
    ASSUME RenderInv
    PROVE  /\ Render!TypeOK /\ Render!OnlyForgottenFail
           /\ OneChange => Render!OneLoop
<1>1. loops \in Seq(Loop) /\ Len(loops) \in Nat
  BY LenProperties DEF RenderInv
<1>2. ASSUME NEW l \in Render!Loops, loops[l].at \in DOMAIN Render!Drawn, ~loops[l].torn
      PROVE  loops[l].cursor <= loops[l].sizes[loops[l].at]
  BY <1>2 DEF RenderInv, Render!Loops, Within, Render!Drawn
<1>3. Render!TypeOK
  BY <1>1, <1>2 DEF RenderInv, Render!TypeOK, Render!Loops, Render!Last, Loop
<1>4. OneChange => Render!OneLoop
  <2>1. ASSUME ~surface, OneChange, NEW l \in 1..Len(loops) PROVE loops[l].at = "over"
    <3>1. loops # <<>>
      BY EmptySeq
    <3> QED
      BY <1>1, <2>1, <3>1 DEF RenderInv
  <2> QED
    BY <1>1, <2>1 DEF RenderInv, Render!OneLoop, Render!Loops
<1> QED
  BY <1>3, <1>4 DEF RenderInv

(* Whatever the system does with the surface, an iterator that is not torn is within   *)
(* its list, and a thread that finds no canvas is one that a second change of the same *)
(* surface has left behind; surfaces that change once have one thread, which does not  *)
(* survive them: for any numbers of anchors, players and changes.                      *)
THEOREM DrawingSafe ==
    ASSUME Render!BoundsAssumption
    PROVE  Render!Spec => [](/\ Render!TypeOK /\ Render!OnlyForgottenFail
                             /\ OneChange => Render!OneLoop)
<1>1. Render!Init => RenderInv
  BY RenderInitial
<1>2. RenderInv /\ [Render!Next]_Render!vars => RenderInv'
  BY RenderInductive DEF RenderStep
<1> QED
  BY <1>1, <1>2, RenderMeans, PTL DEF Render!Spec
-----------------------------------------------------------------------------
(* Lobby: what a phone shows and hears follows from the listener of its REST *)
(* client; a join under way keeps its lobby registered, or START has         *)
(* overtaken it; and an answered one says what the server has.               *)

NoGame == 0

ActivityInv ==
    \A p \in Phones :
        /\ top[p] = (IF listener[p] \in {"lobby", "map"} THEN listener[p] ELSE "dashboard")
        /\ hears[p] = (IF listener[p] = "dashboard" THEN "none" ELSE listener[p])

SummonedInv ==
    \A p \in summoned : \/ top[p] = "map"
                        \/ p \in starts /\ team[p] # "none" /\ hears[p] \in {"lobby", "left"}

Joins == {c \in calls : c.op = "join"}

JoinsInv ==
    /\ lobbyGame <= created /\ \A p \in Phones : joined[p] <= created
    /\ \A c \in Joins : /\ c.at <= created /\ c.team # "none" /\ listener[c.from] # "dashboard"
                        /\ listener[c.from] = "map" => c.from \in unsure

AnswersInv ==
    Orderly =>
        /\ \A c, d \in Joins : c.from = d.from => c = d
        /\ \A c \in Joins : c.answered /\ c.at = lobbyGame /\ lobbyGame # NoGame => members[c.from] = c.team
        /\ \A p \in Phones :
             team[p] # "none" /\ joined[p] = lobbyGame /\ lobbyGame # NoGame /\ p \notin unsure
               /\ (\A c \in Joins : c.from # p) => members[p] = team[p]

LobbyInv == Lobby!TypeOK /\ ActivityInv /\ SummonedInv /\ JoinsInv /\ AnswersInv

LobbyStep == Lobby!Next \/ UNCHANGED Lobby!vars

LEMMA LobbyInitial == ASSUME Lobby!CreatorsAssumption, Lobby!Init PROVE LobbyInv
<1> USE DEF Lobby!Init, Lobby!None, Lobby!NoGame, NoGame
<1>1. Joins = {}
  BY DEF Joins
<1>2. Lobby!TypeOK
  <2>1. admin \in [Phones -> BOOLEAN]
    BY Zenon
  <2> QED
    BY <2>1 DEF Lobby!TypeOK, Lobby!Teams, Lobby!Games, Lobby!CreatorsAssumption
<1>3. ActivityInv /\ SummonedInv
  BY DEF ActivityInv, SummonedInv
<1>4. JoinsInv /\ AnswersInv
  BY <1>1 DEF JoinsInv, AnswersInv
<1> QED
  BY <1>2, <1>3, <1>4 DEF LobbyInv

(* A call that is made, and one that the server has answered. *)
LEMMA CallMade ==
    ASSUME NEW p \in Phones, NEW op \in Lobby!Ops, NEW t \in Lobby!Teams \union {"none"},
           NEW g \in Lobby!Games \union {NoGame}
    PROVE  /\ Lobby!Call(p, op, t, g) \in Lobby!CallSet
           /\ Lobby!Call(p, op, t, g).from = p /\ Lobby!Call(p, op, t, g).op = op
           /\ Lobby!Call(p, op, t, g).team = t /\ Lobby!Call(p, op, t, g).at = g
           /\ Lobby!Call(p, op, t, g).answered = FALSE
<1>1. FALSE \in BOOLEAN
  BY Zenon
<1> QED
  BY <1>1 DEF Lobby!Call, Lobby!CallSet, Lobby!None, Lobby!NoGame, NoGame

Taken(c, g) == [c EXCEPT !.answered = TRUE, !.at = g]

LEMMA CallAnswered ==
    ASSUME NEW c \in Lobby!CallSet, NEW g \in Lobby!Games \union {NoGame}
    PROVE  /\ Taken(c, g) \in Lobby!CallSet /\ Taken(c, g).from = c.from
           /\ Taken(c, g).op = c.op /\ Taken(c, g).team = c.team /\ Taken(c, g).at = g
<1>1. TRUE \in BOOLEAN
  BY Zenon
<1>2. PICK d : d = Taken(c, g)
  OBVIOUS
<1>3. /\ d.from = c.from /\ d.op = c.op /\ d.team = c.team /\ d.at = g /\ d.answered = TRUE
      /\ d = [from |-> d.from, op |-> d.op, team |-> d.team, at |-> d.at, answered |-> d.answered]
  BY <1>2 DEF Lobby!CallSet, Taken
<1>4. /\ d.from \in Phones /\ d.op \in Lobby!Ops /\ d.team \in Lobby!Teams \union {Lobby!None}
      /\ d.at \in Lobby!Games \union {Lobby!NoGame}
  BY <1>3 DEF Lobby!CallSet, Lobby!NoGame, NoGame
<1>5. d.answered \in BOOLEAN
  BY <1>1, <1>3, Zenon
<1>6. d \in Lobby!CallSet
  BY <1>3, <1>4, <1>5 DEF Lobby!CallSet
<1> QED
  BY <1>2, <1>3, <1>6

LEMMA GetMade ==
    ASSUME NEW p \in Phones, lobbyGame \in Lobby!Games \union {NoGame}
    PROVE  Lobby!Get(p) \in Lobby!CallSet /\ Lobby!Get(p).op = "get"
<1>1. PICK c : c = Lobby!Call(p, "get", "none", lobbyGame)
  OBVIOUS
<1>2. c \in Lobby!CallSet /\ c.op = "get"
  <2>1. FALSE \in BOOLEAN
    BY Zenon
  <2> QED
    BY <1>1, <2>1 DEF Lobby!Call, Lobby!CallSet, Lobby!Ops, Lobby!None, Lobby!NoGame, NoGame
<1>3. Lobby!Get(p) = [c EXCEPT !.answered = TRUE]
  BY <1>1 DEF Lobby!Get, Lobby!None
<1>4. TRUE \in BOOLEAN
  BY Zenon
<1> QED
  BY <1>2, <1>3, <1>4 DEF Lobby!CallSet

LEMMA LobbyOpened ==
    ASSUME Lobby!TypeOK, NEW p \in Phones, NEW b \in BOOLEAN, Lobby!OpenLobby(p, b)
    PROVE  /\ top' \in [Phones -> {"dashboard", "lobby", "map"}]
           /\ listener' \in [Phones -> {"dashboard", "lobby", "left", "map"}]
           /\ hears' \in [Phones -> {"none", "lobby", "left", "map"}]
           /\ admin' \in [Phones -> BOOLEAN] /\ team' \in [Phones -> Lobby!Teams \union {"none"}]
           /\ seen' \in [Phones -> Lobby!Games \union {NoGame}]
           /\ off' \in [Phones -> Lobby!Teams \union {"none"}]
           /\ lobbyLink' \in [Phones -> {"none", "down", "up"}] /\ summoned' \subseteq Phones
           /\ \A q \in Phones : /\ top'[q] = IF q = p THEN "lobby" ELSE top[q]
                                /\ listener'[q] = IF q = p THEN "lobby" ELSE listener[q]
                                /\ hears'[q] = IF q = p THEN "lobby" ELSE hears[q]
                                /\ team'[q] = IF q = p THEN "none" ELSE team[q]
           /\ summoned' = summoned \ {p}
<1>1. /\ top' = [top EXCEPT ![p] = "lobby"] /\ listener' = [listener EXCEPT ![p] = "lobby"]
      /\ hears' = [hears EXCEPT ![p] = "lobby"] /\ team' = [team EXCEPT ![p] = "none"]
      /\ seen' = [seen EXCEPT ![p] = NoGame] /\ off' = [off EXCEPT ![p] = "none"]
      /\ lobbyLink' = [lobbyLink EXCEPT ![p] = IF @ = "none" THEN "down" ELSE @]
      /\ summoned' = summoned \ {p}
  BY DEF Lobby!OpenLobby, Lobby!None, Lobby!NoGame, NoGame
<1>2. admin' = [admin EXCEPT ![p] = b]
  BY DEF Lobby!OpenLobby
<1>3. admin' \in [Phones -> BOOLEAN]
  BY <1>2, Zenon DEF Lobby!TypeOK
<1>4. /\ top \in [Phones -> {"dashboard", "lobby", "map"}]
      /\ listener \in [Phones -> {"dashboard", "lobby", "left", "map"}]
      /\ hears \in [Phones -> {"none", "lobby", "left", "map"}]
      /\ team \in [Phones -> Lobby!Teams \union {"none"}]
      /\ seen \in [Phones -> Lobby!Games \union {NoGame}]
      /\ off \in [Phones -> Lobby!Teams \union {"none"}]
      /\ lobbyLink \in [Phones -> {"none", "down", "up"}] /\ summoned \subseteq Phones
  BY DEF Lobby!TypeOK, Lobby!None, Lobby!NoGame, NoGame
<1> QED
  BY <1>1, <1>3, <1>4

(* The calls that there are after a step. *)
LEMMA CallsKept ==
    ASSUME Lobby!TypeOK, Lobby!Next PROVE calls' \subseteq Lobby!CallSet
<1> USE DEF Lobby!None, Lobby!NoGame, NoGame
<1>1. /\ calls \subseteq Lobby!CallSet /\ lobbyGame \in Lobby!Games \union {NoGame}
      /\ \A p \in Phones : seen[p] \in Lobby!Games \union {NoGame}
  BY DEF Lobby!TypeOK
<1>2. ASSUME NEW p \in Phones, Lobby!Tap(p) \/ Lobby!Poll(p) \/ Lobby!Connect(p) \/ Lobby!Cut(p) \/ Lobby!StartArrives(p)
      PROVE  calls' \subseteq Lobby!CallSet
  <2>1. CASE Lobby!TapCreate(p)
    <3>1. Lobby!Call(p, "create", "none", NoGame) \in Lobby!CallSet
      BY CallMade DEF Lobby!Ops
    <3> QED
      BY <1>1, <2>1, <3>1 DEF Lobby!TapCreate
  <2>2. ASSUME NEW t \in Lobby!Teams, Lobby!TapTeam(p, t) PROVE calls' \subseteq Lobby!CallSet
    <3>1. Lobby!Call(p, "join", t, NoGame) \in Lobby!CallSet
      BY CallMade DEF Lobby!Ops
    <3> QED
      BY <1>1, <2>2, <3>1 DEF Lobby!TapTeam
  <2>3. CASE Lobby!Back(p)
    <3>1. Lobby!Call(p, "delete", "none", seen[p]) \in Lobby!CallSet
      BY <1>1, CallMade DEF Lobby!Ops
    <3> QED
      BY <1>1, <2>3, <3>1 DEF Lobby!Back
  <2>4. CASE Lobby!Poll(p)
    BY <1>1, <2>4, GetMade DEF Lobby!Poll
  <2>5. CASE Lobby!TapJoinGame(p) \/ Lobby!TapStart(p) \/ Lobby!Connect(p) \/ Lobby!Cut(p) \/ Lobby!StartArrives(p)
    BY <1>1, <2>5 DEF Lobby!TapJoinGame, Lobby!TapStart, Lobby!Connect, Lobby!Cut, Lobby!StartArrives
  <2> QED
    BY <1>2, <2>1, <2>2, <2>3, <2>4, <2>5 DEF Lobby!Tap
<1>3. CASE Lobby!ServerRestart
  BY <1>1, <1>3 DEF Lobby!ServerRestart
<1>4. ASSUME NEW c \in calls, Lobby!Serve(c) \/ Lobby!Fail(c) \/ Lobby!Answered(c)
      PROVE  calls' \subseteq Lobby!CallSet
  <2>1. c \in Lobby!CallSet /\ c.from \in Phones
    BY <1>1 DEF Lobby!CallSet
  <2>2. CASE Lobby!Serve(c)
    <3>1. lobbyGame' \in Lobby!Games \union {NoGame}
          /\ calls' = (calls \ {c}) \union
                        IF c.op = "delete" THEN {} ELSE {Taken(c, lobbyGame')}
      BY <2>2 DEF Lobby!Serve, Taken
    <3>2. Taken(c, lobbyGame') \in Lobby!CallSet
      BY <2>1, <3>1, CallAnswered
    <3> QED
      BY <1>1, <3>1, <3>2
  <2>3. CASE Lobby!Fail(c) \/ Lobby!CreateSuccess(c) \/ Lobby!GetSuccess(c)
    BY <1>1, <2>3 DEF Lobby!Fail, Lobby!CreateSuccess, Lobby!GetSuccess
  <2>4. CASE Lobby!JoinSuccess(c)
    <3>1. calls' \subseteq calls \union {Lobby!Get(c.from)}
      BY <2>4 DEF Lobby!JoinSuccess
    <3> QED
      BY <1>1, <2>1, <3>1, GetMade
  <2> QED
    BY <1>4, <2>2, <2>3, <2>4 DEF Lobby!Answered
<1> QED
  BY <1>2, <1>3, <1>4 DEF Lobby!Next

(* Every step keeps the types, and what each phone shows and hears. *)
LEMMA PhonesKept ==
    ASSUME Lobby!CreatorsAssumption, LobbyInv, Lobby!Next
    PROVE  Lobby!TypeOK' /\ ActivityInv'
<1> USE DEF Lobby!None, Lobby!NoGame, NoGame
<1>1. /\ Lobby!TypeOK /\ ActivityInv /\ calls' \subseteq Lobby!CallSet
      /\ \A c \in calls : c \in Lobby!CallSet /\ c.from \in Phones /\ (c.op = "join" => c.team \in Lobby!Teams)
  BY CallsKept DEF LobbyInv, Lobby!TypeOK, Lobby!CallSet, JoinsInv, Joins
<1>2. ASSUME NEW p \in Phones, NEW b \in BOOLEAN, Lobby!OpenLobby(p, b),
             UNCHANGED <<subscribed, starts, lobbyGame, created, members, joined, unsure>>
      PROVE  Lobby!TypeOK' /\ ActivityInv'
  <2>1. \A q \in Phones : /\ top'[q] = IF q = p THEN "lobby" ELSE top[q]
                          /\ listener'[q] = IF q = p THEN "lobby" ELSE listener[q]
                          /\ hears'[q] = IF q = p THEN "lobby" ELSE hears[q]
                          /\ team'[q] = IF q = p THEN "none" ELSE team[q]
    BY <1>1, <1>2, LobbyOpened
  <2>2. ActivityInv'
    BY <1>1, <2>1 DEF ActivityInv
  <2>3. /\ top' \in [Phones -> {"dashboard", "lobby", "map"}]
        /\ listener' \in [Phones -> {"dashboard", "lobby", "left", "map"}]
        /\ hears' \in [Phones -> {"none", "lobby", "left", "map"}]
        /\ admin' \in [Phones -> BOOLEAN] /\ team' \in [Phones -> Lobby!Teams \union {"none"}]
        /\ seen' \in [Phones -> Lobby!Games \union {0}]
        /\ off' \in [Phones -> Lobby!Teams \union {"none"}]
        /\ lobbyLink' \in [Phones -> {"none", "down", "up"}] /\ summoned' \subseteq Phones
    BY <1>1, <1>2, LobbyOpened
  <2>4. \A q \in Phones : top'[q] = "map" => team'[q] # "none"
    BY <1>1, <2>1 DEF Lobby!TypeOK
  <2>5. /\ subscribed' \subseteq Phones /\ lobbyGame' \in Lobby!Games \union {0} /\ created' \in 0..MaxGames
        /\ members' \in [Phones -> Lobby!Teams \union {"none"}] /\ starts' \subseteq Phones
        /\ joined' \in [Phones -> Lobby!Games \union {0}] /\ unsure' \subseteq Phones
    BY <1>1, <1>2 DEF Lobby!TypeOK
  <2>6. Lobby!TypeOK'
    BY <1>1, <2>3, <2>4, <2>5 DEF Lobby!TypeOK
  <2> QED
    BY <2>2, <2>6
<1>3. ASSUME UNCHANGED <<top, listener, hears, admin, team, seen, off>>,
             lobbyLink' \in [Phones -> {"none", "down", "up"}], subscribed' \subseteq Phones,
             starts' \subseteq Phones, lobbyGame' \in Lobby!Games \union {0}, created' \in 0..MaxGames,
             members' \in [Phones -> Lobby!Teams \union {"none"}],
             joined' \in [Phones -> Lobby!Games \union {0}], unsure' \subseteq Phones, summoned' \subseteq Phones
      PROVE  Lobby!TypeOK' /\ ActivityInv'
  <2>1. ActivityInv'
    BY <1>1, <1>3 DEF ActivityInv
  <2> QED
    BY <1>1, <1>3, <2>1 DEF Lobby!TypeOK
<1>4. ASSUME NEW p \in Phones, Lobby!Tap(p) \/ Lobby!Poll(p) \/ Lobby!Connect(p) \/ Lobby!Cut(p) \/ Lobby!StartArrives(p)
      PROVE  Lobby!TypeOK' /\ ActivityInv'
  <2>1. CASE Lobby!TapJoinGame(p)
    <3>1. Lobby!OpenLobby(p, FALSE) /\ FALSE \in BOOLEAN
      BY <2>1, Zenon DEF Lobby!TapJoinGame
    <3>2. UNCHANGED <<subscribed, starts, lobbyGame, created, members, joined, unsure>>
      BY <2>1 DEF Lobby!TapJoinGame, Lobby!server
    <3> QED
      BY <1>2, <3>1, <3>2
  <2>2. CASE Lobby!TapCreate(p) \/ Lobby!Poll(p) \/ \E t \in Lobby!Teams : Lobby!TapTeam(p, t)
    <3>1. UNCHANGED <<top, listener, hears, admin, team, seen, off, lobbyLink, subscribed, starts,
                      lobbyGame, created, members, joined, unsure, summoned>>
      BY <2>2 DEF Lobby!TapCreate, Lobby!Poll, Lobby!TapTeam, Lobby!app, Lobby!mqtt, Lobby!server, Lobby!history
    <3> QED
      BY <1>1, <1>3, <3>1 DEF Lobby!TypeOK
  <2>3. CASE Lobby!Back(p)
    <3>1. /\ top' = [top EXCEPT ![p] = "dashboard"] /\ listener' = [listener EXCEPT ![p] = "left"]
          /\ hears' = [hears EXCEPT ![p] = "left"]
          /\ UNCHANGED <<admin, team, seen, off, lobbyLink, subscribed, starts, lobbyGame, created, members,
                         joined, unsure, summoned>>
      BY <2>3 DEF Lobby!Back, Lobby!mqtt, Lobby!server, Lobby!history
    <3>2. ActivityInv'
      BY <1>1, <3>1 DEF ActivityInv, Lobby!TypeOK
    <3> QED
      BY <1>1, <3>1, <3>2 DEF Lobby!TypeOK
  <2>4. CASE Lobby!TapStart(p)
    <3>1. UNCHANGED <<top, listener, hears, admin, team, seen, off, lobbyLink, subscribed, lobbyGame, created,
                      members, joined, unsure>>
          /\ starts' \subseteq Phones /\ summoned' \subseteq Phones
      BY <1>1, <2>4 DEF Lobby!TapStart, Lobby!Reachable, Lobby!app, Lobby!server, Lobby!TypeOK
    <3> QED
      BY <1>1, <1>3, <3>1 DEF Lobby!TypeOK
  <2>5. CASE Lobby!Connect(p) \/ Lobby!Cut(p)
    <3>1. /\ UNCHANGED <<top, listener, hears, admin, team, seen, off, lobbyGame, created, members, joined, unsure>>
          /\ lobbyLink' \in [Phones -> {"none", "down", "up"}] /\ subscribed' \subseteq Phones
          /\ starts' \subseteq Phones /\ summoned' \subseteq Phones
      BY <1>1, <2>5 DEF Lobby!Connect, Lobby!Cut, Lobby!app, Lobby!server, Lobby!history, Lobby!TypeOK
    <3> QED
      BY <1>1, <1>3, <3>1 DEF Lobby!TypeOK
  <2>6. CASE Lobby!StartArrives(p)
    <3>1. /\ starts' = starts \ {p} /\ unsure' \subseteq Phones
          /\ UNCHANGED <<admin, team, seen, off, lobbyLink, subscribed, lobbyGame, created, members,
                         joined, summoned>>
      BY <1>1, <2>6 DEF Lobby!StartArrives, Lobby!server, Lobby!TypeOK
    <3>2. CASE hears[p] \in {"lobby", "left"} /\ Lobby!MayPlay(p)
      <4>1. /\ top' = [top EXCEPT ![p] = "map"] /\ listener' = [listener EXCEPT ![p] = "map"]
            /\ hears' = [hears EXCEPT ![p] = "map"] /\ team[p] # "none"
        BY <2>6, <3>2 DEF Lobby!StartArrives, Lobby!MayPlay
      <4>2. ActivityInv'
        BY <1>1, <4>1 DEF ActivityInv, Lobby!TypeOK
      <4> QED
        BY <1>1, <3>1, <4>1, <4>2 DEF Lobby!TypeOK
    <3>3. CASE ~(hears[p] \in {"lobby", "left"} /\ Lobby!MayPlay(p))
      <4>1. UNCHANGED <<top, listener, hears>>
        BY <2>6, <3>3 DEF Lobby!StartArrives
      <4> QED
        BY <1>1, <1>3, <3>1, <4>1 DEF Lobby!TypeOK
    <3> QED
      BY <3>2, <3>3
  <2> QED
    BY <1>4, <2>1, <2>2, <2>3, <2>4, <2>5, <2>6 DEF Lobby!Tap
<1>5. CASE Lobby!ServerRestart
  <2>1. /\ UNCHANGED <<top, listener, hears, admin, team, seen, off, lobbyLink, subscribed, starts, created,
                       joined, unsure, summoned>>
        /\ lobbyGame' = 0 /\ members' = [q \in Phones |-> "none"]
    BY <1>5 DEF Lobby!ServerRestart, Lobby!app, Lobby!mqtt, Lobby!history
  <2> QED
    BY <1>1, <1>3, <2>1 DEF Lobby!TypeOK
<1>6. ASSUME NEW c \in calls, Lobby!Serve(c) \/ Lobby!Fail(c) \/ Lobby!Answered(c)
      PROVE  Lobby!TypeOK' /\ ActivityInv'
  <2>1. CASE Lobby!Serve(c)
    <3>1. UNCHANGED <<top, listener, hears, admin, team, seen, off, lobbyLink, subscribed, starts,
                      joined, unsure, summoned>>
      BY <2>1 DEF Lobby!Serve, Lobby!app, Lobby!mqtt, Lobby!history
    <3>2. lobbyGame' \in Lobby!Games \union {0} /\ created' \in 0..MaxGames
      BY <1>1, <2>1 DEF Lobby!Serve, Lobby!TypeOK, Lobby!Games, Lobby!CreatorsAssumption
    <3>3. members' \in [Phones -> Lobby!Teams \union {"none"}]
      BY <1>1, <2>1 DEF Lobby!Serve, Lobby!TypeOK
    <3> QED
      BY <1>1, <1>3, <3>1, <3>2, <3>3 DEF Lobby!TypeOK
  <2>2. CASE Lobby!Fail(c)
    <3>1. UNCHANGED <<top, listener, hears, admin, team, seen, off, lobbyLink, subscribed, starts,
                      lobbyGame, created, members, joined, summoned>> /\ unsure' \subseteq Phones
      BY <1>1, <2>2 DEF Lobby!Fail, Lobby!app, Lobby!mqtt, Lobby!server, Lobby!TypeOK
    <3> QED
      BY <1>1, <1>3, <3>1 DEF Lobby!TypeOK
  <2>3. CASE Lobby!CreateSuccess(c)
    <3>1. UNCHANGED <<subscribed, starts, lobbyGame, created, members, joined, unsure>>
      BY <2>3 DEF Lobby!CreateSuccess, Lobby!server
    <3>2. CASE listener[c.from] = "dashboard"
      <4>1. Lobby!OpenLobby(c.from, TRUE) /\ TRUE \in BOOLEAN
        BY <2>3, <3>2, Zenon DEF Lobby!CreateSuccess, Lobby!Creator
      <4> QED
        BY <1>1, <1>2, <3>1, <4>1
    <3>3. CASE listener[c.from] # "dashboard"
      <4>1. UNCHANGED <<top, listener, hears, admin, team, seen, off, lobbyLink, summoned>>
        BY <2>3, <3>3 DEF Lobby!CreateSuccess, Lobby!app
      <4> QED
        BY <1>1, <1>3, <3>1, <4>1 DEF Lobby!TypeOK
    <3> QED
      BY <3>2, <3>3
  <2>4. CASE Lobby!GetSuccess(c)
    <3>1. /\ UNCHANGED <<top, listener, hears, admin, team, off, lobbyLink, subscribed, starts,
                         lobbyGame, created, members, joined, unsure, summoned>>
          /\ seen' \in [Phones -> Lobby!Games \union {0}]
      BY <1>1, <2>4 DEF Lobby!GetSuccess, Lobby!mqtt, Lobby!server, Lobby!history, Lobby!TypeOK, Lobby!CallSet
    <3>2. ActivityInv'
      BY <1>1, <3>1 DEF ActivityInv
    <3> QED
      BY <1>1, <3>1, <3>2 DEF Lobby!TypeOK
  <2>5. CASE Lobby!JoinSuccess(c)
    <3>1. /\ UNCHANGED <<top, listener, hears, admin, seen, lobbyLink, subscribed, starts,
                         lobbyGame, created, members, unsure, summoned>>
          /\ c.op = "join"
      BY <2>5 DEF Lobby!JoinSuccess, Lobby!Returned, Lobby!mqtt, Lobby!server
    <3>2. /\ team' \in [Phones -> Lobby!Teams \union {"none"}] /\ off' \in [Phones -> Lobby!Teams \union {"none"}]
          /\ joined' \in [Phones -> Lobby!Games \union {0}]
      BY <1>1, <2>5, <3>1 DEF Lobby!JoinSuccess, Lobby!TakeTeam, Lobby!TypeOK, Lobby!CallSet
    <3>3. \A q \in Phones : top'[q] = "map" => team'[q] # "none"
      <4>1. team' = team \/ team' = [team EXCEPT ![c.from] = c.team]
        BY <2>5 DEF Lobby!JoinSuccess, Lobby!TakeTeam
      <4> QED
        BY <1>1, <3>1, <4>1 DEF Lobby!TypeOK, Lobby!Teams
    <3>4. ActivityInv'
      BY <1>1, <3>1 DEF ActivityInv
    <3> QED
      BY <1>1, <3>1, <3>2, <3>3, <3>4 DEF Lobby!TypeOK
  <2> QED
    BY <1>6, <2>1, <2>2, <2>3, <2>4, <2>5 DEF Lobby!Answered
<1> QED
  BY <1>4, <1>5, <1>6 DEF Lobby!Next

(* A phone that START has called is on its way or there. *)
LEMMA SummonedKept ==
    ASSUME LobbyInv, Lobby!Next
    PROVE  SummonedInv'
<1> USE DEF Lobby!None, Lobby!NoGame, NoGame
<1>1. /\ Lobby!TypeOK /\ ActivityInv /\ SummonedInv
      /\ \A c \in calls : c.from \in Phones /\ (c.op = "join" => c.team # "none")
      /\ summoned \subseteq Phones
  BY DEF LobbyInv, Lobby!TypeOK, Lobby!CallSet, JoinsInv, Joins
<1>2. ASSUME NEW p \in Phones, NEW b \in BOOLEAN, Lobby!OpenLobby(p, b), UNCHANGED starts
      PROVE  SummonedInv'
  <2>1. /\ \A q \in Phones : /\ top'[q] = IF q = p THEN "lobby" ELSE top[q]
                             /\ hears'[q] = IF q = p THEN "lobby" ELSE hears[q]
                             /\ team'[q] = IF q = p THEN "none" ELSE team[q]
        /\ summoned' = summoned \ {p}
    BY <1>1, <1>2, LobbyOpened
  <2> QED
    BY <1>1, <1>2, <2>1 DEF SummonedInv
<1>3. ASSUME UNCHANGED <<top, hears, starts, summoned>>,
             \A q \in Phones : team[q] # "none" => team'[q] # "none"
      PROVE  SummonedInv'
  BY <1>1, <1>3 DEF SummonedInv
<1>4. ASSUME NEW p \in Phones, Lobby!Tap(p) \/ Lobby!Poll(p) \/ Lobby!Connect(p) \/ Lobby!Cut(p) \/ Lobby!StartArrives(p)
      PROVE  SummonedInv'
  <2>1. CASE Lobby!TapJoinGame(p)
    <3>1. Lobby!OpenLobby(p, FALSE) /\ FALSE \in BOOLEAN /\ UNCHANGED starts
      BY <2>1, Zenon DEF Lobby!TapJoinGame
    <3> QED
      BY <1>2, <3>1
  <2>2. CASE Lobby!TapCreate(p) \/ Lobby!Poll(p) \/ (\E t \in Lobby!Teams : Lobby!TapTeam(p, t)) \/ Lobby!Connect(p)
    <3>1. UNCHANGED <<top, hears, team, starts, summoned>>
      BY <2>2 DEF Lobby!TapCreate, Lobby!Poll, Lobby!TapTeam, Lobby!Connect, Lobby!app, Lobby!mqtt, Lobby!history
    <3> QED
      BY <1>3, <3>1
  <2>3. CASE Lobby!Back(p)
    <3>1. /\ top[p] = "lobby" /\ top' = [top EXCEPT ![p] = "dashboard"] /\ hears' = [hears EXCEPT ![p] = "left"]
          /\ UNCHANGED <<team, starts, summoned>>
      BY <2>3 DEF Lobby!Back, Lobby!mqtt, Lobby!history
    <3> QED
      BY <1>1, <3>1 DEF SummonedInv, Lobby!TypeOK
  <2>4. CASE Lobby!TapStart(p)
    <3>1. /\ UNCHANGED <<top, hears, team>> /\ starts' = starts \union Lobby!Reachable
          /\ summoned' = summoned \union {q \in Lobby!Reachable : hears[q] \in {"lobby", "left"} /\ team[q] # "none"}
      BY <2>4 DEF Lobby!TapStart, Lobby!app
    <3> QED
      BY <1>1, <3>1 DEF SummonedInv
  <2>5. CASE Lobby!Cut(p)
    <3>1. UNCHANGED <<top, hears, team>> /\ starts' = starts \ {p} /\ summoned' = summoned \ {p}
      BY <2>5 DEF Lobby!Cut, Lobby!app
    <3> QED
      BY <1>1, <3>1 DEF SummonedInv
  <2>6. CASE Lobby!StartArrives(p)
    <3>1. starts' = starts \ {p} /\ UNCHANGED <<team, summoned>>
      BY <2>6 DEF Lobby!StartArrives
    <3>2. CASE hears[p] \in {"lobby", "left"} /\ team[p] # "none"
      <4>1. top' = [top EXCEPT ![p] = "map"] /\ hears' = [hears EXCEPT ![p] = "map"]
        BY <2>6, <3>2 DEF Lobby!StartArrives, Lobby!MayPlay
      <4> QED
        BY <1>1, <3>1, <4>1 DEF SummonedInv, Lobby!TypeOK
    <3>3. CASE ~(hears[p] \in {"lobby", "left"} /\ team[p] # "none")
      <4>1. UNCHANGED <<top, hears>>
        BY <2>6, <3>3 DEF Lobby!StartArrives, Lobby!MayPlay
      <4> QED
        BY <1>1, <3>1, <3>3, <4>1 DEF SummonedInv
    <3> QED
      BY <3>2, <3>3
  <2> QED
    BY <1>4, <2>1, <2>2, <2>3, <2>4, <2>5, <2>6 DEF Lobby!Tap
<1>5. CASE Lobby!ServerRestart
  <2>1. UNCHANGED <<top, hears, team, starts, summoned>>
    BY <1>5 DEF Lobby!ServerRestart, Lobby!app, Lobby!mqtt, Lobby!history
  <2> QED
    BY <1>3, <2>1
<1>6. ASSUME NEW c \in calls, Lobby!Serve(c) \/ Lobby!Fail(c) \/ Lobby!Answered(c)
      PROVE  SummonedInv'
  <2>1. CASE Lobby!Serve(c) \/ Lobby!Fail(c) \/ Lobby!GetSuccess(c)
    <3>1. UNCHANGED <<top, hears, team, starts, summoned>>
      BY <2>1 DEF Lobby!Serve, Lobby!Fail, Lobby!GetSuccess, Lobby!app, Lobby!mqtt, Lobby!history
    <3> QED
      BY <1>3, <3>1
  <2>2. CASE Lobby!CreateSuccess(c)
    <3>1. CASE listener[c.from] = "dashboard"
      <4>1. Lobby!OpenLobby(c.from, TRUE) /\ TRUE \in BOOLEAN /\ UNCHANGED starts
        BY <2>2, <3>1, Zenon DEF Lobby!CreateSuccess, Lobby!Creator
      <4> QED
        BY <1>1, <1>2, <4>1
    <3>2. CASE listener[c.from] # "dashboard"
      <4>1. UNCHANGED <<top, hears, team, starts, summoned>>
        BY <2>2, <3>2 DEF Lobby!CreateSuccess, Lobby!app
      <4> QED
        BY <1>3, <4>1
    <3> QED
      BY <3>1, <3>2
  <2>3. CASE Lobby!JoinSuccess(c)
    <3>1. UNCHANGED <<top, hears, starts, summoned>> /\ c.op = "join"
          /\ (team' = team \/ team' = [team EXCEPT ![c.from] = c.team])
      BY <2>3 DEF Lobby!JoinSuccess, Lobby!Returned, Lobby!TakeTeam, Lobby!mqtt
    <3>2. \A q \in Phones : team[q] # "none" => team'[q] # "none"
      BY <1>1, <3>1 DEF Lobby!TypeOK
    <3> QED
      BY <1>3, <3>1, <3>2
  <2> QED
    BY <1>6, <2>1, <2>2, <2>3 DEF Lobby!Answered
<1> QED
  BY <1>4, <1>5, <1>6 DEF Lobby!Next

(* A step that leaves the joins and the server alone keeps what they say of a phone *)
(* whose player it forgets, and of one whose lobby it closes or opens; on the map   *)
(* only with a join that is marked.                                                 *)
LEMMA JoinsUntouched ==
    ASSUME LobbyInv, Joins' = Joins, UNCHANGED <<lobbyGame, created, members, joined>>, unsure \subseteq unsure',
           \A p \in Phones : team'[p] \in {team[p], "none"},
           \A p \in Phones : \/ listener'[p] = listener[p] \/ listener'[p] \in {"lobby", "left"}
                             \/ listener'[p] = "map" /\ ((\E c \in Joins : c.from = p) => p \in unsure')
    PROVE  JoinsInv' /\ AnswersInv'
<1>1. \A c \in Joins : c.from \in Phones
  BY DEF LobbyInv, Lobby!TypeOK, Lobby!CallSet, Joins
<1>2. JoinsInv /\ AnswersInv
  BY DEF LobbyInv
<1>3. JoinsInv'
  BY <1>1, <1>2 DEF JoinsInv
<1>4. AnswersInv'
  BY <1>1, <1>2 DEF AnswersInv
<1> QED
  BY <1>3, <1>4

(* What a step says of the joins under way, and of the answered ones. *)
LEMMA JoinsKept ==
    ASSUME Lobby!CreatorsAssumption, LobbyInv, Lobby!Next
    PROVE  JoinsInv' /\ AnswersInv'
<1> USE DEF Lobby!None, Lobby!NoGame, NoGame
<1>1. /\ Lobby!TypeOK /\ ActivityInv /\ JoinsInv /\ AnswersInv
      /\ \A c \in calls : c \in Lobby!CallSet /\ c.from \in Phones /\ c.at \in Int
      /\ created \in Int /\ lobbyGame \in Int /\ \A p \in Phones : joined[p] \in Int
  BY DEF LobbyInv, Lobby!TypeOK, Lobby!CallSet, Lobby!Games
<1>2. ASSUME NEW p \in Phones, NEW b \in BOOLEAN, Lobby!OpenLobby(p, b), Joins' = Joins,
             UNCHANGED <<lobbyGame, created, members, joined, unsure>>
      PROVE  JoinsInv' /\ AnswersInv'
  <2>1. \A q \in Phones : /\ listener'[q] = IF q = p THEN "lobby" ELSE listener[q]
                          /\ team'[q] = IF q = p THEN "none" ELSE team[q]
    BY <1>1, <1>2, LobbyOpened
  <2> QED
    BY <1>2, <2>1, JoinsUntouched
<1>3. ASSUME Joins' = Joins, UNCHANGED <<listener, team, lobbyGame, created, members, joined>>, unsure \subseteq unsure'
      PROVE  JoinsInv' /\ AnswersInv'
  BY <1>3, JoinsUntouched
<1>4. ASSUME NEW p \in Phones, NEW t \in Lobby!Teams, Lobby!TapTeam(p, t)
      PROVE  JoinsInv' /\ AnswersInv'
  <2>1. PICK c : c = Lobby!Call(p, "join", t, 0)
    OBVIOUS
  <2>2. c.from = p /\ c.op = "join" /\ c.team = t /\ c.at = 0 /\ c.answered = FALSE
    BY <2>1 DEF Lobby!Call
  <2>3. /\ top[p] = "lobby" /\ Joins' = Joins \union {c}
        /\ Orderly => \A d \in Joins : d.from # p
        /\ UNCHANGED <<listener, team, lobbyGame, created, members, joined, unsure>>
    BY <1>4, <2>1, <2>2 DEF Lobby!TapTeam, Joins, Lobby!app, Lobby!server, Lobby!history
  <2>4. listener[p] = "lobby" /\ 0 <= created /\ t # "none"
    BY <1>1, <2>3 DEF ActivityInv, Lobby!TypeOK, Lobby!Teams
  <2>5. JoinsInv'
    BY <1>1, <2>2, <2>3, <2>4 DEF JoinsInv
  <2>6. AnswersInv'
    <3> SUFFICES ASSUME Orderly PROVE AnswersInv'
      BY DEF AnswersInv
    <3>1. \A d, e \in Joins' : d.from = e.from => d = e
      BY <1>1, <2>2, <2>3 DEF AnswersInv
    <3>2. \A d \in Joins' : d.answered /\ d.at = lobbyGame /\ lobbyGame # 0 => members[d.from] = d.team
      BY <1>1, <2>2, <2>3 DEF AnswersInv
    <3>3. \A q \in Phones :
            team[q] # "none" /\ joined[q] = lobbyGame /\ lobbyGame # 0 /\ q \notin unsure
              /\ (\A d \in Joins' : d.from # q) => members[q] = team[q]
      BY <1>1, <2>2, <2>3 DEF AnswersInv
    <3> QED
      BY <2>3, <3>1, <3>2, <3>3 DEF AnswersInv
  <2> QED
    BY <2>5, <2>6
<1>5. ASSUME NEW p \in Phones, Lobby!Tap(p) \/ Lobby!Poll(p) \/ Lobby!Connect(p) \/ Lobby!Cut(p) \/ Lobby!StartArrives(p)
      PROVE  JoinsInv' /\ AnswersInv'
  <2>1. CASE Lobby!TapJoinGame(p)
    <3>1. Lobby!OpenLobby(p, FALSE) /\ FALSE \in BOOLEAN
      BY <2>1, Zenon DEF Lobby!TapJoinGame
    <3>2. Joins' = Joins /\ UNCHANGED <<lobbyGame, created, members, joined, unsure>>
      BY <2>1 DEF Lobby!TapJoinGame, Joins, Lobby!server
    <3> QED
      BY <1>2, <3>1, <3>2
  <2>2. CASE Lobby!TapCreate(p)
    <3>1. Lobby!Call(p, "create", "none", 0).op = "create"
      BY DEF Lobby!Call
    <3>2. Joins' = Joins /\ UNCHANGED <<listener, team, lobbyGame, created, members, joined, unsure>>
      BY <2>2, <3>1 DEF Lobby!TapCreate, Joins, Lobby!app, Lobby!server, Lobby!history
    <3> QED
      BY <1>3, <3>2
  <2>3. CASE Lobby!Poll(p)
    <3>1. Lobby!Get(p).op = "get"
      BY <1>1, GetMade DEF Lobby!TypeOK
    <3>2. Joins' = Joins /\ UNCHANGED <<listener, team, lobbyGame, created, members, joined, unsure>>
      BY <2>3, <3>1 DEF Lobby!Poll, Joins, Lobby!app, Lobby!server, Lobby!history
    <3> QED
      BY <1>3, <3>2
  <2>4. CASE Lobby!Back(p)
    <3>1. Lobby!Call(p, "delete", "none", seen[p]).op = "delete"
      BY DEF Lobby!Call
    <3>2. /\ Joins' = Joins /\ UNCHANGED <<team, lobbyGame, created, members, joined, unsure>>
          /\ listener' = [listener EXCEPT ![p] = "left"]
      BY <2>4, <3>1 DEF Lobby!Back, Joins, Lobby!server, Lobby!history
    <3>3. \A q \in Phones : listener'[q] = listener[q] \/ listener'[q] = "left"
      BY <1>1, <3>2 DEF Lobby!TypeOK
    <3> QED
      BY <3>2, <3>3, JoinsUntouched
  <2>5. CASE Lobby!TapStart(p) \/ Lobby!Connect(p) \/ Lobby!Cut(p)
    <3>1. Joins' = Joins /\ UNCHANGED <<listener, team, lobbyGame, created, members, joined, unsure>>
      BY <2>5 DEF Lobby!TapStart, Lobby!Connect, Lobby!Cut, Joins, Lobby!app, Lobby!server, Lobby!history
    <3> QED
      BY <1>3, <3>1
  <2>6. CASE Lobby!StartArrives(p)
    <3>1. Joins' = Joins /\ UNCHANGED <<team, lobbyGame, created, members, joined>>
      BY <2>6 DEF Lobby!StartArrives, Joins, Lobby!server
    <3>2. \/ UNCHANGED <<listener, unsure>>
          \/ /\ listener' = [listener EXCEPT ![p] = "map"]
             /\ unsure' = IF Lobby!Waiting(p, "join") THEN unsure \union {p} ELSE unsure
      BY <2>6 DEF Lobby!StartArrives
    <3>3. (\E c \in Joins : c.from = p) => Lobby!Waiting(p, "join")
      BY DEF Lobby!Waiting, Joins
    <3>4. unsure \subseteq unsure'
      BY <3>2
    <3>5. \A q \in Phones : \/ listener'[q] = listener[q]
                            \/ listener'[q] = "map" /\ ((\E c \in Joins : c.from = q) => q \in unsure')
      BY <1>1, <3>2, <3>3 DEF Lobby!TypeOK
    <3> QED
      BY <3>1, <3>4, <3>5, JoinsUntouched
  <2> QED
    BY <1>4, <1>5, <2>1, <2>2, <2>3, <2>4, <2>5, <2>6 DEF Lobby!Tap
<1>6. CASE Lobby!ServerRestart
  <2>1. Joins' = Joins /\ lobbyGame' = 0 /\ UNCHANGED <<listener, team, created, joined, unsure>>
    BY <1>6 DEF Lobby!ServerRestart, Joins, Lobby!app, Lobby!history
  <2>2. 0 <= created
    BY <1>1 DEF Lobby!TypeOK
  <2> QED
    BY <1>1, <2>1, <2>2 DEF JoinsInv, AnswersInv
<1>7. ASSUME NEW c \in calls, Lobby!Serve(c)
      PROVE  JoinsInv' /\ AnswersInv'
  <2>1. UNCHANGED <<listener, team, joined, unsure>> /\ ~c.answered /\ c.from \in Phones
    BY <1>1, <1>7 DEF Lobby!Serve, Lobby!app, Lobby!history
  <2>2. PICK d : d = Taken(c, lobbyGame')
    OBVIOUS
  <2>3. d.from = c.from /\ d.op = c.op /\ d.team = c.team /\ d.at = lobbyGame'
    <3>1. lobbyGame' \in Lobby!Games \union {0}
      BY <1>7 DEF Lobby!Serve
    <3> QED
      BY <1>1, <2>2, <3>1, CallAnswered
  <2>4. calls' = (calls \ {c}) \union IF c.op = "delete" THEN {} ELSE {d}
    BY <1>7, <2>2 DEF Lobby!Serve, Taken
  <2>5. created <= created' /\ lobbyGame' <= created' /\ created' \in Int /\ lobbyGame' \in Int
        /\ \/ UNCHANGED lobbyGame \/ lobbyGame' = 0 \/ lobbyGame' > created
    BY <1>1, <1>7 DEF Lobby!Serve, Lobby!TypeOK, JoinsInv
  <2>6. CASE c.op = "join"
    <3>1. /\ UNCHANGED <<lobbyGame, created>> /\ Joins' = (Joins \ {c}) \union {d} /\ c \in Joins
          /\ lobbyGame # 0 => members' = [members EXCEPT ![c.from] = c.team]
      BY <1>7, <2>3, <2>4, <2>6 DEF Lobby!Serve, Joins
    <3>2. JoinsInv'
      BY <1>1, <2>1, <2>3, <3>1 DEF JoinsInv
    <3>3. AnswersInv'
      <4> SUFFICES ASSUME Orderly PROVE AnswersInv'
        BY DEF AnswersInv
      <4>1. \A e, f \in Joins : e.from = f.from => e = f
        BY <1>1 DEF AnswersInv
      <4>2. \A e, f \in Joins' : e.from = f.from => e = f
        BY <2>3, <3>1, <4>1
      <4>3. \A e \in Joins' : e.answered /\ e.at = lobbyGame /\ lobbyGame # 0 => members'[e.from] = e.team
        BY <1>1, <2>1, <2>3, <3>1, <4>1 DEF AnswersInv, Lobby!TypeOK, Joins
      <4>4. \A q \in Phones :
              team[q] # "none" /\ joined[q] = lobbyGame /\ lobbyGame # 0 /\ q \notin unsure
                /\ (\A e \in Joins' : e.from # q) => members'[q] = team[q]
        BY <1>1, <2>1, <2>3, <3>1 DEF AnswersInv, Lobby!TypeOK
      <4> QED
        BY <2>1, <3>1, <4>2, <4>3, <4>4 DEF AnswersInv
    <3> QED
      BY <3>2, <3>3
  <2>7. CASE c.op # "join"
    <3>1. Joins' = Joins
      BY <2>3, <2>4, <2>7 DEF Joins
    <3>2. JoinsInv'
      BY <1>1, <2>1, <2>5, <3>1 DEF JoinsInv, Joins
    <3>3. CASE UNCHANGED lobbyGame /\ c.op \notin {"create", "delete"}
      <4>1. UNCHANGED members
        BY <1>7, <2>7, <3>3 DEF Lobby!Serve
      <4> QED
        BY <1>1, <2>1, <3>1, <3>2, <3>3, <4>1 DEF AnswersInv
    <3>4. CASE lobbyGame' = 0 \/ lobbyGame' > created
      <4>1. \A e \in Joins' : ~(e.at = lobbyGame' /\ lobbyGame' # 0)
        BY <1>1, <3>1, <3>4 DEF JoinsInv, Joins
      <4>2. \A q \in Phones : ~(joined[q] = lobbyGame' /\ lobbyGame' # 0)
        BY <1>1, <3>4 DEF JoinsInv
      <4> QED
        BY <1>1, <2>1, <3>1, <3>2, <4>1, <4>2 DEF AnswersInv
    <3>5. c.op \in {"create", "delete"} => lobbyGame' = 0 \/ lobbyGame' > created
      BY <1>1, <1>7 DEF Lobby!Serve
    <3> QED
      BY <2>5, <3>3, <3>4, <3>5
  <2> QED
    BY <2>6, <2>7
<1>8. ASSUME NEW c \in calls, Lobby!Fail(c) PROVE JoinsInv' /\ AnswersInv'
  <2>1. UNCHANGED <<listener, team, lobbyGame, created, members, joined>> /\ Joins' = Joins \ {c}
        /\ unsure' = IF c.op = "join" THEN unsure \union {c.from} ELSE unsure
    BY <1>8 DEF Lobby!Fail, Joins, Lobby!app, Lobby!server
  <2>2. JoinsInv'
    BY <1>1, <2>1 DEF JoinsInv
  <2>3. \A q \in Phones : q \notin unsure' /\ (\A e \in Joins' : e.from # q)
                            => q \notin unsure /\ (\A e \in Joins : e.from # q)
    BY <2>1 DEF Joins
  <2>4. AnswersInv'
    BY <1>1, <2>1, <2>3 DEF AnswersInv
  <2> QED
    BY <2>2, <2>4
<1>9. ASSUME NEW c \in calls, Lobby!CreateSuccess(c) PROVE JoinsInv' /\ AnswersInv'
  <2>1. Joins' = Joins /\ UNCHANGED <<lobbyGame, created, members, joined, unsure>>
    BY <1>9 DEF Lobby!CreateSuccess, Lobby!Returned, Joins, Lobby!server
  <2>2. CASE listener[c.from] = "dashboard"
    <3>1. Lobby!OpenLobby(c.from, TRUE) /\ TRUE \in BOOLEAN
      BY <1>9, <2>2, Zenon DEF Lobby!CreateSuccess, Lobby!Creator
    <3> QED
      BY <1>1, <1>2, <2>1, <3>1
  <2>3. CASE listener[c.from] # "dashboard"
    <3>1. UNCHANGED <<listener, team>>
      BY <1>9, <2>3 DEF Lobby!CreateSuccess, Lobby!app
    <3> QED
      BY <1>3, <2>1, <3>1
  <2> QED
    BY <2>2, <2>3
<1>10. ASSUME NEW c \in calls, Lobby!GetSuccess(c) PROVE JoinsInv' /\ AnswersInv'
  <2>1. Joins' = Joins /\ UNCHANGED <<listener, team, lobbyGame, created, members, joined, unsure>>
    BY <1>10 DEF Lobby!GetSuccess, Lobby!Returned, Joins, Lobby!server, Lobby!history
  <2> QED
    BY <1>3, <2>1
<1>11. ASSUME NEW c \in calls, Lobby!JoinSuccess(c) PROVE JoinsInv' /\ AnswersInv'
  <2>1. /\ c.answered /\ c \in Joins /\ c.from \in Phones
        /\ UNCHANGED <<listener, lobbyGame, created, members, unsure>>
    BY <1>1, <1>11 DEF Lobby!JoinSuccess, Lobby!Returned, Joins, Lobby!server
  <2>2. Lobby!Get(c.from).op = "get"
    BY <1>1, <2>1, GetMade DEF Lobby!TypeOK
  <2>3. Joins' = Joins \ {c}
    BY <1>11, <2>2 DEF Lobby!JoinSuccess, Joins
  <2>4. CASE listener[c.from] \in {"lobby", "left"}
    <3>1. team' = [team EXCEPT ![c.from] = c.team] /\ joined' = [joined EXCEPT ![c.from] = c.at]
      BY <1>11, <2>4 DEF Lobby!JoinSuccess, Lobby!TakeTeam
    <3>2. JoinsInv'
      BY <1>1, <2>1, <2>3, <3>1 DEF JoinsInv, Lobby!TypeOK
    <3>3. \A q \in Phones \ {c.from} : team'[q] = team[q] /\ joined'[q] = joined[q]
                                       /\ ((\A e \in Joins' : e.from # q) => \A e \in Joins : e.from # q)
      BY <1>1, <2>3, <3>1 DEF Lobby!TypeOK
    <3>4. team'[c.from] = c.team /\ joined'[c.from] = c.at
      BY <1>1, <2>1, <3>1 DEF Lobby!TypeOK
    <3>5. AnswersInv'
      BY <1>1, <2>1, <2>3, <3>3, <3>4 DEF AnswersInv
    <3> QED
      BY <3>2, <3>5
  <2>5. CASE listener[c.from] \notin {"lobby", "left"}
    <3>1. UNCHANGED <<team, joined>>
      BY <1>11, <2>5 DEF Lobby!JoinSuccess
    <3>2. c.from \in unsure
      BY <1>1, <2>1, <2>5 DEF JoinsInv, Lobby!TypeOK
    <3>3. JoinsInv'
      BY <1>1, <2>1, <2>3, <3>1 DEF JoinsInv
    <3>4. AnswersInv'
      BY <1>1, <2>1, <2>3, <3>1, <3>2 DEF AnswersInv
    <3> QED
      BY <3>3, <3>4
  <2> QED
    BY <2>4, <2>5
<1> QED
  BY <1>5, <1>6, <1>7, <1>8, <1>9, <1>10, <1>11 DEF Lobby!Next, Lobby!Answered

LEMMA LobbyInductive == ASSUME Lobby!CreatorsAssumption, LobbyInv, LobbyStep PROVE LobbyInv'
<1>1. CASE UNCHANGED Lobby!vars
  <2>1. UNCHANGED <<top, listener, hears, admin, team, seen, off, lobbyLink, subscribed, lobbyGame, created,
                    members, calls, starts, joined, unsure, summoned>>
    BY <1>1 DEF Lobby!vars, Lobby!app, Lobby!mqtt, Lobby!server, Lobby!history
  <2> QED
    BY <2>1 DEF LobbyInv, Lobby!TypeOK, ActivityInv, SummonedInv, JoinsInv, AnswersInv, Joins
<1> QED
  BY <1>1, PhonesKept, SummonedKept, JoinsKept DEF LobbyInv, LobbyStep

LEMMA LobbyMeans ==
    ASSUME LobbyInv PROVE Lobby!TypeOK /\ Lobby!TeamAgrees /\ Lobby!NobodyLeftBehind
<1>1. \A p \in Phones : ~Lobby!Waiting(p, "join") => \A c \in Joins : c.from # p
  BY DEF Lobby!Waiting, Joins
<1> QED
  BY <1>1 DEF LobbyInv, SummonedInv, AnswersInv, Lobby!TeamAgrees, Lobby!NobodyLeftBehind,
              Lobby!None, Lobby!NoGame, NoGame

(* A phone whose user waits for an answer before the next tap plays in the team in *)
(* which the server has it, unless a join was lost or START overtook its answer;   *)
(* and START takes every phone to the map that had a team and a subscription: for  *)
(* any numbers of phones, creators and games, with and without failures.           *)
THEOREM LobbySafe ==
    ASSUME Lobby!CreatorsAssumption
    PROVE  Lobby!Spec => [](Lobby!TypeOK /\ Lobby!TeamAgrees /\ Lobby!NobodyLeftBehind)
<1>1. Lobby!Init => LobbyInv
  BY LobbyInitial
<1>2. LobbyInv /\ [Lobby!Next]_Lobby!vars => LobbyInv'
  BY LobbyInductive DEF LobbyStep
<1> QED
  BY <1>1, <1>2, LobbyMeans, PTL DEF Lobby!Spec
-----------------------------------------------------------------------------
(* TagScan: nobody adds to the list again, and where each task is run before *)
(* the next is posted, it is the list of all the tags that have been found.  *)

Earlier(tags, t) ==
    {u \in tags : \E k, l \in DOMAIN Order : k < l /\ Order[k] = u /\ Order[l] = t}

LEMMA OrderOfTags ==
    ASSUME Scan!OrderAssumption
    PROVE  /\ Len(Order) \in Nat /\ DOMAIN Order = 1..Len(Order)
           /\ Scan!Tags = {Order[k] : k \in DOMAIN Order}
           /\ \A k, l \in DOMAIN Order : Order[k] = Order[l] => k = l
           /\ IsFiniteSet(Scan!Tags)
<1>1. Order \in Seq(Scan!Tags) /\ Scan!IsInjective(Order)
  BY DEF Scan!OrderAssumption
<1>2. Len(Order) \in Nat /\ DOMAIN Order = 1..Len(Order)
  BY <1>1, LenProperties
<1>3. Scan!Tags = {Order[k] : k \in DOMAIN Order}
  BY DEF Scan!Tags, Scan!ToSet
<1>4. \A k, l \in DOMAIN Order : Order[k] = Order[l] => k = l
  BY <1>1 DEF Scan!IsInjective
<1>5. IsFiniteSet(Scan!Tags)
  <2> DEFINE f == [k \in 1..Len(Order) |-> Order[k]]
  <2>1. f \in Surjection(1..Len(Order), Scan!Tags)
    BY <1>2, <1>3 DEF Surjection
  <2>2. IsFiniteSet(1..Len(Order))
    BY <1>2, FS_Interval
  <2> HIDE DEF f
  <2> QED
    BY <2>1, <2>2, FS_Surjection
<1> QED
  BY <1>2, <1>3, <1>4, <1>5

(* The number of tags before it finds each tag of a set. *)
LEMMA EachElement ==
    ASSUME Scan!OrderAssumption, NEW tags, tags \subseteq Scan!Tags
    PROVE  /\ Cardinality(tags) \in Nat
           /\ \A i \in 1..Cardinality(tags) : \E t \in tags : Cardinality(Earlier(tags, t)) = i - 1
<1>1. IsFiniteSet(tags) /\ Cardinality(tags) \in Nat
  BY OrderOfTags, FS_Subset, FS_CardinalityType
<1> DEFINE n == Cardinality(tags)
           f == [t \in tags |-> Cardinality(Earlier(tags, t))]
<1>2. ASSUME NEW t \in tags
      PROVE  /\ Earlier(tags, t) \subseteq tags \ {t}
             /\ IsFiniteSet(Earlier(tags, t))
             /\ Cardinality(Earlier(tags, t)) \in 0..(n - 1)
  <2>1. t \notin Earlier(tags, t)
    BY OrderOfTags DEF Earlier
  <2>2. Earlier(tags, t) \subseteq tags \ {t}
    BY <2>1 DEF Earlier
  <2>3. IsFiniteSet(tags \ {t}) /\ Cardinality(tags \ {t}) = n - 1
    BY <1>1, FS_RemoveElement
  <2>4. /\ IsFiniteSet(Earlier(tags, t))
        /\ Cardinality(Earlier(tags, t)) <= n - 1
    BY <2>2, <2>3, FS_Subset
  <2>5. Cardinality(Earlier(tags, t)) \in Nat
    BY <2>4, FS_CardinalityType
  <2> QED
    BY <1>1, <2>2, <2>4, <2>5
<1>3. ASSUME NEW t \in tags, NEW u \in tags, u \in Earlier(tags, t)
      PROVE  f[u] # f[t]
  <2>1. Earlier(tags, u) \subseteq Earlier(tags, t)
    <3>1. PICK k \in DOMAIN Order, l \in DOMAIN Order : k < l /\ Order[k] = u /\ Order[l] = t
      BY <1>3 DEF Earlier
    <3>2. ASSUME NEW v \in Earlier(tags, u) PROVE v \in Earlier(tags, t)
      <4>1. PICK j \in DOMAIN Order, m \in DOMAIN Order : j < m /\ Order[j] = v /\ Order[m] = u
        BY <3>2 DEF Earlier
      <4>2. m = k
        BY <3>1, <4>1, OrderOfTags
      <4>3. j < l
        BY <3>1, <4>1, <4>2, OrderOfTags
      <4> QED
        BY <3>1, <4>1, <4>3 DEF Earlier
    <3> QED
      BY <3>2
  <2>2. u \notin Earlier(tags, u)
    BY <1>2
  <2>3. Cardinality(Earlier(tags, u)) # Cardinality(Earlier(tags, t))
    BY <1>2, <1>3, <2>1, <2>2, FS_Subset
  <2> QED
    BY <2>3
<1>4. ASSUME NEW t \in tags, NEW u \in tags, f[t] = f[u] PROVE t = u
  <2>1. PICK k \in DOMAIN Order, l \in DOMAIN Order : Order[k] = t /\ Order[l] = u
    BY OrderOfTags
  <2>2. CASE k < l
    BY <2>1, <2>2, <1>3, <1>4 DEF Earlier
  <2>3. CASE l < k
    BY <2>1, <2>3, <1>3, <1>4 DEF Earlier
  <2>4. k \in Int /\ l \in Int
    BY OrderOfTags
  <2>5. CASE k = l
    BY <2>1, <2>5
  <2> QED
    BY <2>2, <2>3, <2>4, <2>5
<1>5. f \in Injection(tags, 0..(n - 1))
  BY <1>2, <1>4 DEF Injection, IsInjective
<1>6. IsFiniteSet(0..(n - 1)) /\ Cardinality(0..(n - 1)) = n
  BY <1>1, FS_Interval
<1>7. f \in Surjection(tags, 0..(n - 1))
  <2> HIDE DEF f
  <2> QED
    BY <1>5, <1>6, FS_Injection
<1>8. ASSUME NEW i \in 1..n PROVE \E t \in tags : Cardinality(Earlier(tags, t)) = i - 1
  <2>1. i - 1 \in 0..(n - 1)
    BY <1>1
  <2>2. \E t \in tags : f[t] = i - 1
    BY <1>7, <2>1 DEF Surjection
  <2> QED
    BY <2>2
<1> QED
  BY <1>1, <1>8

LEMMA ElementsListed ==
    ASSUME Scan!OrderAssumption, NEW tags, tags \subseteq Scan!Tags
    PROVE  Scan!Elements(tags) \in Seq(tags)
<1>1. \A S : Scan!Cardinality(S) = Cardinality(S)
  BY Zenon DEF Scan!Cardinality, Cardinality
<1>2. Scan!Elements(tags) = [i \in 1..Scan!Cardinality(tags) |->
                               CHOOSE t \in tags : Scan!Cardinality(Earlier(tags, t)) = i - 1]
  BY Zenon DEF Scan!Elements, Earlier
<1>3. \A i \in 1..Scan!Cardinality(tags) : \E t \in tags : Scan!Cardinality(Earlier(tags, t)) = i - 1
  BY <1>1, EachElement
<1>4. \A i \in 1..Scan!Cardinality(tags) :
        (CHOOSE t \in tags : Scan!Cardinality(Earlier(tags, t)) = i - 1) \in tags
  BY <1>3, Zenon
<1>5. Scan!Elements(tags) \in [1..Scan!Cardinality(tags) -> tags]
  BY <1>2, <1>4
<1>6. Scan!Cardinality(tags) \in Nat
  BY <1>1, EachElement
<1> QED
  BY <1>5, <1>6, SeqDef

(* The list, once it is there, is what Elements tells as long as no task can be *)
(* queued behind the check that fills it.                                       *)
ListIsCurrent ==
    MaxTasks = 1 =>
        /\ Len(scanQueue) <= 1 /\ Scan!TappedIsConnected
        /\ listAdapter # <<>> => scanQueue = <<>> /\ listAdapter = Scan!Elements(foundTags)

ScanInv == Scan!TypeOK /\ listAdapter \in Seq(Scan!Tags) /\ ListIsCurrent

ScanStep == Scan!Next \/ UNCHANGED Scan!vars

LEMMA ScanInitial == ASSUME Scan!OrderAssumption, Scan!Init PROVE ScanInv
<1>1. scanQueue = <<>> /\ listAdapter = <<>> /\ foundTags = {} /\ connected = Scan!None
      /\ tapped = Scan!None
  BY DEF Scan!Init
<1>2. Scan!ToSet(listAdapter) = {}
  BY <1>1 DEF Scan!ToSet
<1>3. Scan!TypeOK
  BY <1>1, <1>2, EmptySeq DEF Scan!TypeOK, Scan!Init
<1>4. listAdapter \in Seq(Scan!Tags)
  BY <1>1, EmptySeq
<1>5. ListIsCurrent
  BY <1>1 DEF ListIsCurrent, Scan!TappedIsConnected
<1> QED
  BY <1>3, <1>4, <1>5 DEF ScanInv

(* A result of the scanner or the timer's check comes into the queue. *)
LEMMA PostKeeps ==
    ASSUME Scan!OrderAssumption, ScanInv, NEW task \in Scan!Tags \union {Scan!Check},
           Scan!Post(task), scanning \/ timer,
           UNCHANGED <<scanDialog, scanning, timer, foundTags, listAdapter, tapped, connected,
                       scanCrashed>>
    PROVE  ScanInv'
<1>1. /\ Scan!TypeOK /\ listAdapter = <<>> /\ MaxTasks \in Nat
      /\ scanQueue \in Seq(Scan!Tags \union {Scan!Check})
      /\ scanQueue' = Append(scanQueue, task) /\ Len(scanQueue) < MaxTasks
  BY DEF ScanInv, Scan!TypeOK, Scan!Post, Scan!OrderAssumption
<1>2. /\ scanQueue' \in Seq(Scan!Tags \union {Scan!Check})
      /\ Len(scanQueue') = Len(scanQueue) + 1 /\ Len(scanQueue) \in Nat
  BY <1>1, AppendProperties, LenProperties
<1>3. Scan!TypeOK'
  BY <1>1, <1>2 DEF Scan!TypeOK
<1>4. ListIsCurrent'
  BY <1>1, <1>2 DEF ScanInv, ListIsCurrent, Scan!TappedIsConnected
<1> QED
  BY <1>3, <1>4 DEF ScanInv

LEMMA TaskKeeps ==
    ASSUME Scan!OrderAssumption, ScanInv, Scan!Task
    PROVE  ScanInv'
<1>1. /\ Scan!TypeOK /\ ListIsCurrent /\ foundTags \subseteq Scan!Tags
      /\ scanQueue \in Seq(Scan!Tags \union {Scan!Check}) /\ scanQueue # <<>>
      /\ scanQueue' = Tail(scanQueue) /\ UNCHANGED <<scanDialog, tapped, connected>>
      /\ listAdapter \in Seq(Scan!Tags)
      /\ Scan!ToSet(listAdapter) \subseteq foundTags
  BY DEF ScanInv, Scan!TypeOK, Scan!Task
<1>2. /\ Head(scanQueue) \in Scan!Tags \union {Scan!Check}
      /\ scanQueue' \in Seq(Scan!Tags \union {Scan!Check})
      /\ Len(scanQueue) \in Nat /\ Len(scanQueue') = Len(scanQueue) - 1
  BY <1>1, HeadTailProperties, LenProperties
<1>3. MaxTasks = 1 => listAdapter = <<>> /\ Len(scanQueue') <= 1 /\ Len(scanQueue') = 0
  <2>1. Len(scanQueue) # 0
    BY <1>1, EmptySeq
  <2> QED
    BY <1>1, <1>2, <2>1 DEF ListIsCurrent
<1>4. MaxTasks = 1 => scanQueue' = <<>>
  BY <1>2, <1>3, EmptySeq
<1>5. CASE Head(scanQueue) # Scan!Check /\ foundTags' = foundTags \union {Head(scanQueue)}
           /\ UNCHANGED <<scanning, timer, listAdapter, scanCrashed>>
  <2>1. Scan!ToSet(listAdapter') = Scan!ToSet(listAdapter)
    BY <1>5
  <2>2. Scan!TypeOK'
    BY <1>1, <1>2, <1>5, <2>1 DEF Scan!TypeOK
  <2>3. ListIsCurrent'
    BY <1>1, <1>3, <1>5 DEF ListIsCurrent, Scan!TappedIsConnected
  <2> QED
    BY <1>1, <1>5, <2>2, <2>3 DEF ScanInv
<1>6. CASE /\ scanning' = Scan!ScanStopped /\ timer' = FALSE
           /\ listAdapter' = listAdapter \o Scan!Elements(foundTags)
           /\ scanCrashed' = (scanDialog = "closed") /\ UNCHANGED foundTags
  <2>1. Scan!Elements(foundTags) \in Seq(foundTags)
    BY <1>1, ElementsListed
  <2>2. listAdapter \in Seq(foundTags)
    <3>1. listAdapter \in [1..Len(listAdapter) -> Scan!Tags] /\ Len(listAdapter) \in Nat
      BY <1>1, LenProperties
    <3>2. \A i \in 1..Len(listAdapter) : listAdapter[i] \in foundTags
      BY <1>1, <3>1 DEF Scan!ToSet
    <3>3. listAdapter \in [1..Len(listAdapter) -> foundTags]
      BY <3>1, <3>2
    <3> QED
      BY <3>1, <3>3, SeqDef
  <2>3. listAdapter' \in Seq(foundTags)
    BY <1>6, <2>1, <2>2, ConcatProperties
  <2>4. Scan!ToSet(listAdapter') \subseteq foundTags
    <3>1. DOMAIN listAdapter' = 1..Len(listAdapter')
      BY <2>3, LenProperties
    <3>2. \A i \in 1..Len(listAdapter') : listAdapter'[i] \in foundTags
      BY <2>3, ElementOfSeq
    <3> QED
      BY <3>1, <3>2 DEF Scan!ToSet
  <2>5. listAdapter' \in Seq(Scan!Tags)
    <3>1. Len(listAdapter') \in Nat /\ listAdapter' \in [1..Len(listAdapter') -> foundTags]
      BY <2>3, LenProperties
    <3>2. listAdapter' \in [1..Len(listAdapter') -> Scan!Tags]
      BY <1>1, <3>1
    <3> QED
      BY <3>1, <3>2, SeqDef
  <2>6. Scan!TypeOK'
    BY <1>1, <1>2, <1>6, <2>4 DEF Scan!TypeOK, Scan!ScanStopped
  <2>7. MaxTasks = 1 => listAdapter' = Scan!Elements(foundTags)
    <3>1. <<>> \o Scan!Elements(foundTags) = Scan!Elements(foundTags)
      BY <2>1, ConcatEmptySeq
    <3> QED
      BY <1>3, <1>6, <3>1
  <2>8. Scan!Elements(foundTags') = Scan!Elements(foundTags)
    BY <1>6
  <2>9. ListIsCurrent'
    <3>1. (Scan!Elements(foundTags))' = Scan!Elements(foundTags)
      BY <1>6 DEF Scan!Elements
    <3> QED
      BY <1>1, <1>3, <1>4, <2>7, <3>1 DEF ListIsCurrent, Scan!TappedIsConnected
  <2> QED
    BY <2>5, <2>6, <2>9 DEF ScanInv
<1>7. CASE UNCHANGED <<scanning, timer, foundTags, listAdapter, scanCrashed>>
  <2>1. Scan!TypeOK'
    BY <1>1, <1>2, <1>7 DEF Scan!TypeOK, Scan!ToSet
  <2>2. ListIsCurrent'
    BY <1>1, <1>3, <1>7 DEF ListIsCurrent, Scan!TappedIsConnected
  <2> QED
    BY <1>1, <1>7, <2>1, <2>2 DEF ScanInv
<1> QED
  BY <1>5, <1>6, <1>7 DEF Scan!Task

LEMMA TapKeeps ==
    ASSUME Scan!OrderAssumption, ScanInv, NEW i \in 1..Len(listAdapter), Scan!TapTag(i)
    PROVE  ScanInv'
<1>1. /\ Scan!TypeOK /\ ListIsCurrent /\ foundTags \subseteq Scan!Tags
      /\ listAdapter \in Seq(Scan!Tags)
      /\ tapped' = listAdapter[i]
      /\ UNCHANGED <<scanning, timer, scanQueue, foundTags, listAdapter>>
  BY DEF ScanInv, Scan!TypeOK, Scan!TapTag
<1>2. tapped' \in Scan!Tags /\ listAdapter # <<>>
  BY <1>1, ElementOfSeq, EmptySeq
<1>3. Scan!Elements(foundTags) \in Seq(foundTags)
  BY <1>1, ElementsListed
<1>4. Scan!ToSet(listAdapter') = Scan!ToSet(listAdapter)
  BY <1>1
<1>5. (Scan!Elements(foundTags))' = Scan!Elements(foundTags)
  BY <1>1 DEF Scan!Elements
<1>6. MaxTasks = 1 => listAdapter = Scan!Elements(foundTags) /\ scanQueue = <<>>
  BY <1>1, <1>2 DEF ListIsCurrent
<1>7. CASE i <= Len(Scan!Elements(foundTags))
  <2>1. /\ scanDialog' = "connecting" /\ connected' = Scan!Elements(foundTags)[i]
        /\ UNCHANGED scanCrashed
    BY <1>7 DEF Scan!TapTag
  <2>2. connected' \in Scan!Tags
    <3>1. i \in 1..Len(Scan!Elements(foundTags))
      BY <1>1, <1>3, <1>7, LenProperties
    <3> QED
      BY <1>1, <1>3, <2>1, <3>1, ElementOfSeq
  <2>3. Scan!TypeOK'
    BY <1>1, <1>2, <1>4, <2>1, <2>2 DEF Scan!TypeOK
  <2>4. ListIsCurrent'
    BY <1>1, <1>5, <1>6, <2>1 DEF ListIsCurrent, Scan!TappedIsConnected
  <2> QED
    BY <1>1, <2>3, <2>4 DEF ScanInv
<1>8. CASE ~(i <= Len(Scan!Elements(foundTags)))
  <2>1. scanCrashed' = TRUE /\ UNCHANGED <<scanDialog, connected>>
    BY <1>8 DEF Scan!TapTag
  <2>2. Scan!TypeOK'
    BY <1>1, <1>2, <1>4, <2>1 DEF Scan!TypeOK
  <2>3. MaxTasks # 1
    BY <1>1, <1>6, <1>8, LenProperties
  <2> QED
    BY <1>1, <2>2, <2>3 DEF ScanInv, ListIsCurrent
<1> QED
  BY <1>7, <1>8

LEMMA ScanInductive == ASSUME Scan!OrderAssumption, ScanInv, ScanStep PROVE ScanInv'
<1>1. CASE \E t \in Scan!Tags : Scan!Result(t)
  BY <1>1, PostKeeps DEF Scan!Result
<1>2. CASE Scan!Period
  BY <1>2, PostKeeps DEF Scan!Period
<1>3. CASE Scan!Task
  BY <1>3, TaskKeeps
<1>4. CASE \E i \in 1..Len(listAdapter) : Scan!TapTag(i)
  BY <1>4, TapKeeps
<1>5. CASE Scan!Detach \/ UNCHANGED Scan!vars
  <2>1. /\ scanDialog' \in {"open", "connecting", "closed"} /\ (timer' = timer \/ timer' = FALSE)
        /\ UNCHANGED <<scanning, scanQueue, foundTags, listAdapter, tapped, connected, scanCrashed>>
    BY <1>5 DEF Scan!Detach, Scan!vars, ScanInv, Scan!TypeOK
  <2>2. Scan!TypeOK'
    <3>1. CASE timer' = timer
      BY <2>1, <3>1 DEF ScanInv, Scan!TypeOK, Scan!ToSet
    <3>2. CASE timer' = FALSE
      BY <2>1, <3>2 DEF ScanInv, Scan!TypeOK, Scan!ToSet
    <3> QED
      BY <2>1, <3>1, <3>2
  <2>3. (Scan!Elements(foundTags))' = Scan!Elements(foundTags)
    BY <2>1 DEF Scan!Elements
  <2>4. ListIsCurrent'
    BY <2>1, <2>3 DEF ScanInv, ListIsCurrent, Scan!TappedIsConnected
  <2> QED
    BY <2>1, <2>2, <2>4 DEF ScanInv
<1> QED
  BY <1>1, <1>2, <1>3, <1>4, <1>5 DEF ScanStep, Scan!Next

LEMMA ScanMeans == ScanInv => Scan!TypeOK /\ (MaxTasks = 1 => Scan!TappedIsConnected)
BY DEF ScanInv, ListIsCurrent

(* Whatever tags are around and however late the main thread's tasks are, what is *)
(* listed was found and neither the scan nor the timer survives it; and where each *)
(* task is run before the next is posted, the tag that is connected was tapped.    *)
THEOREM ScanSafe ==
    ASSUME Scan!OrderAssumption
    PROVE  Scan!Spec => [](Scan!TypeOK /\ (MaxTasks = 1 => Scan!TappedIsConnected))
<1>1. Scan!Init => ScanInv
  BY ScanInitial
<1>2. ScanInv /\ [Scan!Next]_Scan!vars => ScanInv'
  BY ScanInductive DEF ScanStep
<1> QED
  BY <1>1, <1>2, ScanMeans, PTL DEF Scan!Spec

-----------------------------------------------------------------------------
(* TagLink: unless a read was lost, the tag's number of anchors is read before *)
(* anything asks the tag to range.                                             *)

(* The message has room for the ranges of all pairs: tag_to_ble_msg_t. *)
MessageLong == Len(Message) >= Link!Pairs(AnchorCount) + 2

(* The dialog is there until the link is ready for the first time; then the read *)
(* is first in the queue, and nothing was notified.                              *)
BeforeReady ==
    linkDialog /\ requests = <<>> /\ tagLink # "ready"
ReadIsNext ==
    ~linkDialog /\ requests # <<>> /\ Head(requests) = "info" /\ tagLink = "ready"
CountRead == ~linkDialog /\ anchorCount = AnchorCount

CountKnown ==
    ~missed => \/ CountRead
               \/ (BeforeReady \/ ReadIsNext) /\ tag = "off" /\ air = 0 /\ handed = Link!NoData

DialogGone == linkDialog => requests = <<>> /\ tagLink # "ready"

LinkInv == Link!TypeOK /\ Link!CutToAnchors /\ CountKnown /\ DialogGone

LinkStep == Link!Next \/ UNCHANGED Link!vars

LEMMA PairsBounded ==
    ASSUME Link!BoundsAssumption, MessageLong, Link!MessageAssumption, anchorCount \in {0, AnchorCount}
    PROVE  /\ AnchorCount \in Nat /\ Link!Pairs(anchorCount) \in Nat
           /\ Len(Message) \in Nat /\ Len(Message) >= Link!Pairs(anchorCount) + 2
<1>1. AnchorCount \in Nat /\ Len(Message) \in Nat
  BY LenProperties DEF Link!BoundsAssumption, Link!MessageAssumption
<1>2. ASSUME NEW n \in Nat PROVE Link!Pairs(n) \in Nat
  <2>1. n * (n - 1) \in Nat
    <3>1. CASE n = 0
      BY <3>1
    <3>2. CASE n # 0
      <4>1. n - 1 \in Nat
        BY <3>2
      <4> HIDE <3>2
      <4> QED
        BY <4>1
    <3> QED
      BY <3>1, <3>2
  <2> DEFINE k == n * (n - 1)
  <2>2. k \in Nat
    BY <2>1
  <2> HIDE DEF k
  <2>3. k \div 2 \in Nat
    BY <2>2
  <2> QED
    BY <2>3 DEF Link!Pairs, k
<1>3. Link!Pairs(0) = 0
  BY DEF Link!Pairs
<1> QED
  BY <1>1, <1>2, <1>3 DEF MessageLong

LEMMA LinkInitial == ASSUME Link!BoundsAssumption, MapFirst \in BOOLEAN, Link!Init PROVE LinkInv
<1>1. requests = <<>> /\ requests \in Seq({"info", "start"})
  BY EmptySeq DEF Link!Init
<1>2. Link!TypeOK
  <2>1. {map, linkDialog, missed} \subseteq BOOLEAN
    BY Zenon DEF Link!Init
  <2>2. air \in 0..MaxAir /\ drops \in 0..MaxDrops /\ maps \in 0..MaxMaps
    BY DEF Link!Init, Link!BoundsAssumption
  <2> QED
    BY <1>1, <2>1, <2>2 DEF Link!Init, Link!TypeOK
<1>3. Link!CutToAnchors
  BY DEF Link!Init, Link!CutToAnchors
<1>4. CountKnown /\ DialogGone
  BY DEF Link!Init, CountKnown, DialogGone, BeforeReady
<1> QED
  BY <1>2, <1>3, <1>4 DEF LinkInv

LEMMA ConnectKeeps == ASSUME LinkInv, Link!Connect PROVE LinkInv'
<1> USE DEF Link!Connect
<1>1. Link!TypeOK'
  BY DEF LinkInv, Link!TypeOK
<1>2. Link!CutToAnchors'
  BY DEF LinkInv, Link!CutToAnchors, Link!NoData, Link!Pairs
<1>3. CountKnown' /\ DialogGone'
  BY DEF LinkInv, CountKnown, DialogGone, BeforeReady, ReadIsNext, CountRead, Link!NoData
<1> QED
  BY <1>1, <1>2, <1>3 DEF LinkInv

LEMMA ReadyKeeps == ASSUME LinkInv, Link!Ready PROVE LinkInv'
<1>1. /\ requests \in Seq({"info", "start"}) /\ tagLink = "up" /\ tagLink' = "ready"
      /\ linkDialog' = FALSE /\ requests' = requests \o Link!OnReady
      /\ UNCHANGED <<missed, modeCharacteristic, anchorCount, map, tag, air, handed, drops, maps,
                     linkCrashed>>
  BY DEF Link!Ready, LinkInv, Link!TypeOK
<1>2. Link!OnReady \in Seq({"info", "start"}) /\ Link!OnReady # <<>> /\ Head(Link!OnReady) = "info"
  <2>1. Link!Starts \in {<<>>, <<"start">>, <<"start", "start">>}
    BY DEF Link!Starts
  <2>2. Link!Starts \in Seq({"info", "start"})
    <3>1. <<>> \in Seq({"info", "start"}) /\ <<"start">> \in Seq({"info", "start"})
      BY EmptySeq
    <3>2. <<"start", "start">> \in Seq({"info", "start"})
      OBVIOUS
    <3> QED
      BY <2>1, <3>1, <3>2, Zenon
  <2>3. <<"info">> \in Seq({"info", "start"}) /\ Len(<<"info">>) = 1 /\ <<"info">>[1] = "info"
    OBVIOUS
  <2>4. /\ Link!OnReady \in Seq({"info", "start"})
        /\ Len(Link!OnReady) = 1 + Len(Link!Starts) /\ Link!OnReady[1] = "info"
    BY <2>2, <2>3, ConcatProperties, LenProperties DEF Link!OnReady
  <2>5. Len(Link!OnReady) # 0
    BY <2>2, <2>4, LenProperties
  <2> QED
    BY <2>4, <2>5, EmptySeq
<1>3. requests' \in Seq({"info", "start"})
  BY <1>1, <1>2, ConcatProperties
<1>4. Link!TypeOK'
  BY <1>1, <1>3 DEF LinkInv, Link!TypeOK
<1>5. Link!CutToAnchors'
  BY <1>1 DEF LinkInv, Link!CutToAnchors, Link!NoData, Link!Pairs
<1>6. requests = <<>> => requests' = Link!OnReady
  BY <1>1, <1>2, ConcatEmptySeq
<1>7. CountKnown' /\ DialogGone'
  BY <1>1, <1>2, <1>6
     DEF LinkInv, CountKnown, DialogGone, BeforeReady, ReadIsNext, CountRead, Link!NoData
<1> QED
  BY <1>4, <1>5, <1>7 DEF LinkInv

LEMMA ReadInfoKeeps == ASSUME LinkInv, Link!ReadInfo PROVE LinkInv'
<1>1. /\ requests \in Seq({"info", "start"}) /\ requests # <<>> /\ requests' = Tail(requests)
      /\ tagLink = "ready" /\ ~linkDialog
      /\ \/ anchorCount' = AnchorCount /\ UNCHANGED missed
         \/ missed' = TRUE /\ UNCHANGED anchorCount
      /\ UNCHANGED <<tagLink, modeCharacteristic, map, linkDialog, tag, air, handed, drops, maps,
                     linkCrashed>>
  BY DEF Link!ReadInfo, LinkInv, Link!TypeOK, DialogGone
<1>2. requests' \in Seq({"info", "start"})
  BY <1>1, HeadTailProperties
<1>3. Link!TypeOK'
  BY <1>1, <1>2 DEF LinkInv, Link!TypeOK
<1>4. Link!CutToAnchors'
  BY <1>1 DEF LinkInv, Link!CutToAnchors, Link!NoData, Link!Pairs
<1>5. CountKnown' /\ DialogGone'
  BY <1>1 DEF CountKnown, DialogGone, CountRead
<1> QED
  BY <1>3, <1>4, <1>5 DEF LinkInv

LEMMA WriteModeKeeps == ASSUME LinkInv, Link!WriteMode PROVE LinkInv'
<1>1. /\ requests \in Seq({"info", "start"}) /\ requests # <<>> /\ requests' = Tail(requests)
      /\ tagLink = "ready" /\ ~linkDialog /\ Head(requests) = "start"
      /\ modeCharacteristic' = "ranging" /\ (tag' = "ranging" \/ UNCHANGED tag)
      /\ UNCHANGED <<missed, tagLink, anchorCount, map, linkDialog, air, handed, drops, maps,
                     linkCrashed>>
  BY DEF Link!WriteMode, Link!Cached, LinkInv, Link!TypeOK, DialogGone
<1>2. requests' \in Seq({"info", "start"})
  BY <1>1, HeadTailProperties
<1>3. Link!TypeOK'
  BY <1>1, <1>2 DEF LinkInv, Link!TypeOK
<1>4. Link!CutToAnchors'
  BY <1>1 DEF LinkInv, Link!CutToAnchors, Link!NoData, Link!Pairs
<1>5. CountKnown' /\ DialogGone'
  BY <1>1 DEF LinkInv, CountKnown, DialogGone, BeforeReady, ReadIsNext, CountRead
<1> QED
  BY <1>3, <1>4, <1>5 DEF LinkInv

LEMMA DropKeeps == ASSUME Link!BoundsAssumption, LinkInv, Link!Drop PROVE LinkInv'
<1>1. /\ requests \in Seq({"info", "start"}) /\ requests' = <<>> /\ tag' = "off" /\ air' = 0
      /\ tagLink' = "down"
      /\ missed' = (missed \/ \E i \in 1..Len(requests) : requests[i] = "info")
      /\ UNCHANGED <<modeCharacteristic, anchorCount, map, linkDialog, handed, maps, linkCrashed>>
  BY DEF Link!Drop, LinkInv, Link!TypeOK
<1>2. missed' \in BOOLEAN /\ (~missed' => ~missed)
  BY <1>1 DEF LinkInv, Link!TypeOK
<1>3. requests' \in Seq({"info", "start"})
  BY <1>1, EmptySeq
<1>4. drops' \in 0..MaxDrops /\ air' \in 0..MaxAir
  BY <1>1 DEF Link!Drop, LinkInv, Link!TypeOK, Link!BoundsAssumption
<1>5. {map', linkDialog', missed'} \subseteq BOOLEAN
  BY <1>1, <1>2 DEF LinkInv, Link!TypeOK
<1>6. Link!TypeOK'
  BY <1>1, <1>3, <1>4, <1>5 DEF LinkInv, Link!TypeOK
<1>7. Link!CutToAnchors'
  BY <1>1, <1>2 DEF LinkInv, Link!CutToAnchors, Link!NoData, Link!Pairs
<1>8. ReadIsNext => missed'
  <2>1. ASSUME ReadIsNext PROVE 1 \in 1..Len(requests) /\ requests[1] = "info"
    <3>1. Head(requests) = requests[1] /\ Len(requests) \in Nat /\ Len(requests) # 0
      BY <1>1, <2>1, EmptySeq, LenProperties DEF ReadIsNext
    <3> QED
      BY <2>1, <3>1 DEF ReadIsNext
  <2> QED
    BY <1>1, <2>1
<1>9. CountKnown' /\ DialogGone'
  BY <1>1, <1>2, <1>8
     DEF LinkInv, CountKnown, DialogGone, BeforeReady, CountRead, Link!NoData
<1> QED
  BY <1>6, <1>7, <1>9 DEF LinkInv

LEMMA NotifyKeeps == ASSUME Link!BoundsAssumption, LinkInv, Link!Notify PROVE LinkInv'
<1>1. Link!TypeOK'
  BY DEF Link!Notify, LinkInv, Link!TypeOK, Link!BoundsAssumption
<1>2. Link!CutToAnchors'
  BY DEF Link!Notify, LinkInv, Link!CutToAnchors, Link!NoData, Link!Pairs
<1>3. CountKnown' /\ DialogGone'
  BY DEF Link!Notify, LinkInv, CountKnown, DialogGone, CountRead
<1> QED
  BY <1>1, <1>2, <1>3 DEF LinkInv

LEMMA ReceiveKeeps ==
    ASSUME Link!BoundsAssumption, Link!MessageAssumption, MessageLong, LinkInv, Link!Receive
    PROVE  LinkInv'
<1>1. /\ Link!TypeOK /\ anchorCount \in {0, AnchorCount} /\ air > 0 /\ air \in 0..MaxAir
      /\ air' = air - 1
      /\ UNCHANGED <<missed, tagLink, modeCharacteristic, requests, anchorCount, map, linkDialog,
                     tag, drops, maps>>
  BY DEF Link!Receive, LinkInv, Link!TypeOK
<1>2. /\ AnchorCount \in Nat /\ Link!Pairs(anchorCount) \in Nat /\ Len(Message) \in Nat
      /\ Len(Message) >= Link!Pairs(anchorCount) + 2
  BY <1>1, PairsBounded
<1>3. /\ linkCrashed' = linkCrashed
      /\ handed' = Link!Parse(Message, anchorCount) \/ handed' = handed
  BY <1>2 DEF Link!Receive
<1>4. air' \in 0..MaxAir
  BY <1>1 DEF Link!BoundsAssumption
<1>5. Link!TypeOK'
  BY <1>1, <1>3, <1>4 DEF Link!TypeOK
<1>6. ~missed => CountRead
  BY <1>1 DEF LinkInv, CountKnown
<1>7. Link!CutToAnchors'
  <2>1. CASE handed' = handed
    BY <1>1, <2>1 DEF LinkInv, Link!CutToAnchors, Link!NoData, Link!Pairs
  <2>2. CASE handed' = Link!Parse(Message, anchorCount)
    <3> DEFINE p == Link!Pairs(anchorCount)
    <3>1. Len(SubSeq(Message, 2, p + 2)) = p + 1
      <4>1. \E S : Message \in Seq(S)
        BY DEF Link!MessageAssumption
      <4> HIDE DEF p
      <4>2. p \in Nat /\ Len(Message) >= p + 2 /\ Len(Message) \in Nat
        BY <1>2 DEF p
      <4> QED
        BY <4>1, <4>2, SubSeqProperties
    <3>2. handed'.ranges = SubSeq(Message, 2, p + 2)
      BY <2>2 DEF Link!Parse
    <3>3. ~missed' => Link!Pairs(AnchorCount) = p
      BY <1>1, <1>6 DEF CountRead
    <3> QED
      BY <3>1, <3>2, <3>3 DEF Link!CutToAnchors, Link!Pairs
  <2> QED
    BY <1>3, <2>1, <2>2
<1>8. CountKnown' /\ DialogGone'
  BY <1>1, <1>6 DEF LinkInv, CountKnown, DialogGone, CountRead
<1> QED
  BY <1>5, <1>7, <1>8 DEF LinkInv

LEMMA OpenMapKeeps == ASSUME Link!BoundsAssumption, LinkInv, Link!OpenMap PROVE LinkInv'
<1>1. /\ requests \in Seq({"info", "start"}) /\ ~linkDialog
      /\ requests' = requests \/ requests' = Append(requests, "start")
      /\ map' = TRUE /\ maps' \in 0..MaxMaps
      /\ UNCHANGED <<missed, tagLink, modeCharacteristic, anchorCount, linkDialog, tag, air, handed,
                     drops, linkCrashed>>
  BY DEF Link!OpenMap, Link!Queued, LinkInv, Link!TypeOK, Link!BoundsAssumption
<1>2. requests' \in Seq({"info", "start"})
  BY <1>1, AppendProperties
<1>3. requests # <<>> => requests' # <<>> /\ Head(requests') = Head(requests)
  <2>1. CASE requests' = Append(requests, "start")
    <3>1. ASSUME requests # <<>> PROVE requests'[1] = requests[1] /\ requests' # <<>>
      <4>1. Len(requests) \in Nat /\ Len(requests) # 0
        BY <1>1, <3>1, EmptySeq, LenProperties
      <4>2. 1 \in 1..Len(requests)
        BY <4>1
      <4> QED
        BY <1>1, <2>1, <4>2, AppendProperties
    <3> QED
      BY <1>1, <1>2, <3>1
  <2> QED
    BY <1>1, <2>1
<1>4. Link!TypeOK'
  BY <1>1, <1>2 DEF LinkInv, Link!TypeOK
<1>5. Link!CutToAnchors'
  BY <1>1 DEF LinkInv, Link!CutToAnchors, Link!NoData, Link!Pairs
<1>6. CountKnown' /\ DialogGone'
  BY <1>1, <1>3 DEF LinkInv, CountKnown, DialogGone, BeforeReady, ReadIsNext, CountRead, Link!NoData
<1> QED
  BY <1>4, <1>5, <1>6 DEF LinkInv

LEMMA CloseMapKeeps == ASSUME LinkInv, Link!CloseMap \/ UNCHANGED Link!vars PROVE LinkInv'
<1>1. /\ map' \in BOOLEAN
      /\ UNCHANGED <<missed, tagLink, modeCharacteristic, requests, anchorCount, linkDialog, tag, air,
                     handed, drops, maps, linkCrashed>>
  BY DEF Link!CloseMap, Link!vars, LinkInv, Link!TypeOK
<1>2. Link!TypeOK'
  BY <1>1 DEF LinkInv, Link!TypeOK
<1>3. Link!CutToAnchors'
  BY <1>1 DEF LinkInv, Link!CutToAnchors, Link!NoData, Link!Pairs
<1>4. CountKnown' /\ DialogGone'
  BY <1>1 DEF LinkInv, CountKnown, DialogGone, BeforeReady, ReadIsNext, CountRead, Link!NoData
<1> QED
  BY <1>2, <1>3, <1>4 DEF LinkInv

LEMMA LinkInductive ==
    ASSUME Link!BoundsAssumption, Link!MessageAssumption, MessageLong, LinkInv, LinkStep
    PROVE  LinkInv'
<1>1. CASE Link!Library
  BY <1>1, ConnectKeeps, ReadyKeeps, ReadInfoKeeps, WriteModeKeeps DEF Link!Library
<1>2. CASE Link!Drop \/ Link!Notify \/ Link!Receive
  BY <1>2, DropKeeps, NotifyKeeps, ReceiveKeeps
<1>3. CASE Link!OpenMap \/ Link!CloseMap \/ UNCHANGED Link!vars
  BY <1>3, OpenMapKeeps, CloseMapKeeps
<1> QED
  BY <1>1, <1>2, <1>3 DEF LinkStep, Link!Next

LEMMA LinkMeans == LinkInv => Link!TypeOK /\ Link!CutToAnchors
BY DEF LinkInv

(* However the connection is lost and made again and maps are opened and closed,  *)
(* no notification is too short for what is expected, and as many of its fields   *)
(* are handed on as the tag's own anchors have pairs, and one more, unless a read *)
(* of their number was lost.  Whether that is what the map needs is not said.     *)
THEOREM LinkSafe ==
    ASSUME Link!BoundsAssumption, Link!MessageAssumption, MessageLong, MapFirst \in BOOLEAN
    PROVE  Link!Spec => [](Link!TypeOK /\ Link!CutToAnchors)
<1>1. Link!Init => LinkInv
  BY LinkInitial
<1>2. LinkInv /\ [Link!Next]_Link!vars => LinkInv'
  BY LinkInductive DEF LinkStep
<1> QED
  BY <1>1, <1>2, LinkMeans, PTL DEF Link!Spec
-----------------------------------------------------------------------------
(* PositionCalc: the measurement that was computed last is the newest, and a *)
(* position that still moves, but by less than 100 m, is not kept: the loop  *)
(* has used up its rounds.                                                   *)

CalcInv ==
    /\ Calc!TypeOK
    /\ posted = 0 /\ pc # "crashed" => used = data
    /\ pc = "iterate" => iter < MAXITER /\ rows >= 3
    /\ pc = "finish" /\ iter # MAXITER => position.by # "middle"
    /\ pc = "finish" /\ rows < 3 => position = qPrev
    /\ Calc!MiddleDropped
    /\ Len(window) = IF results < WINDOW_SIZE THEN results ELSE WINDOW_SIZE - 1
    /\ results > 0 => window[1] = qPrev.place

CalcStep == Calc!Next \/ UNCHANGED Calc!vars

LEMMA LeastOf ==
    ASSUME NEW n \in Nat, NEW S \in SUBSET (1..n), S # {}
    PROVE  \E m \in S : \A j \in S : m <= j
<1> DEFINE T == {1..i : i \in S}
<1>1. T \subseteq FiniteSubsetsOf(Nat) /\ T # {}
  <2>1. ASSUME NEW i \in S PROVE 1..i \in FiniteSubsetsOf(Nat)
    <3>1. IsFiniteSet(1..i) /\ 1..i \in SUBSET Nat
      BY FS_Interval
    <3> QED
      BY <3>1 DEF FiniteSubsetsOf
  <2> QED
    BY <2>1
<1>2. PICK x \in T : \A y \in T : ~(<<y, x>> \in StrictSubsetOrdering(Nat))
  <2> HIDE DEF T
  <2> QED
    BY <1>1, FS_StrictSubsetOrderingWellFounded, WFMin
<1>3. PICK m \in S : x = 1..m
  BY <1>2
<1>4. ASSUME NEW j \in S, j < m PROVE FALSE
  <2>1. 1..j \in T /\ j \in 1..n /\ m \in 1..n
    OBVIOUS
  <2>2. (1..j) \subseteq 1..m /\ m \in 1..m /\ m \notin 1..j
    BY <1>4, <2>1
  <2>3. 1..j # 1..m /\ 1..j \in SUBSET Nat /\ 1..m \in SUBSET Nat
    BY <2>1, <2>2
  <2>4. <<1..j, 1..m>> \in StrictSubsetOrdering(Nat)
    BY <2>2, <2>3 DEF StrictSubsetOrdering
  <2> QED
    BY <1>2, <1>3, <2>1, <2>4
<1> QED
  <2>1. \A j \in S : j \in Nat /\ m \in Nat
    OBVIOUS
  <2> QED
    BY <1>4, <2>1

LEMMA AnchorsPaired == ASSUME Calc!SizesAssumption PROVE Calc!Pairs \in Nat /\ Calc!Pairs >= 1
<1>1. MapAnchors \in Nat /\ MapAnchors >= 2
  BY DEF Calc!SizesAssumption
<1>2. MapAnchors * (MapAnchors - 1) \in Nat /\ MapAnchors * (MapAnchors - 1) >= 2
  BY <1>1
<1>3. \A x \in Nat : x >= 2 => x \div 2 \in Nat /\ x \div 2 >= 1
  OBVIOUS
<1> QED
  BY <1>2, <1>3 DEF Calc!Pairs

(* The cut leaves at least one reading, and no more equations than readings. *)
LEMMA CutLeaves ==
    ASSUME Calc!SizesAssumption, NEW m
    PROVE  Calc!Cut(m) \in 1..Calc!Pairs
<1> DEFINE Kept(k) == k = 1 \/ m[k] \notin {"none", "zero"}
           From == {i \in 1..Calc!Pairs : Kept(Calc!Pairs + 1 - i)}
<1>1. Calc!Pairs \in Nat /\ Calc!Pairs >= 1
  BY AnchorsPaired
<1>2. PICK j \in From : \A i \in From : j <= i
  <2>1. From \in SUBSET (1..Calc!Pairs) /\ Calc!Pairs \in From
    BY <1>1
  <2> HIDE DEF From
  <2> QED
    BY <1>1, <2>1, LeastOf
<1> DEFINE k == Calc!Pairs + 1 - j
<1>3. k \in 1..Calc!Pairs /\ Kept(k)
  BY <1>1, <1>2
<1>4. ASSUME NEW i \in (k + 1)..Calc!Pairs PROVE m[i] \in {"none", "zero"}
  <2>1. /\ Calc!Pairs + 1 - i \in 1..Calc!Pairs /\ Calc!Pairs + 1 - i < j /\ Calc!Pairs + 1 - (Calc!Pairs + 1 - i) = i
        /\ j \in 1..Calc!Pairs /\ i \in Int
    BY <1>1, <1>2
  <2>2. Calc!Pairs + 1 - i \notin From
    BY <1>2, <2>1
  <2>3. ~Kept(i)
    BY <2>1, <2>2
  <2> QED
    BY <2>3
<1>5. \E l \in 1..Calc!Pairs : Kept(l) /\ \A i \in (l + 1)..Calc!Pairs : m[i] \in {"none", "zero"}
  <2> HIDE DEF k, Kept
  <2> QED
    BY <1>3, <1>4
<1> QED
  BY <1>5 DEF Calc!Cut

LEMMA RowsBounded ==
    ASSUME Calc!SizesAssumption, NEW m
    PROVE  Calc!Rows(m) \in 0..Calc!Cut(m)
<1>1. Calc!Cut(m) \in 1..Calc!Pairs /\ Calc!Pairs \in Nat
  BY CutLeaves, AnchorsPaired
<1> DEFINE Rs == {i \in 1..Calc!Cut(m) : m[i] \notin {"none", "same"}}
<1>2. IsFiniteSet(1..Calc!Cut(m)) /\ Cardinality(1..Calc!Cut(m)) = Calc!Cut(m)
  BY <1>1, FS_Interval
<1>3. Rs \subseteq 1..Calc!Cut(m)
  OBVIOUS
<1>4. Cardinality(Rs) \in Nat /\ Cardinality(Rs) <= Calc!Cut(m)
  <2> HIDE DEF Rs
  <2>1. IsFiniteSet(Rs) /\ Cardinality(Rs) <= Cardinality(1..Calc!Cut(m))
    BY <1>2, <1>3, FS_Subset
  <2> QED
    BY <1>2, <2>1, FS_CardinalityType
<1>5. Calc!Rows(m) = Cardinality(Rs)
  BY Zenon DEF Calc!Rows, Calc!Cardinality, Cardinality
<1> QED
  BY <1>1, <1>4, <1>5

LEMMA CalcInitial == ASSUME Calc!SizesAssumption, Calc!Init PROVE CalcInv
<1>1. window = <<>> /\ Len(window) = 0 /\ window \in Seq(Calc!Places)
  BY EmptySeq DEF Calc!Init
<1>2. position \in Calc!Position /\ qPrev = position /\ position.by = "start"
  BY DEF Calc!Init, Calc!Start, Calc!Position, Calc!Places, Calc!Steps
<1> QED
  BY <1>1, <1>2, AnchorsPaired DEF CalcInv, Calc!Init, Calc!TypeOK, Calc!MiddleDropped, Calc!SizesAssumption

(* The newest position is put first; the window grows up to one less than its size. *)
LEMMA WindowKept ==
    ASSUME Calc!SizesAssumption, NEW p \in Calc!Places, NEW w \in Seq(Calc!Places), Len(w) <= WINDOW_SIZE - 1
    PROVE  /\ Calc!Shortened(<<p>> \o w) \in Seq(Calc!Places)
           /\ Len(Calc!Shortened(<<p>> \o w)) =
                IF Len(w) = WINDOW_SIZE - 1 THEN WINDOW_SIZE - 1 ELSE Len(w) + 1
           /\ Calc!Shortened(<<p>> \o w)[1] = p
<1> DEFINE u == <<p>> \o w
<1>1. u \in Seq(Calc!Places) /\ Len(u) = Len(w) + 1 /\ u[1] = p
  BY DEF Calc!Places
<1>2. WINDOW_SIZE \in Nat /\ WINDOW_SIZE >= 2 /\ Len(w) \in Nat
  BY DEF Calc!SizesAssumption
<1>3. Calc!Shortened(u) = IF Len(u) = WINDOW_SIZE THEN SubSeq(u, 1, WINDOW_SIZE - 1) ELSE u
  BY Zenon DEF Calc!Shortened
<1> SUFFICES /\ Calc!Shortened(u) \in Seq(Calc!Places)
             /\ Len(Calc!Shortened(u)) = IF Len(w) = WINDOW_SIZE - 1 THEN WINDOW_SIZE - 1 ELSE Len(w) + 1
             /\ Calc!Shortened(u)[1] = p
  OBVIOUS
<1> HIDE DEF u
<1>4. CASE Len(u) = WINDOW_SIZE
  <2>1. \A i \in 1..(WINDOW_SIZE - 1) : u[i] \in Calc!Places
    BY <1>1, <1>4, <1>2, ElementOfSeq
  <2>2. /\ SubSeq(u, 1, WINDOW_SIZE - 1) \in Seq(Calc!Places)
        /\ Len(SubSeq(u, 1, WINDOW_SIZE - 1)) = WINDOW_SIZE - 1
        /\ SubSeq(u, 1, WINDOW_SIZE - 1)[1] = u[1]
    BY <1>1, <1>2, <1>4, <2>1, SubSeqProperties
  <2> QED
    BY <1>1, <1>2, <1>3, <1>4, <2>2
<1>5. CASE Len(u) # WINDOW_SIZE
  BY <1>1, <1>2, <1>3, <1>5
<1> QED
  BY <1>4, <1>5

LEMMA BeginKeeps == ASSUME Calc!SizesAssumption, CalcInv, Calc!Begin PROVE CalcInv'
<1> USE DEF CalcInv, Calc!TypeOK, Calc!MiddleDropped
<1>1. posted' \in 0..MaxPosted
  BY DEF Calc!Begin, Calc!SizesAssumption
<1>2. CASE Len(data) < Calc!Pairs
  BY <1>1, <1>2 DEF Calc!Begin, Calc!TaskData
<1>3. CASE ~(Len(data) < Calc!Pairs)
  <2>1. /\ used' = data /\ rows' = Calc!Rows(data) /\ position' = qPrev /\ iter' \in {1, MAXITER}
        /\ pc' = IF rows' >= 3 THEN "iterate" ELSE "finish"
        /\ iter' = IF Calc!Cut(data) >= 3 THEN 1 ELSE MAXITER
    BY <1>3 DEF Calc!Begin, Calc!TaskData, Calc!Enough
  <2>2. Calc!Rows(data) \in 0..Calc!Pairs /\ Calc!Rows(data) <= Calc!Cut(data) /\ Calc!Cut(data) \in 1..Calc!Pairs
    <3>1. Calc!Cut(data) \in 1..Calc!Pairs /\ Calc!Rows(data) \in 0..Calc!Cut(data)
      BY CutLeaves, RowsBounded, Zenon
    <3> QED
      BY <3>1, AnchorsPaired
  <2>3. /\ UNCHANGED <<data, qPrev, window, results>> /\ MAXITER \in Nat /\ MAXITER >= 2
        /\ Calc!Pairs \in Nat
    BY AnchorsPaired DEF Calc!Begin, Calc!SizesAssumption
  <2>4. pc' = "iterate" => iter' < MAXITER
    BY <2>1, <2>2, <2>3
  <2> QED
    BY <1>1, <2>1, <2>2, <2>3, <2>4
<1> QED
  BY <1>2, <1>3

LEMMA IterateKeeps == ASSUME Calc!SizesAssumption, CalcInv, Calc!Iterate PROVE CalcInv'
<1> USE DEF CalcInv, Calc!TypeOK, Calc!MiddleDropped
<1>1. PICK s \in Calc!Steps : \E p \in Calc!Moved(position, s) :
        /\ position' = p
        /\ iter' = (IF s = "huge" THEN MAXITER ELSE iter) + 1
        /\ pc' = IF Calc!GoesOn(s, iter') THEN "iterate" ELSE "finish"
  BY DEF Calc!Iterate
<1>2. position' \in Calc!Position /\ position'.by = s
  BY <1>1 DEF Calc!Moved, Calc!Position, Calc!Places, Calc!Steps
<1>3. MAXITER \in Nat /\ MAXITER >= 2 /\ iter \in Nat /\ iter >= 1 /\ iter < MAXITER /\ rows >= 3
  BY DEF Calc!Iterate, Calc!SizesAssumption
<1>4. iter' \in 1..(MAXITER + 1) /\ (pc' = "iterate" => iter' < MAXITER)
      /\ (pc' = "finish" /\ iter' # MAXITER => s # "middle") /\ pc' \in {"iterate", "finish"}
  <2> HIDE DEF CalcInv, Calc!TypeOK, Calc!MiddleDropped
  <2> QED
    BY <1>1, <1>3 DEF Calc!GoesOn
<1>5. UNCHANGED <<data, posted, rows, qPrev, window, used, results>> /\ pc = "iterate" /\ rows \in 0..Calc!Pairs
  BY DEF Calc!Iterate
<1> QED
  BY <1>2, <1>3, <1>4, <1>5 DEF Calc!SizesAssumption

LEMMA FinishKeeps == ASSUME Calc!SizesAssumption, CalcInv, Calc!Finish PROVE CalcInv'
<1> USE DEF CalcInv, Calc!TypeOK, Calc!MiddleDropped
<1> DEFINE result == IF iter = MAXITER THEN qPrev ELSE position
<1>1. /\ pc = "finish" /\ pc' = "idle" /\ position' = result /\ qPrev' = result
      /\ window' = Calc!Shortened(<<result.place>> \o window)
      /\ results' = IF results < WINDOW_SIZE THEN results + 1 ELSE results
      /\ UNCHANGED <<data, posted, rows, iter, used>>
  BY DEF Calc!Finish
<1>2. result \in Calc!Position /\ result.place \in Calc!Places /\ result.by # "middle"
  BY <1>1 DEF Calc!Position
<1>3. WINDOW_SIZE \in Nat /\ WINDOW_SIZE >= 2 /\ results \in 0..WINDOW_SIZE
      /\ Len(window) = IF results < WINDOW_SIZE THEN results ELSE WINDOW_SIZE - 1
  BY DEF Calc!SizesAssumption
<1>4. /\ window' \in Seq(Calc!Places) /\ window'[1] = qPrev'.place
      /\ Len(window') = IF Len(window) = WINDOW_SIZE - 1 THEN WINDOW_SIZE - 1 ELSE Len(window) + 1
  <2> HIDE DEF result
  <2> QED
    BY <1>1, <1>2, <1>3, WindowKept
<1>5. results' \in 0..WINDOW_SIZE /\ Len(window') = IF results' < WINDOW_SIZE THEN results' ELSE WINDOW_SIZE - 1
  <2> HIDE DEF result, CalcInv, Calc!TypeOK, Calc!MiddleDropped
  <2> QED
    BY <1>1, <1>3, <1>4
<1> HIDE DEF result
<1> QED
  BY <1>1, <1>2, <1>4, <1>5

LEMMA CalcInductive == ASSUME Calc!SizesAssumption, CalcInv, CalcStep PROVE CalcInv'
<1>1. ASSUME NEW m \in Measurements, Calc!Calculate(m) PROVE CalcInv'
  BY <1>1 DEF CalcInv, Calc!TypeOK, Calc!MiddleDropped, Calc!Calculate, Calc!SizesAssumption
<1>2. CASE Calc!Singular
  BY <1>2 DEF CalcInv, Calc!TypeOK, Calc!MiddleDropped, Calc!Singular
<1>3. CASE UNCHANGED Calc!vars
  BY <1>3 DEF CalcInv, Calc!TypeOK, Calc!MiddleDropped, Calc!vars
<1> QED
  BY <1>1, <1>2, <1>3, BeginKeeps, IterateKeeps, FinishKeeps DEF CalcStep, Calc!Next, Calc!Task

LEMMA CalcMeans ==
    CalcInv => Calc!TypeOK /\ Calc!NewestUsed /\ Calc!MiddleDropped /\ Calc!WindowForgets
BY DEF CalcInv, Calc!NewestUsed, Calc!WindowForgets

LEMMA CalcDrops ==
    ASSUME CalcInv, CalcStep
    PROVE  [pc = "finish" /\ rows < 3 => qPrev' = qPrev]_Calc!vars
<1> SUFFICES ASSUME pc = "finish", rows < 3, CalcStep PROVE qPrev' = qPrev
  OBVIOUS
<1>1. position = qPrev
  BY DEF CalcInv
<1>2. CASE Calc!Finish
  BY <1>1, <1>2 DEF Calc!Finish
<1> QED
  BY <1>2 DEF CalcStep, Calc!Next, Calc!Task, Calc!Calculate, Calc!Begin, Calc!Iterate, Calc!Singular,
              Calc!vars

(* Whatever measurements arrive and however many tasks they post, the newest is       *)
(* computed last; a position that its last step moved by more than the error limit is *)
(* kept only if it was moved by more than 100 m; too few equations do not move it, and *)
(* the average is over all of the first WINDOW_SIZE - 1 results, the last one          *)
(* included, and over exactly so many from then on.                                   *)
THEOREM PositionSafe ==
    ASSUME Calc!SizesAssumption
    PROVE  /\ Calc!Spec => [](Calc!TypeOK /\ Calc!NewestUsed /\ Calc!MiddleDropped /\ Calc!WindowForgets)
           /\ Calc!Spec => Calc!PoorDropped
<1>1. Calc!Init => CalcInv
  BY CalcInitial
<1>2. CalcInv /\ [Calc!Next]_Calc!vars => CalcInv'
  BY CalcInductive DEF CalcStep
<1>3. CalcInv /\ [Calc!Next]_Calc!vars => [pc = "finish" /\ rows < 3 => qPrev' = qPrev]_Calc!vars
  BY CalcDrops DEF CalcStep
<1>4. Calc!Spec => [](Calc!TypeOK /\ Calc!NewestUsed /\ Calc!MiddleDropped /\ Calc!WindowForgets)
  BY <1>1, <1>2, CalcMeans, PTL DEF Calc!Spec
<1>5. Calc!Spec => Calc!PoorDropped
  BY <1>1, <1>2, <1>3, PTL DEF Calc!Spec, Calc!PoorDropped
<1> QED
  BY <1>4, <1>5
=============================================================================
