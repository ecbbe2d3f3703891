--------------------------- MODULE TagNode_proofs ---------------------------
(***************************************************************************)
(* Safety of the tag for any queue length, any number of messages in a     *)
(* superframe and any modes that clients write; where the switch between   *)
(* the modes matters, for clients that never write ANCHOR_RANGING.         *)
(***************************************************************************)
EXTENDS TagNode, SequenceTheorems, TLAPS

USE DEF POWERDOWN, RANGING, ANCHOR_RANGING, DEBUG

-----------------------------------------------------------------------------
(* The queue: what holds of its jobs, and which job is at its head, is not *)
(* disturbed by what is put behind them.                                   *)

LEMMA PutJob ==
    ASSUME NEW S, NEW q \in Seq(S), NEW e \in S
    PROVE  /\ Put(q, e) \in Seq(S)
           /\ Len(q) <= Capacity => Len(Put(q, e)) <= Capacity
           /\ q # <<>> => Put(q, e) # <<>> /\ Head(Put(q, e)) = Head(q)
<1>1. Append(q, e) \in Seq(S) /\ Len(Append(q, e)) = Len(q) + 1
  BY AppendProperties
<1>2. Len(q) \in Nat
  BY LenProperties
<1>3. q # <<>> => Append(q, e) # <<>> /\ Head(Append(q, e)) = Head(q)
  BY HeadTailAppend
<1> QED
  BY <1>1, <1>2, <1>3, CapacityAssumption DEF Put, Full

LEMMA TakeJob ==
    ASSUME NEW S, NEW q \in Seq(S), q # <<>>
    PROVE  Head(q) \in S /\ Tail(q) \in Seq(S) /\ Len(Tail(q)) = Len(q) - 1
BY HeadTailProperties

LEMMA JobType ==
    /\ Job("poll", 0) \in Jobs /\ Job("ranging", 0) \in Jobs /\ Job("sample", 0) \in Jobs
    /\ \A m \in 0..4 : Job("mode", m) \in Jobs /\ Job("accel", m) \in Jobs
    /\ \A m \in 0..4 : Effective(m) \in 0..4
    /\ \A m \in 0..4 : Job("mode", m) \in SdEvents /\ Job("accel", m) \in SdEvents
    /\ Job("connected", 0) \in SdEvents /\ Job("disconnected", 0) \in SdEvents
    /\ \A e \in SdEvents : e.arg \in 0..4
    /\ \A j \in Jobs : j.arg \in 0..4
BY DEF Job, Jobs, SdEvents, Effective

-----------------------------------------------------------------------------
(* Types, component by component.                                          *)

LEMMA InitType == Init => TypeOK
<1>1. Init => BleType /\ QueueType
  <2>1. Len(<<>>) = 0 /\ <<>> \in Seq(Jobs) /\ <<>> \in Seq(SdEvents)
    BY EmptySeq
  <2>2. Init => link = "adv" /\ sdEvents = <<>> /\ queue = <<>> /\ rsMode = 0
    BY DEF Init
  <2> QED
    BY <2>1, <2>2, CapacityAssumption DEF BleType, QueueType
<1>2. Init => ModeType
  <2>1. Init => phase = "idle" /\ tagMode = 0 /\ refs = 0 /\ fault = "none"
    BY DEF Init
  <2> QED
    BY <2>1 DEF ModeType
<1>3. Init => SyncType
  <2>1. Init => /\ rx = "idle" /\ loaded = 0 /\ tagState = "DISCOVERY"
                /\ received = 0 /\ unsynced = 0 /\ heard = 0 /\ quiet = LossLimit + 1
    BY DEF Init
  <2> QED
    BY <2>1, CounterAssumption DEF SyncType
<1>4. Init => FlagType
  BY Zenon DEF Init, FlagType
<1> QED
  BY <1>1, <1>2, <1>3, <1>4 DEF TypeOK

LEMMA SameTypes ==
    /\ BleType /\ UNCHANGED bleVars => BleType'
    /\ QueueType /\ UNCHANGED queue => QueueType'
    /\ ModeType /\ UNCHANGED <<modeVars, refs, fault>> => ModeType'
    /\ SyncType /\ UNCHANGED syncVars => SyncType'
BY DEF ModeType, SyncType, BleType, QueueType, modeVars, syncVars, bleVars

(* The flags are only ever given truth values. *)
LEMMA Flags == FlagType /\ [Next]_vars => FlagType'
<1> SUFFICES ASSUME FlagType, [Next]_vars PROVE FlagType'
  OBVIOUS
<1> USE DEF FlagType, bleVars, modeVars, syncVars, powerVars
<1>1. CASE Air
  BY <1>1, Zenon DEF Air, Connect, Disconnect, WriteMode, WriteAccel, SdEvent
<1>2. CASE PollEvent
  <2>1. Full(queue) \in BOOLEAN
    BY DEF Full
  <2> QED
    BY <1>2, <2>1, Zenon DEF PollEvent, OnConnected, OnDisconnected, OnWriteMode, OnWriteAccel, SetRsMode
<1>3. CASE PollDone \/ SendNotification \/ Sample \/ OnlyRecordMode
  BY <1>3, Zenon DEF PollDone, SendNotification, Sample, OnlyRecordMode
<1>4. CASE AccelState
  BY <1>4, Zenon DEF AccelState, UseTick, ReleaseTick
<1>5. CASE StartSteps
  BY <1>5, Zenon DEF StartSteps, StartUwb, EnableReceiver, FinishStart, UseTick
<1>6. CASE StopSteps
  BY <1>6, Zenon DEF StopSteps, StopReceiver, StopTimer, FinishStop, ReleaseTick
<1>7. CASE Receive \/ RxSteps
  BY <1>7, Zenon DEF Receive, RxSteps, RxJoin, RxLoad, RxStore, RxPut
<1>8. CASE SfBegin
  BY <1>8, Zenon DEF SfBegin
<1>9. CASE UNCHANGED vars
  BY <1>9, Zenon DEF vars
<1> QED
  BY <1>1, <1>2, <1>3, <1>4, <1>5, <1>6, <1>7, <1>8, <1>9 DEF Next, MainLoop

OtherTypes == BleType /\ QueueType /\ ModeType /\ SyncType

LEMMA AirType == OtherTypes /\ Air => OtherTypes'
<1> SUFFICES ASSUME OtherTypes, NEW kind, NEW arg, Job(kind, arg) \in SdEvents,
                    SdEvent(kind, arg), link' \in {"adv", "up", "down"}
             PROVE  OtherTypes'
  BY JobType, ClientModesAssumption, AccelModesAssumption
     DEF Air, Connect, Disconnect, WriteMode, WriteAccel, OtherTypes, BleType
<1>1. BleType'
  BY AppendProperties DEF SdEvent, OtherTypes, BleType
<1>2. QueueType'
  <2>1. /\ Append(queue, Job("poll", 0)) \in Seq(Jobs)
        /\ Len(Append(queue, Job("poll", 0))) = Len(queue) + 1
    BY JobType, AppendProperties DEF OtherTypes, QueueType
  <2>2. ~Full(queue) => Len(queue) + 1 <= Capacity
    BY LenProperties, CapacityAssumption DEF Full, OtherTypes, QueueType
  <2> QED
    BY <2>1, <2>2 DEF SdEvent, OtherTypes, QueueType
<1>3. ModeType'
  BY DEF SdEvent, OtherTypes, ModeType, modeVars, powerVars
<1>4. SyncType'
  BY SameTypes DEF SdEvent, OtherTypes
<1> QED
  BY <1>1, <1>2, <1>3, <1>4 DEF OtherTypes

(* Whatever event a poll handles, it only puts jobs. *)
LEMMA PollType == OtherTypes /\ PollEvent => OtherTypes'
<1> SUFFICES ASSUME OtherTypes, PollEvent PROVE OtherTypes'
  OBVIOUS
<1> DEFINE e == Head(sdEvents)
<1>1. e \in SdEvents /\ sdEvents' \in Seq(SdEvents) /\ e.arg \in 0..4
  BY TakeJob, JobType DEF PollEvent, OtherTypes, BleType
<1>2. \A q \in Seq(Jobs), j \in Jobs :
         Put(q, j) \in Seq(Jobs) /\ (Len(q) <= Capacity => Len(Put(q, j)) <= Capacity)
  BY PutJob
<1>3. QueueType'
  <2> DEFINE P(m) == Job("mode", m)
             A(m) == Job("accel", m)
  <2>1. P(POWERDOWN) \in Jobs /\ A(POWERDOWN) \in Jobs
        /\ A(e.arg) \in Jobs /\ P(Effective(e.arg)) \in Jobs
    BY <1>1, JobType
  <2>2. queue \in Seq(Jobs) /\ Len(queue) <= Capacity
    BY DEF OtherTypes, QueueType
  <2>3. CASE OnConnected(e)
    BY <2>2, <2>3 DEF OnConnected, QueueType
  <2>4. CASE OnDisconnected(e)
    BY <2>1, <2>2, <2>4, <1>2 DEF OnDisconnected, QueueType
  <2>5. CASE OnWriteMode(e)
    BY <2>1, <2>2, <2>5, <1>2 DEF OnWriteMode, SetRsMode, QueueType
  <2>6. CASE OnWriteAccel(e)
    BY <2>1, <2>2, <2>6, <1>2 DEF OnWriteAccel, QueueType
  <2> QED
    BY <2>3, <2>4, <2>5, <2>6 DEF PollEvent
<1>4. BleType'
  BY <1>1 DEF PollEvent, OnConnected, OnDisconnected, OnWriteMode, OnWriteAccel, SetRsMode,
              Full, OtherTypes, BleType
<1> QED
  BY <1>3, <1>4, SameTypes DEF PollEvent, OtherTypes, powerVars

(* The other steps of the main loop take the job at the head. *)
LEMMA QueueTaken ==
    ASSUME QueueType, queue # <<>>
    PROVE  /\ Head(queue) \in Jobs /\ Head(queue).arg \in 0..4
           /\ queue' = Tail(queue) => QueueType'
<1>1. queue \in Seq(Jobs) /\ Len(queue) <= Capacity /\ Len(queue) \in Nat
  BY LenProperties DEF QueueType
<1>2. Head(queue) \in Jobs /\ Tail(queue) \in Seq(Jobs) /\ Len(Tail(queue)) = Len(queue) - 1
  BY <1>1, TakeJob
<1> QED
  BY <1>1, <1>2, JobType, CapacityAssumption DEF QueueType

LEMMA MainLoopType == OtherTypes /\ MainLoop => OtherTypes'
<1> SUFFICES ASSUME OtherTypes, MainLoop PROVE OtherTypes'
  OBVIOUS
<1> USE SameTypes DEF OtherTypes, powerVars
<1>1. CASE PollEvent
  BY <1>1, PollType
<1>2. CASE PollDone
  BY <1>2, QueueTaken DEF PollDone, Running
<1>3. CASE SendNotification
  BY <1>3, QueueTaken DEF SendNotification, Running
<1>4. CASE AccelState
  BY <1>4, QueueTaken DEF AccelState, Running, UseTick, ReleaseTick, ModeType, modeVars
<1>5. CASE StartUwb
  <2>1. ModeType'
    BY <1>5 DEF StartUwb, ModeType
  <2>2. SyncType'
    BY <1>5, CounterAssumption DEF StartUwb, SyncType
  <2> QED
    BY <1>5, <2>1, <2>2 DEF StartUwb
<1>6. CASE EnableReceiver
  BY <1>6 DEF EnableReceiver, ModeType
<1>7. CASE FinishStart
  <2>1. queue # <<>>
    BY <1>7 DEF FinishStart, Running
  <2> QED
    BY <1>7, <2>1, QueueTaken DEF FinishStart, UseTick, ModeType
<1>8. CASE StopReceiver
  BY <1>8 DEF StopReceiver, ModeType
<1>9. CASE StopTimer
  BY <1>9 DEF StopTimer, ModeType
<1>10. CASE FinishStop
  <2>1. queue # <<>>
    BY <1>10 DEF FinishStop, Running
  <2> QED
    BY <1>10, <2>1, QueueTaken DEF FinishStop, ReleaseTick, ModeType
<1>11. CASE OnlyRecordMode
  <2>1. queue # <<>>
    BY <1>11 DEF OnlyRecordMode, Running
  <2> QED
    BY <1>11, <2>1, QueueTaken DEF OnlyRecordMode, ModeType
<1> QED
  BY <1>1, <1>2, <1>3, <1>4, <1>5, <1>6, <1>7, <1>8, <1>9, <1>10, <1>11
     DEF MainLoop, StartSteps, StopSteps

LEMMA InterruptType == OtherTypes /\ (Sample \/ Receive \/ RxSteps \/ SfBegin) => OtherTypes'
<1> SUFFICES ASSUME OtherTypes, Sample \/ Receive \/ RxSteps \/ SfBegin PROVE OtherTypes'
  OBVIOUS
<1> USE SameTypes DEF OtherTypes, powerVars
<1>1. \A kind \in {"sample", "ranging"} : queue' = Put(queue, Job(kind, 0)) => QueueType'
  BY PutJob, JobType DEF QueueType
<1>2. CASE Sample
  BY <1>1, <1>2 DEF Sample
<1>3. CASE Receive
  BY <1>3 DEF Receive, SyncType
<1>4. CASE RxJoin
  BY <1>4 DEF RxJoin, SyncType
<1>5. CASE RxLoad
  BY <1>5 DEF RxLoad, SyncType
<1>6. CASE RxStore
  BY <1>6, CounterAssumption DEF RxStore, SyncType
<1>7. CASE RxPut
  <2>1. QueueType'
    BY <1>1, <1>7 DEF RxPut
  <2> QED
    BY <1>7, <2>1 DEF RxPut, SyncType
<1>8. CASE SfBegin
  <2>1. SyncType'
    BY <1>8, CounterAssumption DEF SfBegin, SyncType
  <2> QED
    BY <1>8, <2>1 DEF SfBegin
<1> QED
  BY <1>2, <1>3, <1>4, <1>5, <1>6, <1>7, <1>8 DEF RxSteps

(* Every variable keeps its type, and the queue its capacity. *)
THEOREM TypeCorrect == Spec => []TypeOK
<1>1. OtherTypes /\ [Next]_vars => OtherTypes'
  BY AirType, MainLoopType, InterruptType, SameTypes DEF Next, vars, powerVars, OtherTypes
<1>2. TypeOK <=> OtherTypes /\ FlagType
  BY DEF TypeOK, OtherTypes
<1> QED
  BY <1>1, <1>2, Flags, InitType, PTL DEF Spec

-----------------------------------------------------------------------------
(* The switch.                                                             *)

ClientsKnown == ANCHOR_RANGING \notin ClientModes

GoodJobs == {j \in Jobs : j.kind = "mode" => j.arg \in {POWERDOWN, RANGING}}
GoodEvents == {e \in SdEvents : e.kind = "mode" => e.arg \in {POWERDOWN, RANGING, DEBUG}}

OnlyKnownModes ==
    /\ queue \in Seq(GoodJobs) /\ sdEvents \in Seq(GoodEvents)
    /\ tagMode \in {POWERDOWN, RANGING}

(* The job that switches stays at the head until it is done. *)
SwitchRuns(old, new) ==
    queue # <<>> /\ Head(queue).kind = "mode" /\ Head(queue).arg = new /\ tagMode = old

(* What is on at each point of the switch. *)
Hardware(on1, on2, on3) == (radio <=> on1) /\ (timer <=> on2) /\ (rxOn <=> on3)

SwitchInv ==
    /\ OnlyKnownModes
    /\ phase \in {"idle", "enable", "tick", "timer", "release"}
    /\ phase \in {"enable", "tick"} => SwitchRuns(POWERDOWN, RANGING)
    /\ phase \in {"timer", "release"} => SwitchRuns(RANGING, POWERDOWN)
    /\ phase = "idle" /\ tagMode = POWERDOWN => Hardware(FALSE, FALSE, FALSE)
    /\ phase = "idle" /\ tagMode = RANGING => Hardware(TRUE, TRUE, TRUE)
    /\ phase = "enable" => Hardware(TRUE, TRUE, FALSE)
    /\ phase = "tick" => Hardware(TRUE, TRUE, TRUE)
    /\ phase = "timer" => Hardware(TRUE, TRUE, FALSE)
    /\ phase = "release" => Hardware(TRUE, FALSE, FALSE)
    /\ rx # "idle" => rxOn
    /\ fault # "hardware"

LEMMA GoodJobType ==
    /\ \A m \in 0..4 : Job("accel", m) \in GoodJobs
    /\ \A m \in {POWERDOWN, RANGING} : Job("mode", m) \in GoodJobs
    /\ Job("poll", 0) \in GoodJobs /\ Job("ranging", 0) \in GoodJobs /\ Job("sample", 0) \in GoodJobs
    /\ Job("connected", 0) \in GoodEvents /\ Job("disconnected", 0) \in GoodEvents
    /\ \A m \in {POWERDOWN, RANGING, DEBUG} :
          Job("mode", m) \in GoodEvents /\ Effective(m) \in {POWERDOWN, RANGING}
    /\ \A m \in 0..4 : Job("accel", m) \in GoodEvents
    /\ \A e \in GoodEvents : e.arg \in 0..4
BY DEF GoodJobs, GoodEvents, Job, Jobs, SdEvents, Effective

LEMMA SwitchInit == Init => SwitchInv
<1>1. <<>> \in Seq(GoodJobs) /\ <<>> \in Seq(GoodEvents)
  BY EmptySeq
<1>2. Init => OnlyKnownModes
  BY <1>1 DEF Init, OnlyKnownModes
<1>3. Init => Hardware(FALSE, FALSE, FALSE)
  BY Zenon DEF Init, Hardware
<1>4. Init => phase = "idle" /\ tagMode = POWERDOWN /\ rx = "idle" /\ fault = "none"
  BY DEF Init
<1> QED
  BY <1>2, <1>3, <1>4 DEF SwitchInv, Hardware

(* Jobs that are put leave a switch that runs alone. *)
LEMMA SwitchPut ==
    ASSUME SwitchInv, OnlyKnownModes', UNCHANGED <<modeVars, rx>>, fault' # "hardware",
           queue # <<>> => queue' # <<>> /\ Head(queue') = Head(queue)
    PROVE  SwitchInv'
BY DEF SwitchInv, SwitchRuns, Hardware, modeVars

LEMMA SwitchAir == ClientsKnown /\ SwitchInv /\ Air => SwitchInv'
<1> SUFFICES ASSUME SwitchInv, NEW kind, NEW arg, Job(kind, arg) \in GoodEvents, SdEvent(kind, arg)
             PROVE  SwitchInv'
  <2>1. ClientsKnown => ClientModes \subseteq {POWERDOWN, RANGING, DEBUG}
    BY ClientModesAssumption DEF ClientsKnown
  <2> QED
    BY <2>1, GoodJobType, AccelModesAssumption DEF Air, Connect, Disconnect, WriteMode, WriteAccel
<1>1. queue \in Seq(GoodJobs) /\ sdEvents \in Seq(GoodEvents) /\ Job("poll", 0) \in GoodJobs
  BY GoodJobType DEF SwitchInv, OnlyKnownModes
<1>2. /\ Append(queue, Job("poll", 0)) \in Seq(GoodJobs)
      /\ queue # <<>> => /\ Append(queue, Job("poll", 0)) # <<>>
                         /\ Head(Append(queue, Job("poll", 0))) = Head(queue)
  BY <1>1, AppendProperties, HeadTailAppend
<1>3. Append(sdEvents, Job(kind, arg)) \in Seq(GoodEvents)
  BY <1>1, AppendProperties
<1>4. OnlyKnownModes'
  BY <1>1, <1>2, <1>3 DEF SdEvent, modeVars, SwitchInv, OnlyKnownModes
<1>5. queue # <<>> => queue' # <<>> /\ Head(queue') = Head(queue)
  BY <1>2 DEF SdEvent
<1>6. fault' # "hardware" /\ UNCHANGED <<modeVars, rx>>
  BY DEF SdEvent, SwitchInv, syncVars
<1> QED
  BY <1>4, <1>5, <1>6, SwitchPut

LEMMA SwitchPoll == SwitchInv /\ PollEvent => SwitchInv'
<1> SUFFICES ASSUME SwitchInv, PollEvent PROVE SwitchInv'
  OBVIOUS
<1> DEFINE e == Head(sdEvents)
           Kept(q) == q \in Seq(GoodJobs) /\ (queue # <<>> => q # <<>> /\ Head(q) = Head(queue))
<1>1. /\ e \in GoodEvents /\ sdEvents' \in Seq(GoodEvents) /\ e.arg \in 0..4
      /\ e.kind = "mode" => e.arg \in {POWERDOWN, RANGING, DEBUG}
  BY TakeJob, GoodJobType DEF PollEvent, SwitchInv, OnlyKnownModes, GoodEvents
<1>2. Kept(queue) /\ \A q, j : Kept(q) /\ j \in GoodJobs => Kept(Put(q, j))
  BY PutJob DEF SwitchInv, OnlyKnownModes
<1>3. /\ Job("mode", POWERDOWN) \in GoodJobs /\ Job("accel", POWERDOWN) \in GoodJobs
      /\ Job("accel", e.arg) \in GoodJobs
      /\ e.kind = "mode" => Job("mode", Effective(e.arg)) \in GoodJobs
  BY <1>1, GoodJobType
<1> HIDE DEF Kept
<1>4. Kept(queue')
  BY <1>2, <1>3 DEF PollEvent, OnConnected, OnDisconnected, OnWriteMode, OnWriteAccel, SetRsMode
<1>5. UNCHANGED <<modeVars, rx>> /\ fault' # "hardware"
  BY DEF PollEvent, SwitchInv, syncVars
<1>6. OnlyKnownModes'
  BY <1>1, <1>4, <1>5 DEF Kept, SwitchInv, OnlyKnownModes, modeVars
<1> QED
  BY <1>4, <1>5, <1>6, SwitchPut DEF Kept

(* A job that is not a mode's leaves no switch unfinished. *)
LEMMA SwitchTake ==
    ASSUME SwitchInv, queue # <<>>, queue' = Tail(queue), UNCHANGED sdEvents
    PROVE  /\ queue' \in Seq(GoodJobs) /\ sdEvents' \in Seq(GoodEvents)
           /\ Head(queue).kind = "mode" => Head(queue).arg \in {POWERDOWN, RANGING}
BY TakeJob DEF SwitchInv, OnlyKnownModes, GoodJobs

LEMMA SwitchMainLoop == SwitchInv /\ MainLoop => SwitchInv'
<1> SUFFICES ASSUME SwitchInv, MainLoop PROVE SwitchInv'
  OBVIOUS
<1> USE DEF SwitchInv, OnlyKnownModes, SwitchRuns, modeVars, bleVars, syncVars, powerVars
<1>1. CASE PollEvent
  BY <1>1, SwitchPoll
<1>2. CASE PollDone \/ SendNotification \/ AccelState
  <2>1. /\ queue # <<>> /\ queue' = Tail(queue) /\ Head(queue).kind # "mode"
        /\ UNCHANGED <<sdEvents, modeVars, rx, fault>>
    BY <1>2 DEF PollDone, SendNotification, AccelState, Running
  <2> QED
    BY <2>1, SwitchTake DEF Hardware
<1>3. CASE StartUwb
  <2>1. /\ queue # <<>> /\ Head(queue).kind = "mode" /\ Head(queue).arg = RANGING
        /\ phase = "idle" /\ tagMode = POWERDOWN /\ rx = "idle"
        /\ UNCHANGED <<queue, sdEvents, tagMode, rx>>
    BY <1>3 DEF StartUwb, ModeJob, Running
  <2>2. Hardware(FALSE, FALSE, FALSE)
    BY <2>1
  <2>3. phase' = "enable" /\ fault' = fault /\ Hardware(TRUE, TRUE, FALSE)'
    BY <1>3, <2>2, Zenon DEF StartUwb, Hardware
  <2> QED
    BY <2>1, <2>3
<1>4. CASE EnableReceiver
  <2>1. /\ phase = "enable" /\ phase' = "tick" /\ rx = "idle"
        /\ UNCHANGED <<queue, sdEvents, tagMode, rx, fault>>
    BY <1>4 DEF EnableReceiver, Running
  <2>2. Hardware(TRUE, TRUE, FALSE)
    BY <2>1
  <2>3. Hardware(TRUE, TRUE, TRUE)'
    BY <1>4, <2>2, Zenon DEF EnableReceiver, Hardware
  <2> QED
    BY <2>1, <2>3
<1>5. CASE FinishStart
  <2>1. /\ phase = "tick" /\ phase' = "idle" /\ rx = "idle" /\ queue # <<>>
        /\ queue' = Tail(queue) /\ tagMode' = RANGING /\ UNCHANGED <<sdEvents, rx, fault>>
    BY <1>5 DEF FinishStart, Running
  <2>2. Hardware(TRUE, TRUE, TRUE)
    BY <2>1
  <2>3. Hardware(TRUE, TRUE, TRUE)'
    BY <1>5, <2>2, Zenon DEF FinishStart, Hardware
  <2>4. OnlyKnownModes'
    BY <2>1, SwitchTake
  <2> QED
    BY <2>1, <2>3, <2>4 DEF Hardware
<1>6. CASE StopReceiver
  <2>1. /\ queue # <<>> /\ Head(queue).kind = "mode" /\ Head(queue).arg = POWERDOWN
        /\ phase = "idle" /\ phase' = "timer" /\ tagMode = RANGING /\ rx = "idle"
        /\ UNCHANGED <<queue, sdEvents, tagMode, rx, fault>>
    BY <1>6 DEF StopReceiver, ModeJob, Running
  <2>2. Hardware(TRUE, TRUE, TRUE)
    BY <2>1
  <2>3. Hardware(TRUE, TRUE, FALSE)'
    BY <1>6, <2>2, Zenon DEF StopReceiver, Hardware
  <2> QED
    BY <2>1, <2>3
<1>7. CASE StopTimer
  <2>1. /\ phase = "timer" /\ phase' = "release" /\ rx = "idle"
        /\ UNCHANGED <<queue, sdEvents, tagMode, rx, fault>>
    BY <1>7 DEF StopTimer, Running
  <2>2. Hardware(TRUE, TRUE, FALSE)
    BY <2>1
  <2>3. Hardware(TRUE, FALSE, FALSE)'
    BY <1>7, <2>2, Zenon DEF StopTimer, Hardware
  <2> QED
    BY <2>1, <2>3
<1>8. CASE FinishStop
  <2>1. /\ phase = "release" /\ phase' = "idle" /\ rx = "idle" /\ queue # <<>>
        /\ queue' = Tail(queue) /\ tagMode' = POWERDOWN /\ UNCHANGED <<sdEvents, rx, fault>>
    BY <1>8 DEF FinishStop, Running
  <2>2. Hardware(TRUE, FALSE, FALSE)
    BY <2>1
  <2>3. Hardware(FALSE, FALSE, FALSE)'
    BY <1>8, <2>2, Zenon DEF FinishStop, Hardware
  <2>4. OnlyKnownModes'
    BY <2>1, SwitchTake
  <2> QED
    BY <2>1, <2>3, <2>4 DEF Hardware
<1>9. CASE OnlyRecordMode
  <2>1. /\ queue # <<>> /\ queue' = Tail(queue) /\ tagMode' = Head(queue).arg
        /\ Head(queue).kind = "mode" /\ {tagMode, Head(queue).arg} # {POWERDOWN, RANGING}
        /\ UNCHANGED <<phase, radio, timer, rxOn, sdEvents, rx, fault>> /\ phase = "idle"
    BY <1>9 DEF OnlyRecordMode, Running
  <2>2. Head(queue).arg \in {POWERDOWN, RANGING} /\ OnlyKnownModes'
    BY <2>1, SwitchTake
  <2>3. tagMode' = tagMode
    BY <2>1, <2>2
  <2> QED
    BY <2>1, <2>2, <2>3 DEF Hardware
<1> QED
  BY <1>1, <1>2, <1>3, <1>4, <1>5, <1>6, <1>7, <1>8, <1>9 DEF MainLoop, StartSteps, StopSteps

LEMMA SwitchInterrupts == SwitchInv /\ (Sample \/ Receive \/ RxSteps \/ SfBegin) => SwitchInv'
<1> SUFFICES ASSUME SwitchInv, Sample \/ Receive \/ RxSteps \/ SfBegin PROVE SwitchInv'
  OBVIOUS
<1>1. \A kind \in {"sample", "ranging"} :
          queue' = Put(queue, Job(kind, 0)) =>
              /\ queue' \in Seq(GoodJobs)
              /\ queue # <<>> => queue' # <<>> /\ Head(queue') = Head(queue)
  <2>1. /\ queue \in Seq(GoodJobs)
        /\ \A kind \in {"sample", "ranging"} : Job(kind, 0) \in GoodJobs
    BY GoodJobType DEF SwitchInv, OnlyKnownModes
  <2> QED
    BY <2>1, PutJob
<1> USE DEF SwitchInv, OnlyKnownModes, modeVars, bleVars, syncVars
<1>2. CASE Sample
  BY <1>1, <1>2, SwitchPut DEF Sample
<1>3. CASE Receive
  <2>1. UNCHANGED <<queue, sdEvents, modeVars, fault>> /\ rxOn'
    BY <1>3, Zenon DEF Receive
  <2> QED
    BY <2>1 DEF SwitchRuns, Hardware
<1>4. CASE RxPut
  <2>1. \/ UNCHANGED queue
        \/ queue' \in Seq(GoodJobs) /\ (queue # <<>> => queue' # <<>> /\ Head(queue') = Head(queue))
    BY <1>1, <1>4 DEF RxPut
  <2>2. UNCHANGED <<sdEvents, modeVars, fault>> /\ rx' = "idle"
    BY <1>4 DEF RxPut
  <2> QED
    BY <2>1, <2>2 DEF SwitchRuns, Hardware
<1>5. CASE RxJoin \/ RxLoad \/ RxStore
  <2>1. UNCHANGED <<queue, sdEvents, modeVars, fault>> /\ rx # "idle"
    BY <1>5 DEF RxJoin, RxLoad, RxStore
  <2> QED
    BY <2>1 DEF SwitchRuns, Hardware
<1>6. CASE SfBegin
  <2>1. UNCHANGED <<queue, sdEvents, modeVars, fault, rx>>
    BY <1>6 DEF SfBegin
  <2> QED
    BY <2>1 DEF SwitchRuns, Hardware
<1> QED
  BY <1>2, <1>3, <1>4, <1>5, <1>6 DEF RxSteps

\* The switch's invariant: unless a client writes mode 2, what is on is determined by
\* the step that ble_rs_mode_callback has reached and by the mode it recorded last.
THEOREM Switch == ASSUME ClientsKnown PROVE Spec => []SwitchInv
<1>1. SwitchInv /\ [Next]_vars => SwitchInv'
  <2>1. SwitchInv /\ UNCHANGED vars => SwitchInv'
    BY DEF SwitchInv, OnlyKnownModes, SwitchRuns, Hardware, vars, modeVars, bleVars, syncVars
  <2> QED
    BY <2>1, SwitchAir, SwitchMainLoop, SwitchInterrupts DEF Next
<1> QED
  BY <1>1, SwitchInit, PTL DEF Spec

(* As long as no client writes ANCHOR_RANGING, the checks in start_uwb_comm *)
(* never fail.                                                              *)
THEOREM HardwareIsFree == ASSUME ClientsKnown PROVE Spec => []HardwareFree
<1>1. SwitchInv => HardwareFree
  BY DEF SwitchInv, HardwareFree
<1> QED
  BY <1>1, Switch, PTL

(* Between jobs, the radio, its timer and its receiver are on in ranging   *)
(* mode only.                                                              *)
THEOREM UwbSwitched == ASSUME ClientsKnown PROVE Spec => []UwbFollowsMode
<1>1. SwitchInv => UwbFollowsMode
  BY DEF SwitchInv, OnlyKnownModes, Hardware, UwbFollowsMode
<1> QED
  BY <1>1, Switch, PTL

(* A message's handler always finds the frame timer and the radio.         *)
THEOREM TimerFound == ASSUME ClientsKnown PROVE Spec => []RadioFindsTimer
<1>1. SwitchInv => RadioFindsTimer
  BY DEF SwitchInv, OnlyKnownModes, Hardware, RadioFindsTimer
<1> QED
  BY <1>1, Switch, PTL

(* The switch as a whole, between jobs and during them.                    *)
THEOREM SwitchIsKept == ASSUME ClientsKnown PROVE Spec => []SwitchKept
<1>1. UwbFollowsMode /\ RadioFindsTimer => SwitchKept
  BY DEF SwitchKept
<1> QED
  BY <1>1, UwbSwitched, TimerFound, PTL

-----------------------------------------------------------------------------
(* The tick timer.                                                         *)

LEMMA TickSteps ==
    ASSUME refs \in Nat, RtcRunsIffUsed
    PROVE  /\ UseTick => RtcRunsIffUsed'
           /\ ReleaseTick => RtcRunsIffUsed'
           /\ UNCHANGED <<refs, rtc>> => RtcRunsIffUsed'
<1>1. ASSUME UseTick PROVE RtcRunsIffUsed'
  <2>1. rtc' /\ refs' > 0
    BY <1>1 DEF UseTick
  <2> QED
    BY <2>1 DEF RtcRunsIffUsed
<1>2. ASSUME ReleaseTick PROVE RtcRunsIffUsed'
  <2>1. refs' > 0 <=> refs > 1
    BY <1>2 DEF ReleaseTick
  <2>2. rtc' <=> (rtc /\ refs > 1)
    BY <1>2, Zenon DEF ReleaseTick
  <2>3. refs > 1 => refs > 0
    OBVIOUS
  <2> QED
    BY <2>1, <2>2, <2>3 DEF RtcRunsIffUsed
<1> QED
  BY <1>1, <1>2 DEF RtcRunsIffUsed

(* The tick timer runs exactly while it has users, whatever the order of   *)
(* uses and releases.                                                      *)
THEOREM TickCounted == Spec => []RtcRunsIffUsed
<1>1. Init => RtcRunsIffUsed
  <2>1. Init => ~rtc
    BY Zenon DEF Init
  <2>2. Init => ~(refs > 0)
    BY DEF Init
  <2> QED
    BY <2>1, <2>2 DEF RtcRunsIffUsed
<1>2. TypeOK /\ RtcRunsIffUsed /\ [Next]_vars => RtcRunsIffUsed'
  <2> SUFFICES ASSUME TypeOK, RtcRunsIffUsed, [Next]_vars PROVE RtcRunsIffUsed'
    OBVIOUS
  <2>1. UseTick \/ ReleaseTick \/ UNCHANGED <<refs, rtc>>
    BY DEF Next, Air, Connect, Disconnect, WriteMode, WriteAccel, SdEvent, MainLoop, PollEvent,
           PollDone, SendNotification, AccelState, StartSteps, StartUwb, EnableReceiver,
           FinishStart, StopSteps, StopReceiver, StopTimer, FinishStop, OnlyRecordMode,
           Sample, Receive, RxSteps, RxJoin, RxLoad, RxStore, RxPut, SfBegin, powerVars, vars
  <2> QED
    BY <2>1, TickSteps DEF TypeOK, ModeType
<1> QED
  BY <1>1, <1>2, TypeCorrect, PTL DEF Spec

-----------------------------------------------------------------------------
(* Synchronisation.                                                        *)

(* A tag that is about to listen is in DISCOVERY. *)
FreshInv == tagState = "SYNCHRONIZED" /\ (rxOn \/ phase = "enable") => fresh

(* The tag is synchronised only by a message of the present session.       *)
THEOREM SessionFresh == Spec => []SynchronizedByMessage
<1>1. Init => FreshInv
  BY DEF Init, FreshInv
<1>2. FreshInv /\ [Next]_vars => FreshInv'
  <2> SUFFICES ASSUME FreshInv, [Next]_vars PROVE FreshInv'
    OBVIOUS
  <2> USE DEF FreshInv
  <2>1. CASE UNCHANGED <<tagState, rxOn, phase, fresh>>
    BY <2>1
  <2>2. CASE StartUwb
    BY <2>2, Zenon DEF StartUwb
  <2>3. CASE EnableReceiver
    BY <2>3 DEF EnableReceiver, syncVars
  <2>4. CASE FinishStart \/ StopTimer \/ FinishStop
    BY <2>4 DEF FinishStart, StopTimer, FinishStop, syncVars
  <2>5. CASE StopReceiver
    BY <2>5, Zenon DEF StopReceiver, syncVars
  <2>6. CASE RxJoin \/ RxStore
    BY <2>6, Zenon DEF RxJoin, RxStore
  <2>7. CASE SfBegin
    BY <2>7, Zenon DEF SfBegin, modeVars
  <2> QED
    BY <2>1, <2>2, <2>3, <2>4, <2>5, <2>6, <2>7
       DEF Next, Air, Connect, Disconnect, WriteMode, WriteAccel, SdEvent, MainLoop, PollEvent,
           PollDone, SendNotification, AccelState, StartSteps, StopSteps, OnlyRecordMode,
           Sample, Receive, RxSteps, RxLoad, RxPut, modeVars, syncVars, vars
<1>3. FreshInv => SynchronizedByMessage
  BY DEF FreshInv, SynchronizedByMessage
<1> QED
  BY <1>1, <1>2, <1>3, PTL DEF Spec

(* The silent superframes that are counted are at most those that ended    *)
(* since a message was counted.                                            *)
QuietInv == quiet <= LossLimit => unsynced <= quiet

LEMMA QuietStep ==
    ASSUME SyncType, QuietInv, SfBegin
    PROVE  /\ QuietInv'
           /\ tagState' # tagState => quiet >= LossLimit
<1>1. /\ quiet \in 0..(LossLimit + 1) /\ unsynced \in 0..(Byte - 1)
      /\ quiet' = IF quiet > LossLimit THEN quiet ELSE quiet + 1
      /\ unsynced' = IF received = 0 THEN (unsynced + 1) % Byte ELSE unsynced
  BY DEF SyncType, SfBegin
<1>2. quiet <= LossLimit => (unsynced + 1) % Byte = unsynced + 1
  BY <1>1, CounterAssumption DEF QuietInv
<1>3. QuietInv'
  BY <1>1, <1>2, CounterAssumption DEF QuietInv
<1>4. tagState' # tagState => (unsynced + 1) % Byte > LossLimit
  BY DEF SfBegin
<1> QED
  BY <1>1, <1>2, <1>3, <1>4, CounterAssumption DEF QuietInv

(* A counted message keeps the tag synchronised for LossLimit superframes, *)
(* although the timer's interrupt may come between the load and the store. *)
THEOREM SyncHeld == Spec => SyncKept
<1> DEFINE NotLost == tagState = "SYNCHRONIZED" /\ tagState' = "DISCOVERY" /\ phase' = phase
                        => quiet >= LossLimit
<1>1. Init => QuietInv
  BY CounterAssumption DEF Init, QuietInv
<1>2. TypeOK /\ QuietInv /\ [Next]_vars => QuietInv' /\ [NotLost]_vars
  <2> SUFFICES ASSUME TypeOK, QuietInv, [Next]_vars PROVE QuietInv' /\ NotLost
    OBVIOUS
  <2> USE DEF QuietInv
  <2>1. CASE UNCHANGED <<unsynced, quiet, tagState>>
    BY <2>1
  <2>2. CASE StartUwb
    <3>1. \/ UNCHANGED <<quiet, unsynced, tagState>>
          \/ quiet' = LossLimit + 1 /\ phase = "idle" /\ phase' = "enable"
      BY <2>2 DEF StartUwb, ModeJob
    <3> QED
      BY <3>1, CounterAssumption
  <2>3. CASE RxJoin
    BY <2>3 DEF RxJoin
  <2>4. CASE RxStore
    BY <2>4 DEF RxStore
  <2>5. CASE SfBegin
    BY <2>5, QuietStep DEF TypeOK
  <2> QED
    BY <2>1, <2>2, <2>3, <2>4, <2>5
       DEF Next, Air, Connect, Disconnect, WriteMode, WriteAccel, SdEvent, MainLoop, PollEvent,
           PollDone, SendNotification, AccelState, StartSteps, EnableReceiver, FinishStart,
           StopSteps, StopReceiver, StopTimer, FinishStop, OnlyRecordMode,
           Sample, Receive, RxSteps, RxLoad, RxPut, syncVars, vars
<1> QED
  BY <1>1, <1>2, TypeCorrect, PTL DEF Spec, SyncKept

-----------------------------------------------------------------------------
(* What the jobs in the queue lead to.                                     *)

(* A job that is put does not change what those before it lead to.         *)
LEMMA LeadsPut ==
    ASSUME NEW S, NEW q \in Seq(S), NEW e \in S, NEW now, NEW m, NEW n \in 0..Len(q),
           LeadsTo(now, q, n, m)
    PROVE  LeadsTo(now, Put(q, e), n, m)
<1>1. \A k \in 1..n : Put(q, e)[k] = q[k]
  BY AppendProperties DEF Put
<1> QED
  BY <1>1 DEF LeadsTo

(* Behind the last job, only a mode's changes it.                          *)
LEMMA LeadsPutLast ==
    ASSUME NEW S, NEW q \in Seq(S), NEW e \in S, NEW now, NEW m
    PROVE  /\ e.kind # "mode" /\ LeadsTo(now, q, Len(q), m)
                => LeadsTo(now, Put(q, e), Len(Put(q, e)), m)
           /\ e.kind = "mode" /\ ~Full(q) => LeadsTo(now, Put(q, e), Len(Put(q, e)), e.arg)
<1>1. CASE Full(q)
  BY <1>1 DEF Put
<1>2. CASE ~Full(q)
  <2>1. PICK n \in Nat : n = Len(q)
    BY LenProperties
  <2>2. Len(Put(q, e)) = n + 1 /\ Put(q, e)[n + 1] = e
    BY <1>2, <2>1, AppendProperties DEF Put
  <2>3. \A k \in 1..n : Put(q, e)[k] = q[k]
    BY <1>2, <2>1, AppendProperties DEF Put
  <2>4. \A k \in 1..(n + 1) : k \in 1..n \/ k = n + 1
    BY <2>1
  <2>5. ASSUME e.kind # "mode", LeadsTo(now, q, n, m) PROVE LeadsTo(now, Put(q, e), n + 1, m)
    <3>1. CASE now = m /\ \A k \in 1..n : q[k].kind # "mode"
      BY <2>2, <2>3, <2>4, <2>5, <3>1 DEF LeadsTo
    <3>2. CASE \E j \in 1..n : /\ q[j].kind = "mode" /\ q[j].arg = m
                               /\ \A k \in (j + 1)..n : q[k].kind # "mode"
      <4>1. PICK j \in 1..n : /\ q[j].kind = "mode" /\ q[j].arg = m
                              /\ \A k \in (j + 1)..n : q[k].kind # "mode"
        BY <3>2
      <4>2. \A k \in (j + 1)..(n + 1) : Put(q, e)[k].kind # "mode"
        <5>1. \A k \in (j + 1)..(n + 1) : k = n + 1 \/ (k \in (j + 1)..n /\ k \in 1..n)
          BY <2>1, <4>1
        <5> QED
          BY <2>2, <2>3, <2>5, <4>1, <5>1
      <4>3. j \in 1..(n + 1) /\ Put(q, e)[j] = q[j]
        BY <2>1, <2>3, <4>1
      <4> QED
        BY <4>1, <4>2, <4>3 DEF LeadsTo
    <3> QED
      BY <2>5, <3>1, <3>2 DEF LeadsTo
  <2>6. ASSUME e.kind = "mode" PROVE LeadsTo(now, Put(q, e), n + 1, e.arg)
    <3>1. n + 1 \in 1..(n + 1) /\ ((n + 1) + 1)..(n + 1) = {}
      BY <2>1
    <3> QED
      BY <2>2, <2>6, <3>1 DEF LeadsTo
  <2> QED
    BY <2>1, <2>2, <2>5, <2>6
<1> QED
  BY <1>1, <1>2

(* The job at the head is done: the tag's mode is its argument if it is a mode's. *)
LEMMA LeadsTake ==
    ASSUME NEW S, NEW q \in Seq(S), q # <<>>, NEW now, NEW m, NEW n \in 1..Len(q), LeadsTo(now, q, n, m)
    PROVE  LeadsTo(IF Head(q).kind = "mode" THEN Head(q).arg ELSE now, Tail(q), n - 1, m)
<1> DEFINE next == IF Head(q).kind = "mode" THEN Head(q).arg ELSE now
<1>1. /\ Len(q) \in Nat /\ Head(q) = q[1] /\ n \in Nat
      /\ \A k \in 1..(n - 1) : Tail(q)[k] = q[k + 1]
  BY LenProperties, HeadTailProperties
<1>2. ASSUME \A k \in 2..n : q[k].kind # "mode" PROVE \A k \in 1..(n - 1) : Tail(q)[k].kind # "mode"
  BY <1>1, <1>2
<1>3. CASE now = m /\ \A k \in 1..n : q[k].kind # "mode"
  BY <1>1, <1>2, <1>3 DEF LeadsTo
<1>4. CASE \E j \in 1..n : /\ q[j].kind = "mode" /\ q[j].arg = m
                           /\ \A k \in (j + 1)..n : q[k].kind # "mode"
  <2>1. PICK j \in 1..n : /\ q[j].kind = "mode" /\ q[j].arg = m
                          /\ \A k \in (j + 1)..n : q[k].kind # "mode"
    BY <1>4
  <2>2. CASE j = 1
    <3>1. next = m /\ \A k \in 2..n : q[k].kind # "mode"
      BY <1>1, <2>1, <2>2
    <3> QED
      BY <1>2, <3>1 DEF LeadsTo
  <2>3. CASE j # 1
    <3>1. PICK i \in 1..(n - 1) : j = i + 1
      BY <1>1, <2>1, <2>3
    <3>2. Tail(q)[i] = q[j]
      BY <1>1, <3>1
    <3>3. \A k \in (i + 1)..(n - 1) : Tail(q)[k].kind # "mode"
      <4>1. \A k \in (i + 1)..(n - 1) : k \in 1..(n - 1) /\ k + 1 \in (j + 1)..n
        BY <1>1, <3>1
      <4> QED
        BY <1>1, <2>1, <4>1
    <3> QED
      BY <2>1, <3>1, <3>2, <3>3 DEF LeadsTo
  <2> QED
    BY <2>2, <2>3
<1> QED
  BY <1>3, <1>4 DEF LeadsTo

-----------------------------------------------------------------------------
(* The client's mode.                                                      *)

LEMMA FollowsPut ==
    ASSUME QueueType, ModeFollowsClient, NEW e \in Jobs, e.kind # "mode",
           queue' = Put(queue, e), UNCHANGED <<lost, rsMode, tagMode>>
    PROVE  ModeFollowsClient'
BY LeadsPutLast DEF QueueType, ModeFollowsClient

LEMMA FollowsTake ==
    ASSUME QueueType, ModeFollowsClient, queue # <<>>, queue' = Tail(queue), UNCHANGED <<lost, rsMode>>,
           tagMode' = IF Head(queue).kind = "mode" THEN Head(queue).arg ELSE tagMode
    PROVE  ModeFollowsClient'
<1>1. queue \in Seq(Jobs) /\ Len(queue) \in 1..Len(queue) /\ Len(Tail(queue)) = Len(queue) - 1
  BY TakeJob, EmptySeq, LenProperties DEF QueueType
<1>2. lost' = lost /\ rsMode' = rsMode /\ Len(queue') = Len(queue) - 1
  BY <1>1
<1>3. ASSUME LeadsTo(tagMode, queue, Len(queue), Effective(rsMode))
      PROVE  LeadsTo(tagMode', queue', Len(queue'), Effective(rsMode'))
  BY <1>1, <1>2, <1>3, LeadsTake
<1> QED
  BY <1>2, <1>3 DEF ModeFollowsClient

(* A disconnection puts power-down before the accelerometer's job, if there *)
(* is room for it.                                                          *)
LEMMA FollowsPoll == OtherTypes /\ ModeFollowsClient /\ PollEvent => ModeFollowsClient'
<1> SUFFICES ASSUME OtherTypes, ModeFollowsClient, PollEvent PROVE ModeFollowsClient'
  OBVIOUS
<1> DEFINE e == Head(sdEvents)
<1>1. /\ QueueType /\ queue \in Seq(Jobs) /\ UNCHANGED tagMode /\ e.arg \in 0..4
  BY TakeJob, JobType DEF PollEvent, OtherTypes, BleType, QueueType, modeVars
<1>2. CASE OnConnected(e)
  BY <1>1, <1>2 DEF OnConnected, ModeFollowsClient
<1>3. ASSUME NEW m \in 0..4, rsMode' = m, lost' = Full(queue), NEW q \in Seq(Jobs),
             q = Put(queue, Job("mode", Effective(m))),
             queue' = q \/ queue' = Put(q, Job("accel", POWERDOWN))
      PROVE  ModeFollowsClient'
  <2>1. CASE Full(queue)
    BY <1>3, <2>1 DEF ModeFollowsClient
  <2>2. CASE ~Full(queue)
    <3>1. Job("mode", Effective(m)) \in Jobs /\ Job("accel", POWERDOWN) \in Jobs
      BY JobType
    <3>2. LeadsTo(tagMode, q, Len(q), Effective(m))
      BY <1>1, <1>3, <2>2, <3>1, LeadsPutLast DEF Job
    <3>3. LeadsTo(tagMode, queue', Len(queue'), Effective(m))
      BY <1>3, <3>1, <3>2, LeadsPutLast DEF Job
    <3> QED
      BY <1>1, <1>3, <3>3 DEF ModeFollowsClient
  <2> QED
    BY <2>1, <2>2
<1>4. \A m \in 0..4 : Put(queue, Job("mode", Effective(m))) \in Seq(Jobs)
  BY <1>1, PutJob, JobType
<1>5. CASE OnDisconnected(e)
  <2>1. CASE rsMode = DEBUG
    <3>1. queue' = Put(queue, Job("accel", POWERDOWN)) /\ UNCHANGED <<lost, rsMode>>
      BY <1>5, <2>1 DEF OnDisconnected
    <3>2. Job("accel", POWERDOWN) \in Jobs /\ Job("accel", POWERDOWN).kind # "mode"
      BY JobType DEF Job
    <3> QED
      BY <1>1, <3>1, <3>2, FollowsPut
  <2>2. CASE rsMode # DEBUG
    <3>1. /\ rsMode' = 0 /\ lost' = Full(queue) /\ Effective(0) = POWERDOWN
          /\ queue' = Put(Put(queue, Job("mode", POWERDOWN)), Job("accel", POWERDOWN))
      BY <1>5, <2>2 DEF OnDisconnected, Effective
    <3> QED
      BY <1>3, <1>4, <3>1
  <2> QED
    BY <2>1, <2>2
<1>6. CASE OnWriteMode(e)
  BY <1>1, <1>3, <1>4, <1>6 DEF OnWriteMode, SetRsMode
<1>7. CASE OnWriteAccel(e)
  <2>1. Job("accel", e.arg) \in Jobs /\ Job("accel", e.arg).kind # "mode"
    BY <1>1, JobType DEF Job
  <2> QED
    BY <1>1, <1>7, <2>1, FollowsPut DEF OnWriteAccel
<1> QED
  BY <1>2, <1>5, <1>6, <1>7 DEF PollEvent

(* Which steps put a job, take one or leave the queue alone. *)
LEMMA QueueSteps ==
    ASSUME Next
    PROVE  \/ PollEvent
           \/ /\ UNCHANGED <<queue, lost, rsMode, tagMode>>
              /\ UNCHANGED refs
           \/ /\ \E kind \in {"poll", "sample", "ranging"} : queue' = Put(queue, Job(kind, 0))
              /\ UNCHANGED <<lost, rsMode, tagMode, refs>>
           \/ /\ queue # <<>> /\ queue' = Tail(queue) /\ UNCHANGED <<lost, rsMode>>
              /\ tagMode' = IF Head(queue).kind = "mode" THEN Head(queue).arg ELSE tagMode
              /\ PollDone \/ SendNotification \/ AccelState \/ FinishStart \/ FinishStop \/ OnlyRecordMode
<1> USE DEF bleVars, modeVars, powerVars
<1>1. CASE Air
  <2>1. queue' = Put(queue, Job("poll", 0)) /\ UNCHANGED <<lost, rsMode, tagMode, refs>>
    BY <1>1 DEF Air, Connect, Disconnect, WriteMode, WriteAccel, SdEvent, Put
  <2> QED
    BY <2>1
<1>2. CASE Sample
  BY <1>2 DEF Sample
<1>3. CASE Receive \/ RxJoin \/ RxLoad \/ RxStore \/ SfBegin
  BY <1>3 DEF Receive, RxJoin, RxLoad, RxStore, SfBegin
<1>4. CASE RxPut
  BY <1>4 DEF RxPut
<1>5. CASE PollDone \/ SendNotification \/ AccelState
  <2>1. queue # <<>> /\ queue' = Tail(queue) /\ Head(queue).kind # "mode" /\ UNCHANGED <<lost, rsMode, tagMode>>
    BY <1>5 DEF PollDone, SendNotification, AccelState, Running
  <2> QED
    BY <1>5, <2>1
<1>6. CASE StartUwb \/ EnableReceiver \/ StopReceiver \/ StopTimer
  BY <1>6 DEF StartUwb, EnableReceiver, StopReceiver, StopTimer
<1>7. CASE FinishStart \/ FinishStop \/ OnlyRecordMode
  <2>1. /\ queue # <<>> /\ queue' = Tail(queue) /\ Head(queue).kind = "mode" /\ tagMode' = Head(queue).arg
        /\ UNCHANGED <<lost, rsMode>>
    BY <1>7 DEF FinishStart, FinishStop, OnlyRecordMode, Running
  <2> QED
    BY <1>7, <2>1
<1> QED
  BY <1>1, <1>2, <1>3, <1>4, <1>5, <1>6, <1>7 DEF Next, MainLoop, StartSteps, StopSteps, RxSteps

(* The queue never brings a stale change of the mode after a newer one: the *)
(* tag is or will be in the mode that was asked for last, unless the change *)
(* did not fit.                                                             *)
THEOREM ClientFollowed == Spec => []ModeFollowsClient
<1>1. Init => ModeFollowsClient
  <2> SUFFICES ASSUME Init PROVE ModeFollowsClient
    OBVIOUS
  <2>1. tagMode = POWERDOWN /\ Effective(rsMode) = POWERDOWN /\ Len(queue) = 0
    BY EmptySeq DEF Init, Effective
  <2> QED
    BY <2>1 DEF ModeFollowsClient, LeadsTo
<1>2. OtherTypes /\ ModeFollowsClient /\ [Next]_vars => ModeFollowsClient'
  <2> SUFFICES ASSUME OtherTypes, ModeFollowsClient, [Next]_vars PROVE ModeFollowsClient'
    OBVIOUS
  <2>0. QueueType /\ \A kind \in {"poll", "sample", "ranging"} :
                        Job(kind, 0) \in Jobs /\ Job(kind, 0).kind # "mode"
    BY JobType DEF OtherTypes, Job
  <2>1. CASE UNCHANGED <<queue, lost, rsMode, tagMode>>
    BY <2>1 DEF ModeFollowsClient
  <2>2. CASE Next
    BY <2>0, <2>1, <2>2, QueueSteps, FollowsPoll, FollowsPut, FollowsTake
  <2> QED
    BY <2>1, <2>2 DEF vars, bleVars, modeVars
<1>3. TypeOK => OtherTypes
  BY DEF TypeOK, OtherTypes
<1> QED
  BY <1>1, <1>2, <1>3, TypeCorrect, PTL DEF Spec

-----------------------------------------------------------------------------
(* The tick timer of a tag whose client switches ranging on and off only,  *)
(* as the phone does: it has one user, the ranging, and each disconnection *)
(* releases it when the radio is off already.                              *)

PhoneClient == ClientModes \subseteq {POWERDOWN, RANGING} /\ AccelModes = {}

PhoneEvents == {e \in SdEvents : /\ e.kind \in {"connected", "disconnected", "mode"}
                                 /\ e.kind = "mode" => e.arg \in {POWERDOWN, RANGING}}

(* A job that releases the tick timer comes when the tag is powered down.  *)
Released(now, q) ==
    \A n \in 1..Len(q) :
        q[n].kind = "accel" => q[n].arg = POWERDOWN /\ LeadsTo(now, q, n - 1, POWERDOWN)

Users ==
    /\ phase = "idle" => refs = IF tagMode = RANGING THEN 1 ELSE 0
    /\ phase \in {"enable", "tick"} => refs = 0
    /\ phase \in {"timer", "release"} => refs = 1

(* The client's events end with its disconnection, and the service is reset *)
(* when that was handled.                                                   *)
Session ==
    /\ sdEvents \in Seq(PhoneEvents) /\ rsMode \in {POWERDOWN, RANGING}
    /\ fault = "none" =>
         /\ link = "adv" => sdEvents = <<>> /\ rsMode = POWERDOWN
         /\ link = "up" => \A i \in 1..Len(sdEvents) : sdEvents[i].kind # "disconnected"
         /\ link = "down" =>
              /\ sdEvents # <<>>
              /\ \A i \in 1..Len(sdEvents) : sdEvents[i].kind = "disconnected" <=> i = Len(sdEvents)

TickInv == Released(tagMode, queue) /\ Users /\ Session /\ (fault # "none" => queue # <<>>)

LEMMA ReleasedPut ==
    ASSUME NEW q \in Seq(Jobs), NEW e \in Jobs, NEW now, Released(now, q),
           e.kind = "accel" => e.arg = POWERDOWN /\ (Full(q) \/ LeadsTo(now, q, Len(q), POWERDOWN))
    PROVE  Released(now, Put(q, e))
<1>1. CASE Full(q)
  BY <1>1 DEF Put
<1>2. CASE ~Full(q)
  <2>1. PICK k \in Nat : k = Len(q)
    BY LenProperties
  <2>2. Len(Put(q, e)) = k + 1 /\ Put(q, e)[k + 1] = e
    BY <1>2, <2>1, AppendProperties DEF Put
  <2>3. ASSUME NEW n \in 1..(k + 1), Put(q, e)[n].kind = "accel"
        PROVE  Put(q, e)[n].arg = POWERDOWN /\ LeadsTo(now, Put(q, e), n - 1, POWERDOWN)
    <3>1. CASE n = k + 1
      <4>1. e.arg = POWERDOWN /\ LeadsTo(now, q, k, POWERDOWN) /\ k \in 0..Len(q)
        BY <1>2, <2>1, <2>2, <2>3, <3>1
      <4>2. LeadsTo(now, Put(q, e), k, POWERDOWN)
        BY <4>1, LeadsPut
      <4>3. n - 1 = k
        BY <2>1, <3>1
      <4> QED
        BY <2>2, <3>1, <4>1, <4>2, <4>3
    <3>2. CASE n \in 1..k
      <4>1. Put(q, e)[n] = q[n]
        BY <1>2, <2>1, <3>2, AppendProperties DEF Put
      <4>2. q[n].arg = POWERDOWN /\ LeadsTo(now, q, n - 1, POWERDOWN)
        BY <2>1, <2>3, <3>2, <4>1 DEF Released
      <4>3. n - 1 \in 0..Len(q)
        BY <2>1, <3>2
      <4> QED
        BY <4>1, <4>2, <4>3, LeadsPut
    <3> QED
      BY <2>1, <3>1, <3>2
  <2> QED
    BY <2>2, <2>3 DEF Released
<1> QED
  BY <1>1, <1>2

LEMMA ReleasedTake ==
    ASSUME NEW q \in Seq(Jobs), q # <<>>, NEW now, Released(now, q)
    PROVE  /\ Released(IF Head(q).kind = "mode" THEN Head(q).arg ELSE now, Tail(q))
           /\ Head(q).kind = "accel" => Head(q).arg = POWERDOWN /\ now = POWERDOWN
<1>1. PICK k \in Nat : k = Len(q) /\ k >= 1
  BY LenProperties, EmptySeq
<1>2. /\ Len(Tail(q)) = k - 1 /\ Head(q) = q[1]
      /\ \A n \in 1..(k - 1) : Tail(q)[n] = q[n + 1]
  BY <1>1, HeadTailProperties
<1>3. ASSUME NEW n \in 1..(k - 1), Tail(q)[n].kind = "accel"
      PROVE  /\ Tail(q)[n].arg = POWERDOWN
             /\ LeadsTo(IF Head(q).kind = "mode" THEN Head(q).arg ELSE now, Tail(q), n - 1, POWERDOWN)
  <2>1. n + 1 \in 1..Len(q) /\ n \in 1..Len(q) /\ (n + 1) - 1 = n /\ q[n + 1].kind = "accel"
    BY <1>1, <1>2, <1>3
  <2>2. q[n + 1].arg = POWERDOWN /\ LeadsTo(now, q, n, POWERDOWN)
    BY <2>1 DEF Released
  <2> QED
    BY <1>2, <2>1, <2>2, LeadsTake
<1>4. ASSUME Head(q).kind = "accel" PROVE Head(q).arg = POWERDOWN /\ now = POWERDOWN
  <2>1. q[1].arg = POWERDOWN /\ LeadsTo(now, q, 1 - 1, POWERDOWN)
    BY <1>1, <1>2, <1>4 DEF Released
  <2> QED
    BY <1>2, <2>1 DEF LeadsTo
<1> QED
  BY <1>2, <1>3, <1>4 DEF Released

LEMMA ReleasedStep ==
    ASSUME PhoneClient, TypeOK, SwitchInv, TickInv, Next
    PROVE  Released(tagMode, queue)'
<1>1. queue \in Seq(Jobs) /\ Released(tagMode, queue) /\ Session
  BY DEF TypeOK, QueueType, TickInv
<1>2. ASSUME UNCHANGED <<queue, tagMode>> PROVE Released(tagMode, queue)'
  BY <1>1, <1>2
<1>3. ASSUME NEW kind \in {"poll", "sample", "ranging"}, queue' = Put(queue, Job(kind, 0)), UNCHANGED tagMode
      PROVE  Released(tagMode, queue)'
  <2>1. Job(kind, 0) \in Jobs /\ Job(kind, 0).kind # "accel"
    BY JobType DEF Job
  <2>2. Released(tagMode, Put(queue, Job(kind, 0)))
    BY <1>1, <2>1, ReleasedPut
  <2> QED
    BY <1>3, <2>2
<1>4. ASSUME queue # <<>>, queue' = Tail(queue),
             tagMode' = IF Head(queue).kind = "mode" THEN Head(queue).arg ELSE tagMode
      PROVE  Released(tagMode, queue)'
  BY <1>1, <1>4, ReleasedTake
<1>5. CASE PollEvent
  <2> DEFINE e == Head(sdEvents)
             mode(m) == Put(queue, Job("mode", Effective(m)))
  <2>1. UNCHANGED tagMode /\ e \in PhoneEvents /\ rsMode # DEBUG
    BY <1>1, <1>5, TakeJob DEF PollEvent, modeVars, Session
  <2>2. \A m \in 0..4 : /\ Job("mode", Effective(m)) \in Jobs /\ Job("mode", Effective(m)).kind = "mode"
                        /\ Job("mode", Effective(m)).arg = Effective(m)
    BY JobType DEF Job
  <2>3. \A m \in 0..4 : mode(m) \in Seq(Jobs) /\ Released(tagMode, mode(m))
    BY <1>1, <2>2, PutJob, ReleasedPut
  <2>4. CASE OnConnected(e)
    BY <1>2, <2>1, <2>4 DEF OnConnected
  <2>5. CASE OnDisconnected(e)
    <3>1. Effective(0) = POWERDOWN /\ queue' = Put(mode(0), Job("accel", POWERDOWN))
      BY <2>1, <2>5 DEF OnDisconnected, Effective
    <3>2. Full(mode(0)) \/ LeadsTo(tagMode, mode(0), Len(mode(0)), POWERDOWN)
      BY <1>1, <2>2, <3>1, LeadsPutLast DEF Put
    <3>3. Job("accel", POWERDOWN) \in Jobs /\ Job("accel", POWERDOWN).arg = POWERDOWN
      BY JobType DEF Job
    <3>4. mode(0) \in Seq(Jobs) /\ Released(tagMode, mode(0))
      BY <2>3
    <3>5. Released(tagMode, Put(mode(0), Job("accel", POWERDOWN)))
      BY <3>2, <3>3, <3>4, ReleasedPut
    <3> QED
      BY <2>1, <3>1, <3>5
  <2>6. CASE OnWriteMode(e)
    <3>1. e.arg \in 0..4 /\ queue' = mode(e.arg)
      BY <2>1, <2>6, JobType DEF OnWriteMode, SetRsMode, PhoneEvents
    <3> QED
      BY <2>1, <2>3, <3>1
  <2>7. ~OnWriteAccel(e)
    BY <2>1 DEF OnWriteAccel, PhoneEvents
  <2> QED
    BY <1>5, <2>4, <2>5, <2>6, <2>7 DEF PollEvent
<1> QED
  BY <1>2, <1>3, <1>4, <1>5, QueueSteps

LEMMA UsersStep ==
    ASSUME PhoneClient, TypeOK, SwitchInv, TickInv, Next
    PROVE  Users'
<1>1. Users /\ queue \in Seq(Jobs) /\ Released(tagMode, queue)
  BY DEF TypeOK, QueueType, TickInv
<1>2. ASSUME UNCHANGED <<phase, refs, tagMode>> PROVE Users'
  BY <1>1, <1>2 DEF Users
<1>3. CASE Air \/ Sample \/ Receive \/ RxSteps \/ SfBegin \/ PollEvent \/ PollDone \/ SendNotification
  BY <1>2, <1>3 DEF Air, Connect, Disconnect, WriteMode, WriteAccel, SdEvent, Sample, Receive, RxSteps, RxJoin,
                    RxLoad, RxStore, RxPut, SfBegin, PollEvent, PollDone, SendNotification, modeVars, powerVars
<1>4. CASE AccelState
  <2>1. queue # <<>> /\ Head(queue).kind = "accel" /\ UNCHANGED <<phase, tagMode>>
    BY <1>4 DEF AccelState, Running, modeVars
  <2>2. tagMode = POWERDOWN /\ Head(queue).arg = POWERDOWN
    BY <1>1, <2>1, ReleasedTake
  <2>3. phase = "idle"
    BY <2>1 DEF SwitchInv, SwitchRuns
  <2>4. refs = 0 /\ refs' = 0
    BY <1>1, <1>4, <2>2, <2>3 DEF Users, AccelState, ReleaseTick
  <2> QED
    BY <2>1, <2>2, <2>3, <2>4 DEF Users
<1>5. CASE StartUwb
  BY <1>1, <1>5 DEF StartUwb, ModeJob, powerVars, Users
<1>6. CASE EnableReceiver \/ StopTimer
  BY <1>1, <1>6 DEF EnableReceiver, StopTimer, powerVars, Users
<1>7. CASE StopReceiver
  BY <1>1, <1>7 DEF StopReceiver, ModeJob, powerVars, Users
<1>8. CASE FinishStart
  <2>1. tagMode' = RANGING /\ phase' = "idle" /\ phase = "tick"
    BY <1>8 DEF FinishStart, SwitchInv, SwitchRuns
  <2>2. refs' = 1
    BY <1>1, <1>8, <2>1 DEF FinishStart, UseTick, Users
  <2> QED
    BY <2>1, <2>2 DEF Users
<1>9. CASE FinishStop
  <2>1. tagMode' = POWERDOWN /\ phase' = "idle" /\ phase = "release"
    BY <1>9 DEF FinishStop, SwitchInv, SwitchRuns
  <2>2. refs' = 0
    BY <1>1, <1>9, <2>1 DEF FinishStop, ReleaseTick, Users
  <2> QED
    BY <2>1, <2>2 DEF Users
<1>10. CASE OnlyRecordMode
  <2>1. Head(queue).arg \in {POWERDOWN, RANGING} /\ tagMode \in {POWERDOWN, RANGING}
    BY <1>10, SwitchTake DEF OnlyRecordMode, Running, bleVars, SwitchInv, OnlyKnownModes
  <2>2. tagMode' = tagMode
    BY <1>10, <2>1 DEF OnlyRecordMode
  <2> QED
    BY <1>2, <1>10, <2>2 DEF OnlyRecordMode, powerVars
<1> QED
  BY <1>3, <1>4, <1>5, <1>6, <1>7, <1>8, <1>9, <1>10 DEF Next, MainLoop, StartSteps, StopSteps

LEMMA SessionStep ==
    ASSUME PhoneClient, TypeOK, SwitchInv, TickInv, Next
    PROVE  Session' /\ (fault' # "none" => queue' # <<>>)
<1>1. /\ Session /\ (fault # "none" => queue # <<>>) /\ queue \in Seq(Jobs) /\ SwitchInv
      /\ sdEvents \in Seq(PhoneEvents) /\ Len(sdEvents) \in Nat
      /\ link \in {"adv", "up", "down"}
  BY LenProperties DEF TypeOK, BleType, QueueType, TickInv, Session
<1>2. CASE Air
  <2>1. PICK kind, arg : SdEvent(kind, arg) /\ Job(kind, arg) \in PhoneEvents
                        /\ \/ link = "adv" /\ link' = "up" /\ kind = "connected"
                           \/ link = "up" /\ link' = "down" /\ kind = "disconnected"
                           \/ link = "up" /\ link' = "up" /\ kind = "mode"
    <3>1. Job("connected", 0) \in PhoneEvents /\ Job("disconnected", 0) \in PhoneEvents
          /\ \A m \in ClientModes : Job("mode", m) \in PhoneEvents
      BY JobType DEF PhoneClient, PhoneEvents, Job, SdEvents
    <3>2. ~WriteAccel
      BY DEF WriteAccel, PhoneClient
    <3> QED
      BY <1>2, <3>1, <3>2 DEF Air, Connect, Disconnect, WriteMode
  <2>2. CASE Full(queue)
    <3>1. queue # <<>>
      BY <2>2, EmptySeq, CapacityAssumption DEF Full
    <3>2. fault' = "queue" /\ UNCHANGED <<sdEvents, queue, rsMode>>
      BY <2>1, <2>2 DEF SdEvent
    <3> QED
      BY <1>1, <3>1, <3>2 DEF Session
  <2>3. CASE ~Full(queue)
    <3>1. PICK k \in Nat : k = Len(sdEvents)
      BY <1>1
    <3>2. /\ sdEvents' = Append(sdEvents, Job(kind, arg)) /\ queue' = Append(queue, Job("poll", 0))
          /\ UNCHANGED <<fault, rsMode>> /\ fault = "none"
      BY <2>1, <2>3 DEF SdEvent
    <3>3. /\ sdEvents' \in Seq(PhoneEvents) /\ Len(sdEvents') = k + 1 /\ sdEvents'[k + 1] = Job(kind, arg)
          /\ \A i \in 1..k : sdEvents'[i] = sdEvents[i]
      BY <1>1, <2>1, <3>1, <3>2, AppendProperties
    <3>4. sdEvents' # <<>> /\ \A i \in 1..(k + 1) : i \in 1..k \/ i = k + 1
      BY <3>1, <3>3, EmptySeq
    <3>5. link = "adv" => k = 0
      BY <1>1, <3>1, <3>2, EmptySeq DEF Session
    <3>6. \A i \in 1..k : sdEvents[i].kind # "disconnected" /\ i # k + 1
      BY <1>1, <2>1, <3>1, <3>2, <3>5 DEF Session
    <3>7. Session'
      BY <1>1, <2>1, <3>2, <3>3, <3>4, <3>6 DEF Session, Job
    <3> QED
      BY <3>2, <3>7
  <2> QED
    BY <2>2, <2>3
<1>3. CASE PollEvent
  <2> DEFINE e == Head(sdEvents)
  <2>1. PICK k \in Nat : k = Len(sdEvents) /\ k >= 1
    BY <1>1, <1>3, EmptySeq DEF PollEvent
  <2>2. /\ sdEvents' \in Seq(PhoneEvents) /\ Len(sdEvents') = k - 1 /\ e = sdEvents[1] /\ e \in PhoneEvents
        /\ \A i \in 1..(k - 1) : sdEvents'[i] = sdEvents[i + 1]
    BY <1>1, <1>3, <2>1, HeadTailProperties DEF PollEvent
  <2>3. fault = "none" /\ fault' = "none" /\ link \in {"up", "down"}
    BY <1>1, <1>3 DEF PollEvent, Running, Session
  <2>4. CASE e.kind = "disconnected"
    <3>1. link = "down" /\ k = 1
      BY <1>1, <2>1, <2>2, <2>3, <2>4 DEF Session
    <3>2. sdEvents' = <<>>
      BY <2>2, <3>1, EmptySeq
    <3>3. link' = "adv" /\ rsMode' = POWERDOWN
      BY <1>1, <1>3, <2>4 DEF PollEvent, OnConnected, OnDisconnected, OnWriteMode, OnWriteAccel, Session
    <3> QED
      BY <2>2, <2>3, <3>2, <3>3 DEF Session
  <2>5. CASE e.kind # "disconnected"
    <3>1. link' = link /\ rsMode' \in {POWERDOWN, RANGING}
      BY <1>1, <1>3, <2>2, <2>5 DEF PollEvent, OnConnected, OnDisconnected, OnWriteMode, OnWriteAccel, SetRsMode,
                                    PhoneEvents, Session
    <3>2. \A i \in 1..(k - 1) : i + 1 \in 1..k /\ (i + 1 = k <=> i = k - 1)
      BY <2>1
    <3>3. link = "down" => k # 1
      BY <1>1, <2>1, <2>2, <2>3, <2>5 DEF Session
    <3>4. link = "down" => sdEvents' # <<>>
      BY <2>1, <2>2, <3>3, EmptySeq
    <3>5. link = "up" => \A i \in 1..(k - 1) : sdEvents'[i].kind # "disconnected"
      BY <1>1, <2>1, <2>2, <2>3, <3>2 DEF Session
    <3>6. link = "down" => \A i \in 1..(k - 1) : sdEvents'[i].kind = "disconnected" <=> i = k - 1
      BY <1>1, <2>1, <2>2, <2>3, <3>2 DEF Session
    <3> QED
      BY <2>2, <2>3, <3>1, <3>4, <3>5, <3>6 DEF Session
  <2> QED
    BY <2>4, <2>5
<1>4. CASE ~Air /\ ~PollEvent
  <2>1. UNCHANGED <<link, sdEvents, rsMode>>
    BY <1>4 DEF Next, MainLoop, PollDone, SendNotification, AccelState, StartSteps, StartUwb, EnableReceiver,
                FinishStart, StopSteps, StopReceiver, StopTimer, FinishStop, OnlyRecordMode, Sample, Receive, RxSteps,
                RxJoin, RxLoad, RxStore, RxPut, SfBegin, bleVars
  <2>2. Next => SwitchInv'
    BY SwitchAir, SwitchMainLoop, SwitchInterrupts, <1>1 DEF Next, PhoneClient, ClientsKnown
  <2>3. fault' \in {fault, "hardware"}
    BY <1>4 DEF Next, MainLoop, PollDone, SendNotification, AccelState, StartSteps, StartUwb, EnableReceiver,
                FinishStart, StopSteps, StopReceiver, StopTimer, FinishStop, OnlyRecordMode, Sample, Receive, RxSteps,
                RxJoin, RxLoad, RxStore, RxPut, SfBegin, bleVars
  <2>4. fault' = fault
    BY <2>2, <2>3 DEF SwitchInv
  <2>5. fault # "none" => queue' # <<>>
    <3>1. fault # "none" /\ ~PollEvent =>
             UNCHANGED queue \/ \E kind \in {"poll", "sample", "ranging"} : queue' = Put(queue, Job(kind, 0))
      BY <1>4, QueueSteps DEF PollDone, SendNotification, AccelState, FinishStart, FinishStop, OnlyRecordMode, Running
    <3>2. \A kind \in {"poll", "sample", "ranging"} : queue # <<>> => Put(queue, Job(kind, 0)) # <<>>
      BY <1>1, PutJob, JobType
    <3> QED
      BY <1>1, <1>4, <3>1, <3>2
  <2> QED
    BY <1>1, <2>1, <2>4, <2>5 DEF Session
<1> QED
  BY <1>2, <1>3, <1>4

(* For a client that only switches ranging on and off, as the phone does,  *)
(* the tick timer runs while the tag ranges and not after the client has   *)
(* gone and its jobs are done: no disconnection releases it too early.     *)
THEOREM TickIsForRanging == ASSUME PhoneClient PROVE Spec => []TickForRanging
<1>0. ClientsKnown
  BY DEF PhoneClient, ClientsKnown
<1>1. Init => TickInv
  <2> SUFFICES ASSUME Init PROVE TickInv
    OBVIOUS
  <2>1. /\ queue = <<>> /\ sdEvents = <<>> /\ Len(queue) = 0 /\ phase = "idle" /\ tagMode = POWERDOWN /\ refs = 0
        /\ rsMode = POWERDOWN /\ link = "adv" /\ fault = "none" /\ <<>> \in Seq(PhoneEvents)
    BY EmptySeq DEF Init
  <2> QED
    BY <2>1 DEF TickInv, Released, Users, Session
<1>2. TypeOK /\ SwitchInv /\ TickInv /\ [Next]_vars => TickInv'
  <2> SUFFICES ASSUME TypeOK, SwitchInv, TickInv, [Next]_vars PROVE TickInv'
    OBVIOUS
  <2>1. CASE Next
    BY <2>1, ReleasedStep, UsersStep, SessionStep DEF TickInv
  <2>2. CASE UNCHANGED vars
    BY <2>2 DEF vars, bleVars, modeVars, powerVars, TickInv, Users, Session
  <2> QED
    BY <2>1, <2>2
<1>3. TypeOK /\ SwitchInv /\ TickInv /\ ModeFollowsClient /\ RtcRunsIffUsed => TickForRanging
  <2> SUFFICES ASSUME TypeOK, SwitchInv, TickInv, ModeFollowsClient, RtcRunsIffUsed PROVE TickForRanging
    OBVIOUS
  <2>1. ASSUME tagMode = RANGING, phase = "idle" PROVE rtc
    <3>1. refs > 0
      BY <2>1 DEF TickInv, Users
    <3> QED
      BY <3>1 DEF RtcRunsIffUsed
  <2>2. ASSUME link = "adv", queue = <<>>, ~lost PROVE ~rtc
    <3>1. fault = "none" /\ phase = "idle"
      BY <2>2 DEF TickInv, SwitchInv, SwitchRuns
    <3>2. Effective(rsMode) = POWERDOWN
      BY <2>2, <3>1 DEF TickInv, Session, Effective
    <3>3. Len(queue) = 0
      BY <2>2, EmptySeq
    <3>4. tagMode = POWERDOWN
      BY <2>2, <3>2, <3>3 DEF ModeFollowsClient, LeadsTo
    <3>5. ~(refs > 0)
      BY <3>1, <3>4 DEF TickInv, Users
    <3> QED
      BY <3>5 DEF RtcRunsIffUsed
  <2> QED
    BY <2>1, <2>2 DEF TickForRanging, TickWhileRanging, RtcReleased
<1> QED
  BY <1>0, <1>1, <1>2, <1>3, TypeCorrect, Switch, ClientFollowed, TickCounted, PTL DEF Spec

=============================================================================
