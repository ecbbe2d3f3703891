------------------------------ MODULE TagNode ------------------------------
(***************************************************************************)
(* The tag: the BLE services that a client writes its mode to, the queue   *)
(* of app_scheduler that carries those writes, the ranging messages and    *)
(* the acceleration samples to the main loop, the handlers that switch the *)
(* UWB radio, the accelerometer and the shared tick timer, and the two     *)
(* interrupts that keep the tag in step with the anchors' superframe.      *)
(*                                                                         *)
(* Contexts: the main loop (main.c:189) is preempted by the radio's        *)
(* interrupt, which is preempted by the frame timer's.  A job stays at the *)
(* head of the queue while its handler runs, as in app_sched_execute.      *)
(***************************************************************************)
EXTENDS Naturals, Sequences

CONSTANTS
    ClientModes,   \* the values clients write to the mode characteristic
    AccelModes,    \* the values clients write to the accelerometer's control
    Capacity,      \* APP_SCHED_INIT's queue size: 10
    MaxSdEvents,   \* events the SoftDevice holds for the application
    MaxRefs,       \* users of the tick timer at which accelerometer writes end
    MaxMessages,   \* anchor messages in a superframe: 8
    LossLimit,     \* superframes without a message that are tolerated: 5
    Byte           \* 2^8, the range of the two counters

POWERDOWN == 0
RANGING == 1
ANCHOR_RANGING == 2
DEBUG == 3

ASSUME ClientModesAssumption == ClientModes \subseteq 0..3
ASSUME AccelModesAssumption == AccelModes \subseteq 0..4
ASSUME CapacityAssumption == Capacity \in Nat \ {0}
ASSUME BoundsAssumption == {MaxSdEvents, MaxRefs, MaxMessages} \subseteq Nat
ASSUME CounterAssumption ==
    /\ LossLimit \in Nat /\ Byte \in Nat
    /\ LossLimit + 1 < Byte /\ MaxMessages < Byte

VARIABLES
    link,       \* the SoftDevice: "adv", "up", "down" (lost, not handled yet)
    sdEvents,   \* its events that the application has not fetched
    conn,       \* m_conn_handle of the services is valid
    rsMode,     \* m_ble_rs_mode
    queue,      \* app_scheduler's queue, the running job at its head
    lost,       \* the last mode change did not fit into the queue
    phase,      \* where the mode handler is: "idle", "enable", "tick", "timer", "release"
    tagMode,    \* m_tag_mode
    radio,      \* SPI and interrupt pin of the DW1000 are initialised
    timer,      \* the frame timer is initialised
    rxOn,       \* the receiver is enabled
    rx,         \* the radio's interrupt: "idle", "join", "load", "store", "put"
    loaded,     \* the value of m_received_sync_messages_count it has read
    tagState,   \* m_tag_state
    received,   \* m_received_sync_messages_count
    unsynced,   \* m_unsynced_sf_count
    heard,      \* history: messages handled in this superframe
    quiet,      \* history: superframes ended since a message was counted, if any
    fresh,      \* history: a message was heard since the radio was started
    accel,      \* the accelerometer samples
    refs,       \* m_tick_timer_ref_counter
    rtc,        \* the tick timer is initialised and runs
    fault       \* "none", or what my_error_function stopped the tag for

bleVars == <<link, sdEvents, conn, rsMode, lost>>
modeVars == <<phase, tagMode, radio, timer, rxOn>>
syncVars == <<rx, loaded, tagState, received, unsynced, heard, quiet, fresh>>
powerVars == <<accel, refs, rtc>>
vars == <<bleVars, queue, modeVars, syncVars, powerVars, fault>>

Job(kind, arg) == [kind |-> kind, arg |-> arg]
Jobs == [kind : {"poll", "ranging", "sample", "mode", "accel"}, arg : 0..4]
SdEvents == [kind : {"connected", "disconnected", "mode", "accel"}, arg : 0..4]

Init ==
    /\ link = "adv" /\ sdEvents = <<>> /\ conn = FALSE /\ rsMode = POWERDOWN
    /\ lost = FALSE /\ queue = <<>>
    /\ phase = "idle" /\ tagMode = POWERDOWN
    /\ radio = FALSE /\ timer = FALSE /\ rxOn = FALSE
    /\ rx = "idle" /\ loaded = 0 /\ tagState = "DISCOVERY"
    /\ received = 0 /\ unsynced = 0 /\ heard = 0 /\ quiet = LossLimit + 1 /\ fresh = FALSE
    /\ accel = FALSE /\ refs = 0 /\ rtc = FALSE
    /\ fault = "none"

----------------------------------------------------------------------------
(* app_scheduler *)

Full(q) == Len(q) >= Capacity

(* Variant: a full queue is not noticed. *)
PutAlways(q, job) == Append(q, job)

(* app_sched_event_put when its result is ignored. *)
Put(q, job) == IF Full(q) THEN q ELSE Append(q, job)

Running(kind) == fault = "none" /\ rx = "idle" /\ queue # <<>> /\ Head(queue).kind = kind

----------------------------------------------------------------------------
(* The SoftDevice: an event raises an interrupt that puts a poll job, and   *)
(* the tag stops when there is no room for it.                              *)

SdEvent(kind, arg) ==
    /\ fault = "none" /\ rx = "idle" /\ Len(sdEvents) < MaxSdEvents
    /\ IF Full(queue)
       THEN fault' = "queue" /\ UNCHANGED <<sdEvents, queue>>
       ELSE /\ sdEvents' = Append(sdEvents, Job(kind, arg))
            /\ queue' = Append(queue, Job("poll", 0))
            /\ UNCHANGED fault
    /\ UNCHANGED <<conn, rsMode, lost, modeVars, syncVars, powerVars>>

Connect == link = "adv" /\ link' = "up" /\ SdEvent("connected", 0)
Disconnect == link = "up" /\ link' = "down" /\ SdEvent("disconnected", 0)
WriteMode == link = "up" /\ UNCHANGED link /\ \E m \in ClientModes : SdEvent("mode", m)
WriteAccel ==
    link = "up" /\ refs < MaxRefs /\ UNCHANGED link /\ \E m \in AccelModes : SdEvent("accel", m)

----------------------------------------------------------------------------
(* The BLE handlers, run by the poll job *)

(* Variant: the debug mode is passed on as it is. *)
EffectiveNot(mode) == mode

(* set_rs_mode's argument for the mode handler *)
Effective(mode) == IF mode = DEBUG THEN RANGING ELSE mode

SetRsMode(q, mode) ==
    /\ rsMode' = mode
    /\ queue' = Put(q, Job("mode", Effective(mode)))
    /\ lost' = Full(q)

OnConnected(e) ==
    /\ e.kind = "connected"
    /\ conn' = TRUE
    /\ UNCHANGED <<queue, link, rsMode, lost>>

(* Variant: a disconnection powers down without resetting the service's mode. *)
OnDisconnectedKeepsMode(e) ==
    /\ e.kind = "disconnected"
    /\ conn' = FALSE /\ link' = "adv"
    /\ queue' = Put(Put(queue, Job("mode", POWERDOWN)), Job("accel", POWERDOWN))
    /\ lost' = Full(queue)
    /\ UNCHANGED rsMode

(* Variant: a disconnection resets the service's mode without powering down. *)
OnDisconnectedNoJob(e) ==
    /\ e.kind = "disconnected"
    /\ conn' = FALSE /\ link' = "adv"
    /\ rsMode' = POWERDOWN
    /\ queue' = Put(queue, Job("accel", POWERDOWN))
    /\ UNCHANGED lost

(* Variant: the accelerometer's observer comes first. *)
OnDisconnectedAccelFirst(e) ==
    /\ e.kind = "disconnected"
    /\ conn' = FALSE /\ link' = "adv"
    /\ rsMode' = POWERDOWN
    /\ queue' = Put(Put(queue, Job("accel", POWERDOWN)), Job("mode", POWERDOWN))
    /\ lost' = Full(queue)

(* The ranging service's observer is linked first, then the accelerometer  *)
(* service's; ble_func's, of lower priority, advertises again.             *)
OnDisconnected(e) ==
    /\ e.kind = "disconnected"
    /\ conn' = FALSE /\ link' = "adv"
    /\ IF rsMode = DEBUG
       THEN queue' = Put(queue, Job("accel", POWERDOWN)) /\ UNCHANGED <<rsMode, lost>>
       ELSE /\ rsMode' = POWERDOWN
            /\ queue' = Put(Put(queue, Job("mode", POWERDOWN)), Job("accel", POWERDOWN))
            /\ lost' = Full(queue)

OnWriteMode(e) == e.kind = "mode" /\ SetRsMode(queue, e.arg) /\ UNCHANGED <<conn, link>>

OnWriteAccel(e) ==
    /\ e.kind = "accel"
    /\ queue' = Put(queue, Job("accel", e.arg))
    /\ UNCHANGED <<conn, link, rsMode, lost>>

PollEvent ==
    /\ Running("poll") /\ sdEvents # <<>>
    /\ sdEvents' = Tail(sdEvents)
    /\ LET e == Head(sdEvents) IN
           OnConnected(e) \/ OnDisconnected(e) \/ OnWriteMode(e) \/ OnWriteAccel(e)
    /\ UNCHANGED <<modeVars, syncVars, powerVars, fault>>

PollDone ==
    /\ Running("poll") /\ sdEvents = <<>>
    /\ queue' = Tail(queue)
    /\ UNCHANGED <<bleVars, modeVars, syncVars, powerVars, fault>>

(* ble_rs_send and ble_accs_send_values: a notification if connected. *)
SendNotification ==
    /\ Running("ranging") \/ Running("sample")
    /\ queue' = Tail(queue)
    /\ UNCHANGED <<bleVars, modeVars, syncVars, powerVars, fault>>

----------------------------------------------------------------------------
(* The shared tick timer *)

UseTick == refs' = refs + 1 /\ rtc' = TRUE

(* Variant: the reference count is unsigned and not clamped. *)
ReleaseTickNoClamp ==
    /\ refs' = IF refs = 0 THEN Byte - 1 ELSE refs - 1
    /\ rtc' = (rtc /\ refs > 1)

ReleaseTick ==
    /\ refs' = IF refs = 0 THEN 0 ELSE refs - 1
    /\ rtc' = (rtc /\ refs > 1)

(* accel_state, from the control characteristic or a disconnection; a mode *)
(* outside accs_mode_t does nothing.                                       *)
AccelState ==
    /\ Running("accel")
    /\ IF Head(queue).arg = POWERDOWN
       THEN accel' = FALSE /\ ReleaseTick
       ELSE accel' = TRUE /\ UseTick
    /\ queue' = Tail(queue)
    /\ UNCHANGED <<bleVars, modeVars, syncVars, fault>>

(* The accelerometer's burst has been read. *)
Sample ==
    /\ fault = "none" /\ accel
    /\ queue' = Put(queue, Job("sample", 0))
    /\ UNCHANGED <<bleVars, modeVars, syncVars, powerVars, fault>>

----------------------------------------------------------------------------
(* ble_rs_mode_callback *)

ModeJob(mode) == Running("mode") /\ Head(queue).arg = mode /\ phase = "idle"

(* Variant: the radio is started without returning to DISCOVERY. *)
StartUwbInOldState ==
    /\ ModeJob(RANGING) /\ tagMode = POWERDOWN
    /\ radio' = TRUE /\ timer' = TRUE
    /\ phase' = "enable"
    /\ heard' = 0 /\ quiet' = LossLimit + 1 /\ fresh' = FALSE
    /\ UNCHANGED <<bleVars, queue, tagMode, rxOn, tagState, rx, loaded, received, unsynced,
                   powerVars, fault>>

(* start_uwb_comm, up to the receiver: APP_ERROR_CHECK stops the tag if    *)
(* the SPI, the pin or the timer is initialised already.                   *)
StartUwb ==
    /\ ModeJob(RANGING) /\ tagMode = POWERDOWN
    /\ IF radio \/ timer
       THEN fault' = "hardware" /\ UNCHANGED <<phase, radio, timer, tagState, heard, quiet, fresh>>
       ELSE /\ radio' = TRUE /\ timer' = TRUE
            /\ tagState' = "DISCOVERY"
            /\ phase' = "enable"
            /\ heard' = 0 /\ quiet' = LossLimit + 1 /\ fresh' = FALSE
            /\ UNCHANGED fault
    /\ UNCHANGED <<bleVars, queue, tagMode, rxOn, rx, loaded, received, unsynced, powerVars>>

EnableReceiver ==
    /\ Running("mode") /\ phase = "enable"
    /\ rxOn' = TRUE /\ phase' = "tick"
    /\ UNCHANGED <<bleVars, queue, tagMode, radio, timer, syncVars, powerVars, fault>>

FinishStart ==
    /\ Running("mode") /\ phase = "tick"
    /\ UseTick
    /\ tagMode' = Head(queue).arg
    /\ phase' = "idle" /\ queue' = Tail(queue)
    /\ UNCHANGED <<bleVars, radio, timer, rxOn, syncVars, accel, fault>>

(* Variant: the timer goes before the receiver. *)
StopReceiverLate ==
    /\ ModeJob(POWERDOWN) /\ tagMode = RANGING
    /\ timer' = FALSE /\ phase' = "timer"
    /\ UNCHANGED <<bleVars, queue, tagMode, radio, rxOn, syncVars, powerVars, fault>>

(* stop_uwb_comm: the receiver, then the timer, then the rest. *)
StopReceiver ==
    /\ ModeJob(POWERDOWN) /\ tagMode = RANGING
    /\ rxOn' = FALSE /\ phase' = "timer"
    /\ UNCHANGED <<bleVars, queue, tagMode, radio, timer, syncVars, powerVars, fault>>

StopTimer ==
    /\ Running("mode") /\ phase = "timer"
    /\ timer' = FALSE /\ phase' = "release"
    /\ UNCHANGED <<bleVars, queue, tagMode, radio, rxOn, syncVars, powerVars, fault>>

(* Variant: the radio is left initialised. *)
FinishStopKeepsRadio ==
    /\ Running("mode") /\ phase = "release"
    /\ ReleaseTick
    /\ tagMode' = Head(queue).arg
    /\ phase' = "idle" /\ queue' = Tail(queue)
    /\ UNCHANGED <<bleVars, radio, timer, rxOn, syncVars, accel, fault>>

(* Variant: the tick timer is not released. *)
FinishStopKeepsTick ==
    /\ Running("mode") /\ phase = "release"
    /\ radio' = FALSE
    /\ tagMode' = Head(queue).arg
    /\ phase' = "idle" /\ queue' = Tail(queue)
    /\ UNCHANGED <<bleVars, timer, rxOn, syncVars, accel, refs, rtc, fault>>

FinishStop ==
    /\ Running("mode") /\ phase = "release"
    /\ radio' = FALSE
    /\ ReleaseTick
    /\ tagMode' = Head(queue).arg
    /\ phase' = "idle" /\ queue' = Tail(queue)
    /\ UNCHANGED <<bleVars, timer, rxOn, syncVars, accel, fault>>

(* The same mode, or a pair of modes that switches nothing. *)
OnlyRecordMode ==
    /\ Running("mode") /\ phase = "idle"
    /\ {tagMode, Head(queue).arg} # {POWERDOWN, RANGING}
    /\ tagMode' = Head(queue).arg
    /\ queue' = Tail(queue)
    /\ UNCHANGED <<bleVars, phase, radio, timer, rxOn, syncVars, powerVars, fault>>

StartSteps == StartUwb \/ EnableReceiver \/ FinishStart
StopSteps == StopReceiver \/ StopTimer \/ FinishStop

MainLoop ==
    \/ PollEvent \/ PollDone \/ SendNotification \/ AccelState
    \/ StartSteps \/ StopSteps \/ OnlyRecordMode

----------------------------------------------------------------------------
(* The radio's interrupt: event_handler(EVENT_RX) *)

Receive ==
    /\ fault = "none" /\ rxOn /\ rx = "idle" /\ heard < MaxMessages
    /\ rx' = IF tagState = "SYNCHRONIZED" THEN "load" ELSE "join"
    /\ UNCHANGED <<bleVars, queue, modeVars, powerVars, fault,
                   loaded, tagState, received, unsynced, heard, quiet, fresh>>

(* Variant: the tag stays in DISCOVERY until it was heard twice. *)
RxJoinNot ==
    /\ rx = "join" /\ rx' = "idle"
    /\ heard' = heard + 1 /\ fresh' = TRUE
    /\ UNCHANGED <<bleVars, queue, modeVars, powerVars, fault, loaded, tagState, received, unsynced, quiet>>

(* In DISCOVERY the message only synchronises: it is neither counted nor   *)
(* forwarded.                                                              *)
RxJoin ==
    /\ rx = "join" /\ rx' = "idle"
    /\ tagState' = "SYNCHRONIZED"
    /\ heard' = heard + 1 /\ fresh' = TRUE
    /\ UNCHANGED <<bleVars, queue, modeVars, powerVars, fault, loaded, received, unsynced, quiet>>

(* m_received_sync_messages_count++ is a load and a store, with the timer's *)
(* interrupt in between.                                                    *)
RxLoad ==
    /\ rx = "load" /\ rx' = "store"
    /\ loaded' = received
    /\ UNCHANGED <<bleVars, queue, modeVars, powerVars, fault,
                   tagState, received, unsynced, heard, quiet, fresh>>

(* Variant: a counted message does not end the run of silent superframes. *)
RxStoreKeepsUnsynced ==
    /\ rx = "store" /\ rx' = "put"
    /\ received' = (loaded + 1) % Byte
    /\ loaded' = 0
    /\ heard' = heard + 1 /\ quiet' = 0 /\ fresh' = TRUE
    /\ UNCHANGED <<bleVars, queue, modeVars, powerVars, fault, tagState, unsynced>>

RxStore ==
    /\ rx = "store" /\ rx' = "put"
    /\ received' = (loaded + 1) % Byte
    /\ unsynced' = 0
    /\ loaded' = 0
    /\ heard' = heard + 1 /\ quiet' = 0 /\ fresh' = TRUE
    /\ UNCHANGED <<bleVars, queue, modeVars, powerVars, fault, tagState>>

RxPut ==
    /\ rx = "put" /\ rx' = "idle"
    /\ queue' = IF tagMode = RANGING THEN Put(queue, Job("ranging", 0)) ELSE queue
    /\ UNCHANGED <<bleVars, modeVars, powerVars, fault,
                   loaded, tagState, received, unsynced, heard, quiet, fresh>>

RxSteps == RxJoin \/ RxLoad \/ RxStore \/ RxPut

----------------------------------------------------------------------------
(* The frame timer's interrupt: event_handler(EVENT_SF_BEGIN) *)

SfBegin ==
    /\ fault = "none" /\ timer
    /\ heard' = 0
    /\ quiet' = IF quiet > LossLimit THEN quiet ELSE quiet + 1
    /\ LET silent == received = 0
           count == (unsynced + 1) % Byte
       IN  /\ unsynced' = IF silent THEN count ELSE unsynced
           /\ tagState' = IF silent /\ count > LossLimit THEN "DISCOVERY" ELSE tagState
           /\ received' = 0
    /\ UNCHANGED <<bleVars, queue, modeVars, powerVars, fault, rx, loaded, fresh>>

Air == Connect \/ Disconnect \/ WriteMode \/ WriteAccel

Next == Air \/ MainLoop \/ Sample \/ Receive \/ RxSteps \/ SfBegin

Spec == Init /\ [][Next]_vars

(* Interrupts run to their end, the main loop never stops, the timer fires, *)
(* and a receiver that is on hears an anchor again and again.               *)
FairSpec == Spec /\ SF_vars(MainLoop) /\ WF_vars(RxSteps) /\ WF_vars(SfBegin) /\ SF_vars(Receive)

----------------------------------------------------------------------------
BleType ==
    link \in {"adv", "up", "down"} /\ sdEvents \in Seq(SdEvents) /\ rsMode \in 0..4

QueueType == queue \in Seq(Jobs) /\ Len(queue) <= Capacity

ModeType ==
    /\ phase \in {"idle", "enable", "tick", "timer", "release"} /\ tagMode \in 0..4
    /\ refs \in Nat /\ fault \in {"none", "queue", "hardware"}

SyncType ==
    /\ rx \in {"idle", "join", "load", "store", "put"}
    /\ {loaded, received, unsynced} \subseteq 0..(Byte - 1)
    /\ tagState \in {"DISCOVERY", "SYNCHRONIZED"}
    /\ heard \in Nat /\ quiet \in 0..(LossLimit + 1)

FlagType == {conn, lost, radio, timer, rxOn, fresh, accel, rtc} \subseteq BOOLEAN

(* Every variable has its type, and the queue never exceeds its buffer. *)
TypeOK == BleType /\ QueueType /\ ModeType /\ SyncType /\ FlagType

(* However the client's writes, disconnections and data compete for the    *)
(* queue, the mode handler always finds the SPI, the pin and the timer in  *)
(* the state it expects: the checks in start_uwb_comm never fail           *)
(* (impl_tag.c:249, dwm_utils.c:77 and 320).                               *)
HardwareFree == fault # "hardware"

(* Between jobs, the radio, its timer and its receiver are on exactly in   *)
(* ranging mode.                                                           *)
UwbFollowsMode ==
    phase = "idle" => /\ timer <=> tagMode = RANGING
                      /\ radio <=> tagMode = RANGING
                      /\ rxOn <=> tagMode = RANGING

(* A message's handler, which programs the frame timer, never runs when    *)
(* the main loop has taken the timer away.                                 *)
RadioFindsTimer == rx # "idle" => timer /\ radio

(* Whatever interrupts the switch: what is on between jobs is what the     *)
(* mode needs, and what is on during one is enough for a message's handler. *)
SwitchKept == UwbFollowsMode /\ RadioFindsTimer

(* The tick timer runs exactly as long as somebody uses it, also after     *)
(* releases that nobody's use stands against.                              *)
RtcRunsIffUsed == rtc <=> refs > 0

(* The tag, in mode now, is in mode m when the first n jobs of q are done. *)
LeadsTo(now, q, n, m) ==
    \/ now = m /\ \A k \in 1..n : q[k].kind # "mode"
    \/ \E j \in 1..n : /\ q[j].kind = "mode" /\ q[j].arg = m
                       /\ \A k \in (j + 1)..n : q[k].kind # "mode"

(* The mode the client asked for last is the mode of the tag, or the last  *)
(* change that waits in the queue, unless its change did not fit: a stale  *)
(* change never comes after a newer one.                                   *)
ModeFollowsClient == lost \/ LeadsTo(tagMode, queue, Len(queue), Effective(rsMode))

(* The tag is synchronised only by a message it heard since its radio was  *)
(* started, never by the state of an earlier session.                      *)
SynchronizedByMessage == tagState = "SYNCHRONIZED" /\ rxOn => fresh

(* A message that the synchronised tag has handled keeps it synchronised  *)
(* for LossLimit superframes, wherever the timer's interrupt cuts into its *)
(* handler and whatever an earlier session left in the counters.  It is    *)
(* one more unless the 8-bit count is zero again: a store after the        *)
(* superframe's end brings the old count back, and the count runs on.      *)
SyncKept ==
    [][tagState = "SYNCHRONIZED" /\ tagState' = "DISCOVERY" /\ phase' = phase
         => quiet >= LossLimit]_vars

(* While the tag ranges, its tick timer runs: the accelerometer's release  *)
(* on a disconnection does not come before the radio is off.               *)
TickWhileRanging == tagMode = RANGING /\ phase = "idle" /\ fault = "none" => rtc

(* After a client has gone and its jobs are done, no tick timer keeps the  *)
(* tag awake.                                                              *)
RtcReleased == link = "adv" /\ queue = <<>> /\ rsMode # DEBUG /\ ~lost => ~rtc

(* For a client that never writes to the accelerometer, the tick timer is  *)
(* there for the ranging and for no longer, though every disconnection     *)
(* releases it once more than anybody used it.                             *)
TickForRanging == TickWhileRanging /\ RtcReleased

(* A tag whose client has gone switches its radio off, unless the change   *)
(* was lost, the tag stopped or a client came back.                        *)
PowersDown ==
    [](link = "adv" /\ rsMode = POWERDOWN
         => <>(~radio \/ lost \/ fault # "none" \/ link # "adv"))

(* A tag that ranges where anchors are heard synchronises. *)
Synchronises ==
    []<>(tagState = "SYNCHRONIZED" \/ ~rxOn \/ fault # "none")

(* A session goes its way: the tag synchronises as long as it ranges, and  *)
(* its radio is off in the end when the client has gone.                   *)
SessionGoes == Synchronises /\ PowersDown
=============================================================================
