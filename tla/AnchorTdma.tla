----------------------------- MODULE AnchorTdma -----------------------------
(***************************************************************************)
(* The anchors of the positioning network (firmware/impl_anchor.c): each   *)
(* one runs a free-running frame timer, sends its two messages in its own  *)
(* pair of slots of a superframe and resynchronises that timer on the      *)
(* messages of the anchors before it.                                      *)
(*                                                                         *)
(* Time advances in ticks, a whole number of them per slot.  The frame     *)
(* timer's interrupt has priority 2 and the radio's priority 6             *)
(* (config/sdk_config.h), so the timer's handler runs between any two      *)
(* steps of the radio's; both finish within a tick.                        *)
(***************************************************************************)
EXTENDS Integers, FiniteSets

CONSTANTS
    N,            \* TIMING_ANCHOR_COUNT: anchor ids are 0 .. N-1
    SLOT,         \* ticks of one message slot
    PREFIX,       \* ticks from the start of a transmission to its reception
    SYNC,         \* ticks of SYNC_COMPENSATION_CONST_US (150us)
    DISCOVERY,    \* TIMING_DISCOVERY_SUPERFRAME_COUNT
    IDS,          \* number of superframe ids (256 for the uint8_t)
    WIDTH,        \* number of values of a compare register (2^32)
    Founders,     \* anchors switched on together at the start
    Crashable,    \* anchors that may lose power
    Unreliable,   \* parities of the messages that may get lost
    Orderly       \* TRUE: anchors join between the two messages of an anchor
                  \* and leave between two superframes; FALSE: at any time

Anchors == 0 .. N-1
SF == 2 * N * SLOT                  \* TIMING_SUPERFRAME_LENGTH_US

\* When the two messages of anchor n are due in the superframe.
FirstSlot(n) == 2 * n * SLOT
SecondSlot(n) == (2 * n + 1) * SLOT

ASSUME SizesAssumption ==
    /\ N \in Nat \ {0} /\ SLOT \in Nat \ {0} /\ PREFIX \in Nat \ {0} /\ SYNC \in Nat
    /\ PREFIX + SYNC < SLOT
    /\ DISCOVERY \in Nat \ {0} /\ IDS \in Nat /\ IDS > DISCOVERY + 1
    /\ WIDTH \in Nat /\ WIDTH > 2 * SF
ASSUME ScenarioAssumption ==
    /\ Founders \subseteq Anchors /\ Crashable \subseteq Anchors
    /\ Unreliable \subseteq {0, 1} /\ Orderly \in BOOLEAN

States == {"DISCOVERY", "WAITING_NEXT_SF", "WAITING_FIRST", "WAITING_SECOND"}

\* A receive time stamp is abstracted to the anchor whose message it stamps;
\* Zeroed is the all-zero time stamp.
Zeroed == N
Unarmed == -1                       \* compare channel not enabled yet
Info == [src: Anchors, ts: [0..1 -> 0..N]]
ZeroInfos == [k \in 0..1 |-> [src |-> 0, ts |-> [p \in 0..1 |-> Zeroed]]]
Msg == [src: Anchors, tr_id: 0..IDS-1, parity: 0..1]
Frame == [left: 0..PREFIX, tr_id: 0..IDS-1, parity: 0..1, anchors: [0..1 -> Info]]
RxPc == {"idle", "event", "capture", "compensate", "program", "adopt", "record", "stamp"}
NoMsg == [src |-> 0, tr_id |-> 0, parity |-> 0]

VARIABLES
    on,            \* the anchors that have power
    counter, cc0, cc1, compensation,  \* m_frame_timer and its compare channels
    due,           \* compare events whose interrupt has not run yet
    state,         \* m_anchor_state
    superframe_id, \* m_superframe_id
    infos, src_parity, old_src_id,    \* m_anchor_infos and its two indices
    rxOn,          \* the receiver is enabled
    air,           \* the frame the anchor is sending, as a set of at most one
    rxPc, rxMsg, rxCap,               \* the radio interrupt in progress
    rxJoin         \* that interrupt was entered in DISCOVERY

timerVars == <<counter, cc0, cc1, compensation, due>>
infoVars == <<infos, src_parity, old_src_id>>
stateVars == <<state, superframe_id>>
radioVars == <<rxOn, air>>
rxVars == <<rxPc, rxMsg, rxCap, rxJoin>>
vars == <<on, timerVars, stateVars, infoVars, radioVars, rxVars>>

-----------------------------------------------------------------------------
(* Power.  An anchor without power is kept in its reset state.             *)

Init ==
    /\ on = Founders
    /\ counter = [n \in Anchors |-> 0]
    /\ cc0 = [n \in Anchors |-> Unarmed]
    /\ cc1 = [n \in Anchors |-> SF]
    /\ compensation = [n \in Anchors |-> 0]
    /\ due = [n \in Anchors |-> {}]
    /\ state = [n \in Anchors |-> "DISCOVERY"]
    /\ superframe_id = [n \in Anchors |-> 0]
    /\ infos = [n \in Anchors |-> ZeroInfos]
    /\ src_parity = [n \in Anchors |-> 1]
    /\ old_src_id = [n \in Anchors |-> N]
    /\ rxOn = [n \in Anchors |-> TRUE]
    /\ air = [n \in Anchors |-> {}]
    /\ rxPc = [n \in Anchors |-> "idle"]
    /\ rxMsg = [n \in Anchors |-> NoMsg]
    /\ rxCap = [n \in Anchors |-> 0]
    /\ rxJoin = [n \in Anchors |-> FALSE]

\* impl_anchor_init: timer cleared and running, receiver on, DISCOVERY.
Boot(n) ==
    /\ n \notin on
    /\ Orderly => /\ \E m \in on : state[m] = "WAITING_SECOND"
                  /\ \A m \in on : air[m] = {}
    /\ on' = on \cup {n}
    /\ UNCHANGED <<timerVars, stateVars, infoVars, radioVars, rxVars>>

Busy(n) == due[n] # {} \/ rxPc[n] # "idle"

PowerOff(n) ==
    /\ n \in on \cap Crashable
    /\ Orderly => state[n] = "WAITING_NEXT_SF" /\ ~Busy(n) /\ air[n] = {}
    /\ on' = on \ {n}
    /\ counter' = [counter EXCEPT ![n] = 0]
    /\ cc0' = [cc0 EXCEPT ![n] = Unarmed]
    /\ cc1' = [cc1 EXCEPT ![n] = SF]
    /\ compensation' = [compensation EXCEPT ![n] = 0]
    /\ due' = [due EXCEPT ![n] = {}]
    /\ state' = [state EXCEPT ![n] = "DISCOVERY"]
    /\ superframe_id' = [superframe_id EXCEPT ![n] = 0]
    /\ infos' = [infos EXCEPT ![n] = ZeroInfos]
    /\ src_parity' = [src_parity EXCEPT ![n] = 1]
    /\ old_src_id' = [old_src_id EXCEPT ![n] = N]
    /\ rxOn' = [rxOn EXCEPT ![n] = TRUE]
    /\ air' = [air EXCEPT ![n] = {}]
    /\ rxPc' = [rxPc EXCEPT ![n] = "idle"]
    /\ rxMsg' = [rxMsg EXCEPT ![n] = NoMsg]
    /\ rxCap' = [rxCap EXCEPT ![n] = 0]
    /\ rxJoin' = [rxJoin EXCEPT ![n] = FALSE]

-----------------------------------------------------------------------------
(* Time and the radio channel.                                             *)

Landing == {s \in Anchors : \E f \in air[s] : f.left = 0}

\* One tick of every running frame timer.  A compare event is raised when the
\* counter reaches the register; the handlers are done before the next tick.
Tick ==
    /\ \A n \in on : ~Busy(n)
    /\ Landing = {}
    /\ counter' = [n \in Anchors |-> IF n \in on THEN counter[n] + 1 ELSE 0]
    /\ due' = [n \in Anchors |->
                 {e \in {"timer", "sf"} :
                    /\ n \in on
                    /\ e = "timer" => cc0[n] = counter[n] + 1
                    /\ e = "sf" => cc1[n] = counter[n] + 1}]
    /\ air' = [n \in Anchors |-> {[f EXCEPT !.left = @ - 1] : f \in air[n]}]
    /\ UNCHANGED <<on, cc0, cc1, compensation, stateVars, infoVars, rxOn, rxVars>>

Listening == {n \in on : rxOn[n] /\ air[n] = {} /\ rxPc[n] = "idle"}

FrameOf(s) == CHOOSE f \in air[s] : TRUE

\* A message may go unheard when its parity is unreliable, or when two frames
\* are on the air together.
MayMiss(s) ==
    \/ FrameOf(s).parity \in Unreliable
    \/ \E m \in Anchors \ {s} : air[m] # {}

\* Variant: mac_rxerr_callback_impl does not turn the receiver on again.
LandRxErrDeaf ==
    /\ Landing # {}
    /\ \E got \in [Listening -> Landing \cup {N}] :
         LET hears(n) == n \in Listening /\ got[n] # N IN
         /\ \A n \in Listening : got[n] = N => \A s \in Landing : MayMiss(s)
         /\ rxPc' = [n \in Anchors |-> IF hears(n) THEN "event" ELSE rxPc[n]]
         /\ rxMsg' = [n \in Anchors |->
                        IF hears(n)
                        THEN [src |-> got[n], tr_id |-> FrameOf(got[n]).tr_id,
                              parity |-> FrameOf(got[n]).parity]
                        ELSE rxMsg[n]]
         /\ rxOn' = [n \in Anchors |-> n \in Landing \/ (rxOn[n] /\ n \notin Listening)]
    /\ air' = [n \in Anchors |-> IF n \in Landing THEN {} ELSE air[n]]
    /\ UNCHANGED <<on, timerVars, stateVars, infoVars, rxCap, rxJoin>>

\* The frames whose time is up reach the receivers: each one hears at most one
\* of them, and its radio interrupt starts (mac_rxok_callback_impl, which turns
\* the receiver back on only when it is done).  The senders' receivers are
\* turned on again (mac_txok_callback_impl).
Land ==
    /\ Landing # {}
    /\ \E got \in [Listening -> Landing \cup {N}] :
         LET hears(n) == n \in Listening /\ got[n] # N IN
         /\ \A n \in Listening : got[n] = N => \A s \in Landing : MayMiss(s)
         /\ rxPc' = [n \in Anchors |-> IF hears(n) THEN "event" ELSE rxPc[n]]
         /\ rxMsg' = [n \in Anchors |->
                        IF hears(n)
                        THEN [src |-> got[n], tr_id |-> FrameOf(got[n]).tr_id,
                              parity |-> FrameOf(got[n]).parity]
                        ELSE rxMsg[n]]
         /\ rxOn' = [n \in Anchors |->
                        IF n \in Landing THEN TRUE ELSE rxOn[n] /\ ~hears(n)]
    /\ air' = [n \in Anchors |-> IF n \in Landing THEN {} ELSE air[n]]
    /\ UNCHANGED <<on, timerVars, stateVars, infoVars, rxCap, rxJoin>>

-----------------------------------------------------------------------------
(* The frame timer's interrupt: event_handler(EVENT_TIMER / EVENT_SF_BEGIN) *)

\* The uint32_t the compare register receives.
Wrap(us) == IF us < 0 THEN us + WIDTH ELSE us

\* Variant: the superframe id does not wrap.
NextIdNoWrap(id) == id + 1

NextId(id) == IF id = IDS - 1 THEN 0 ELSE id + 1

\* set_frame_timer(us), with the compensation comp and the counter now.  A
\* register set to the tick the counter is in may or may not still match.
SetFrameTimer(n, us, comp, now, rest) ==
    LET v == Wrap(us - comp) IN
    /\ cc0' = [cc0 EXCEPT ![n] = v]
    /\ \E fires \in IF v = now THEN {{}, {"timer"}} ELSE {{}} :
         due' = [due EXCEPT ![n] = rest \cup fires]

\* transmit_anchor_msg(parity): a transmission in progress is aborted; if
\* dwt_starttx fails nothing is sent and the receiver stays off.
TransmitAnchorMsg(n, parity, tr_id) ==
    /\ \/ air' = [air EXCEPT ![n] = {[left |-> PREFIX, tr_id |-> tr_id,
                                      parity |-> parity, anchors |-> infos[n]]}]
       \/ parity \in Unreliable /\ air' = [air EXCEPT ![n] = {}]
    /\ rxOn' = [rxOn EXCEPT ![n] = FALSE]
    /\ infos' = IF parity = 1 THEN [infos EXCEPT ![n] = ZeroInfos] ELSE infos
    /\ UNCHANGED <<src_parity, old_src_id>>

\* Variant: the second message is forgotten.
TimerFirstOnly(n) ==
    /\ "timer" \in due[n]
    /\ state[n] = "WAITING_FIRST"
    /\ SetFrameTimer(n, SecondSlot(n), compensation[n], counter[n], due[n] \ {"timer"})
    /\ TransmitAnchorMsg(n, 0, superframe_id[n])
    /\ state' = [state EXCEPT ![n] = "WAITING_NEXT_SF"]
    /\ UNCHANGED <<on, counter, cc1, compensation, superframe_id, rxVars>>

TimerFirst(n) ==
    /\ "timer" \in due[n]
    /\ state[n] = "WAITING_FIRST"
    /\ SetFrameTimer(n, SecondSlot(n), compensation[n], counter[n], due[n] \ {"timer"})
    /\ TransmitAnchorMsg(n, 0, superframe_id[n])
    /\ state' = [state EXCEPT ![n] = "WAITING_SECOND"]
    /\ UNCHANGED <<on, counter, cc1, compensation, superframe_id, rxVars>>

\* Variant: the anchor does not go back to waiting for the next superframe.
TimerSecondStays(n) ==
    /\ "timer" \in due[n]
    /\ state[n] = "WAITING_SECOND"
    /\ due' = [due EXCEPT ![n] = @ \ {"timer"}]
    /\ TransmitAnchorMsg(n, 1, superframe_id[n])
    /\ UNCHANGED <<on, counter, cc0, cc1, compensation, stateVars, rxVars>>

TimerSecond(n) ==
    /\ "timer" \in due[n]
    /\ state[n] = "WAITING_SECOND"
    /\ due' = [due EXCEPT ![n] = @ \ {"timer"}]
    /\ TransmitAnchorMsg(n, 1, superframe_id[n])
    /\ state' = [state EXCEPT ![n] = "WAITING_NEXT_SF"]
    /\ UNCHANGED <<on, counter, cc0, cc1, compensation, superframe_id, rxVars>>

\* In the other two states EVENT_TIMER has no branch: NoStrayTimer says it
\* does not come.

\* Channel 0 is served before channel 1.
SfBegins(n) == "sf" \in due[n] /\ "timer" \notin due[n]

RestartFrameTimer(n) ==
    /\ counter' = [counter EXCEPT ![n] = 0]
    /\ cc1' = [cc1 EXCEPT ![n] = SF]
    /\ compensation' = [compensation EXCEPT ![n] = 0]

SfDiscovery(n) ==
    /\ SfBegins(n) /\ state[n] = "DISCOVERY"
    /\ RestartFrameTimer(n)
    /\ due' = [due EXCEPT ![n] = {}]
    /\ IF superframe_id[n] + 1 > DISCOVERY
       THEN /\ superframe_id' = [superframe_id EXCEPT ![n] = 0]
            /\ state' = [state EXCEPT ![n] = "WAITING_NEXT_SF"]
       ELSE /\ superframe_id' = [superframe_id EXCEPT ![n] = @ + 1]
            /\ UNCHANGED state
    /\ UNCHANGED <<on, cc0, infoVars, radioVars, rxVars>>

\* Anchor 0 opens the superframe with its first message; the others wait for
\* their slot.
SfNext(n) ==
    /\ SfBegins(n) /\ state[n] = "WAITING_NEXT_SF"
    /\ RestartFrameTimer(n)
    /\ superframe_id' = [superframe_id EXCEPT ![n] = NextId(@)]
    /\ IF n = 0
       THEN /\ SetFrameTimer(n, SLOT, 0, 0, {})
            /\ TransmitAnchorMsg(n, 0, NextId(superframe_id[n]))
            /\ state' = [state EXCEPT ![n] = "WAITING_SECOND"]
       ELSE /\ SetFrameTimer(n, FirstSlot(n), 0, 0, {})
            /\ state' = [state EXCEPT ![n] = "WAITING_FIRST"]
            /\ UNCHANGED <<infoVars, radioVars>>
    /\ UNCHANGED <<on, rxVars>>

\* A superframe that begins before the anchor has sent both messages only
\* restarts the timer.
SfUnfinished(n) ==
    /\ SfBegins(n) /\ state[n] \in {"WAITING_FIRST", "WAITING_SECOND"}
    /\ RestartFrameTimer(n)
    /\ \E fires \in IF cc0[n] = 0 THEN {{}, {"timer"}} ELSE {{}} :
         due' = [due EXCEPT ![n] = fires]
    /\ UNCHANGED <<on, cc0, stateVars, infoVars, radioVars, rxVars>>

TimerIsr(n) ==
    \/ TimerFirst(n) \/ TimerSecond(n)
    \/ SfDiscovery(n) \/ SfNext(n) \/ SfUnfinished(n)

-----------------------------------------------------------------------------
(* The radio's interrupt: event_handler(EVENT_RX), step by step            *)

\* The handler's last step, dwt_rxenable.
RxDone(n) ==
    /\ rxPc' = [rxPc EXCEPT ![n] = "idle"]
    /\ rxMsg' = [rxMsg EXCEPT ![n] = NoMsg]
    /\ rxCap' = [rxCap EXCEPT ![n] = 0]
    /\ rxJoin' = [rxJoin EXCEPT ![n] = FALSE]
    /\ rxOn' = [rxOn EXCEPT ![n] = TRUE]
    /\ UNCHANGED <<on, air>>

RxGoto(n, pc) ==
    /\ rxPc' = [rxPc EXCEPT ![n] = pc]
    /\ UNCHANGED <<on, rxMsg, radioVars>>

RxJoin(n) ==
    /\ rxPc[n] = "event" /\ state[n] = "DISCOVERY"
    /\ state' = [state EXCEPT ![n] = "WAITING_NEXT_SF"]
    /\ rxJoin' = [rxJoin EXCEPT ![n] = TRUE]
    /\ RxGoto(n, "capture")
    /\ UNCHANGED <<timerVars, superframe_id, infoVars, rxCap>>

RxSync(n) ==
    /\ rxPc[n] = "event" /\ state[n] = "WAITING_FIRST"
    /\ RxGoto(n, "capture")
    /\ UNCHANGED <<timerVars, stateVars, infoVars, rxCap, rxJoin>>

\* Outside its listening states an anchor drops the message.
RxIgnored(n) ==
    /\ rxPc[n] = "event" /\ state[n] = "WAITING_SECOND"
    /\ RxDone(n)
    /\ UNCHANGED <<timerVars, stateVars, infoVars>>

\* Variants: a message is taken for one of parity 0; the prefix is left out.
SfTimeParity0(n) == FirstSlot(rxMsg[n].src) + PREFIX + (IF rxJoin[n] THEN 0 ELSE SYNC)
SfTimeNoPrefix(n) == SecondSlot(rxMsg[n].src) + (IF rxJoin[n] THEN 0 ELSE SYNC)

\* compensate_frame_timer: the time since the superframe began for the sender
\* of the message, as the receiver computes it whatever the message's parity,
\* against the counter.
SfTime(n) ==
    SecondSlot(rxMsg[n].src) + PREFIX + (IF rxJoin[n] THEN 0 ELSE SYNC)

RxCapture(n) ==
    /\ rxPc[n] = "capture"
    /\ rxCap' = [rxCap EXCEPT ![n] = counter[n]]
    /\ RxGoto(n, "compensate")
    /\ UNCHANGED <<timerVars, stateVars, infoVars, rxJoin>>

RxCompensate(n) ==
    /\ rxPc[n] = "compensate"
    /\ compensation' = [compensation EXCEPT ![n] = SfTime(n) - rxCap[n]]
    /\ RxGoto(n, "program")
    /\ UNCHANGED <<counter, cc0, cc1, due, stateVars, infoVars, rxCap, rxJoin>>

\* Variants: the correction with the wrong sign; every correction adopts the id.
RxProgramSign(n) ==
    /\ rxPc[n] = "program"
    /\ cc1' = [cc1 EXCEPT ![n] = SF + compensation[n]]
    /\ RxGoto(n, IF rxJoin[n] THEN "adopt" ELSE "record")
    /\ UNCHANGED <<counter, cc0, compensation, due, stateVars, infoVars, rxCap, rxJoin>>
RxProgramAdopts(n) ==
    /\ rxPc[n] = "program"
    /\ cc1' = [cc1 EXCEPT ![n] = SF - compensation[n]]
    /\ RxGoto(n, "adopt")
    /\ UNCHANGED <<counter, cc0, compensation, due, stateVars, infoVars, rxCap, rxJoin>>

RxProgram(n) ==
    /\ rxPc[n] = "program"
    /\ cc1' = [cc1 EXCEPT ![n] = SF - compensation[n]]
    /\ RxGoto(n, IF rxJoin[n] THEN "adopt" ELSE "record")
    /\ UNCHANGED <<counter, cc0, compensation, due, stateVars, infoVars, rxCap, rxJoin>>

\* Variant: a joining anchor keeps its own superframe id.
RxAdoptNothing(n) == rxPc[n] = "adopt" /\ RxDone(n) /\ UNCHANGED <<timerVars, stateVars, infoVars>>

RxAdopt(n) ==
    /\ rxPc[n] = "adopt"
    /\ superframe_id' = [superframe_id EXCEPT ![n] = rxMsg[n].tr_id]
    /\ RxDone(n)
    /\ UNCHANGED <<timerVars, state, infoVars>>

\* Variant: the sender's id is written before the record is chosen.
RxRecordEarly(n) ==
    /\ \/ rxPc[n] = "record"
       \/ rxPc[n] = "event" /\ state[n] = "WAITING_NEXT_SF"
    /\ LET k == IF old_src_id[n] # rxMsg[n].src THEN 1 - src_parity[n] ELSE src_parity[n]
       IN  src_parity' = [src_parity EXCEPT ![n] = k]
    /\ infos' = [infos EXCEPT ![n][src_parity[n]].src = rxMsg[n].src]
    /\ old_src_id' = [old_src_id EXCEPT ![n] = rxMsg[n].src]
    /\ RxGoto(n, "stamp")
    /\ UNCHANGED <<timerVars, stateVars, rxCap, rxJoin>>

\* The two info records are used in turn, one per sender.
RxRecord(n) ==
    /\ \/ rxPc[n] = "record"
       \/ rxPc[n] = "event" /\ state[n] = "WAITING_NEXT_SF"
    /\ LET k == IF old_src_id[n] # rxMsg[n].src THEN 1 - src_parity[n] ELSE src_parity[n]
       IN  /\ src_parity' = [src_parity EXCEPT ![n] = k]
           /\ infos' = [infos EXCEPT ![n][k].src = rxMsg[n].src]
    /\ old_src_id' = [old_src_id EXCEPT ![n] = rxMsg[n].src]
    /\ RxGoto(n, "stamp")
    /\ UNCHANGED <<timerVars, stateVars, rxCap, rxJoin>>

RxStamp(n) ==
    /\ rxPc[n] = "stamp"
    /\ infos' = [infos EXCEPT ![n][src_parity[n]].ts[rxMsg[n].parity] = rxMsg[n].src]
    /\ RxDone(n)
    /\ UNCHANGED <<timerVars, stateVars, src_parity, old_src_id>>

RxIsr(n) ==
    \/ RxJoin(n) \/ RxSync(n) \/ RxIgnored(n) \/ RxCapture(n) \/ RxCompensate(n)
    \/ RxProgram(n) \/ RxAdopt(n) \/ RxRecord(n) \/ RxStamp(n)

-----------------------------------------------------------------------------
Next ==
    \/ Tick \/ Land
    \/ \E n \in Anchors : Boot(n) \/ PowerOff(n) \/ TimerIsr(n) \/ RxIsr(n)

\* The hardware keeps counting and sending, and interrupts are served.
Fairness ==
    /\ WF_vars(Tick) /\ WF_vars(Land)
    /\ \A n \in Anchors : WF_vars(TimerIsr(n)) /\ WF_vars(RxIsr(n))

Spec == Init /\ [][Next]_vars
FairSpec == Spec /\ Fairness

-----------------------------------------------------------------------------
(* Properties.                                                             *)

\* Every variable stays within its type, an anchor without power in reset.
TypeOK ==
    /\ on \subseteq Anchors
    /\ counter \in [Anchors -> Nat]
    /\ cc0 \in [Anchors -> Unarmed .. WIDTH - 1]
    /\ cc1 \in [Anchors -> Int]
    /\ compensation \in [Anchors -> Int]
    /\ due \in [Anchors -> SUBSET {"timer", "sf"}]
    /\ state \in [Anchors -> States]
    /\ superframe_id \in [Anchors -> 0..IDS-1]
    /\ infos \in [Anchors -> [0..1 -> Info]]
    /\ src_parity \in [Anchors -> 0..1]
    /\ old_src_id \in [Anchors -> 0..N]
    /\ rxOn \in [Anchors -> BOOLEAN]
    /\ air \in [Anchors -> SUBSET Frame]
    /\ rxPc \in [Anchors -> RxPc]
    /\ rxMsg \in [Anchors -> Msg]
    /\ rxCap \in [Anchors -> Nat]
    /\ rxJoin \in [Anchors -> BOOLEAN]

\* However often a superframe's length is corrected, and wherever the timer's
\* interrupt cuts into the correction, the register that ends the superframe
\* is ahead of the counter (or its interrupt is about to run): the next
\* superframe always begins.
SuperframeArmed == \A n \in on : counter[n] < cc1[n] \/ "sf" \in due[n]

\* A correction never adds a whole superframe: the earliest instant a message
\* can stand for is the second slot's reception, the latest reading the end of
\* a nominal superframe.
LongestSF == 2 * SF - (SLOT + PREFIX)
SuperframeBounded == \A n \in on : cc1[n] <= LongestSF

\* A superframe's end, corrected in the radio's interrupt between any two steps
\* of the timer's, is ahead and at most that far.
SuperframeEnds == SuperframeArmed /\ SuperframeBounded

\* A slot interrupt always finds the anchor waiting for it.
NoStrayTimer == \A n \in on : "timer" \in due[n] => state[n] \in {"WAITING_FIRST", "WAITING_SECOND"}

\* A discovering anchor has its receiver on: only a transmission turns it off.
DiscoveryListens == \A n \in on : state[n] = "DISCOVERY" => rxOn[n] \/ rxPc[n] # "idle"

\* The state of an anchor and its hardware agree, whatever was lost or refused
\* and wherever DISCOVERY was left: no slot interrupt comes to a state that has
\* no branch for it, and no anchor discovers with its receiver off.
StateFitsHardware == NoStrayTimer /\ DiscoveryListens

\* The two messages of a pair carry one superframe id: it does not change
\* between them (an anchor 0 that joins a running network may break this, when
\* its own superframe begins inside the radio interrupt).
PairedSuperframeId ==
    [][\A n \in on' \ {0} : state[n] = "WAITING_SECOND" => superframe_id'[n] = superframe_id[n]]_vars


\* What "Found anchor message, sync" says of a discovering anchor: once the
\* correction is programmed its superframe ends together with the sender's.
\* True of a parity 1 message only: SfTime takes every message for one.
JoinAligns ==
    [][\A n \in on : LET s == rxMsg[n].src IN
         rxPc[n] = "program" /\ rxPc'[n] = "adopt" /\ s \in on =>
            (cc1'[n] - counter'[n]) % SF = (cc1[s] - counter[s]) % SF]_vars

\* In an orderly network every time stamp an anchor sends out belongs to the
\* anchor named beside it, though two records serve all the senders.
StampsAttributed ==
    \A n \in Anchors : \A f \in air[n] : \A k, p \in 0..1 :
        f.anchors[k].ts[p] \in {Zeroed, f.anchors[k].src}

\* The anchors on the air agree on the superframe's id.
SuperframeIdAgreed ==
    \A m, n \in on : \A f \in air[m] :
        state[n] # "DISCOVERY" /\ ~Busy(n) => superframe_id[n] = f.tr_id

\* The schedule seen by the clock of anchor 0.
Schedule == INSTANCE TdmaSchedule WITH
    phase <- counter[0] % SF,
    onAir <- {2 * c[1] + c[2].parity : c \in UNION {{s} \X air[s] : s \in Anchors}}

\* An orderly network keeps to the schedule: every frame in its owner's slot,
\* no two at once, though every follower keeps correcting its timer.
KeepsSchedule == Schedule!Spec

\* In an orderly network every anchor that keeps its power keeps sending its
\* second message: none is starved in a waiting state.
EveryAnchorHeard ==
    \A n \in Anchors : <>[](n \in on) => []<>(\E f \in air[n] : f.parity = 1)

=============================================================================
