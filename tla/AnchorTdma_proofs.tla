------------------------- MODULE AnchorTdma_proofs --------------------------
(***************************************************************************)
(* The anchors' frame timer for any number of anchors and any slot length. *)
(* First its safety for any pattern of losses, crashes and joins; then     *)
(* that an orderly network keeps to its schedule: every frame in its       *)
(* owner's slot, no two at once, one superframe id for all.  Where all is  *)
(* heard, every time stamp belongs to the anchor named beside it.          *)
(***************************************************************************)
EXTENDS AnchorTdma, TLAPS

-----------------------------------------------------------------------------
(* The inductive invariant, per anchor.                                    *)

\* Without power nothing is pending.
OffIdle(n) == n \notin on => due[n] = {} /\ rxPc[n] = "idle" /\ state[n] = "DISCOVERY"

\* The superframe's register is ahead of the counter or its event is due.
ClockArmed(n) ==
    /\ counter[n] <= cc1[n] /\ cc1[n] <= LongestSF
    /\ counter[n] < cc1[n] \/ "sf" \in due[n]
    /\ SF - LongestSF <= compensation[n] /\ compensation[n] <= SF

\* A discovering anchor has never touched its clock nor its slot register.
DiscoveryClock(n) ==
    state[n] = "DISCOVERY" =>
        /\ cc1[n] = SF /\ counter[n] <= SF /\ cc0[n] = Unarmed
        /\ rxPc[n] = "event" \/ (rxPc[n] = "idle" /\ rxOn[n])

\* The slot register is at or behind the counter once both messages are sent,
\* and at the anchor's first slot until the first one is.
SlotClock(n) ==
    /\ "timer" \in due[n] => cc0[n] = counter[n] /\ state[n] \in {"WAITING_FIRST", "WAITING_SECOND"}
    /\ state[n] = "WAITING_NEXT_SF" => cc0[n] <= counter[n]
    /\ state[n] = "WAITING_FIRST" =>
          /\ n # 0
          /\ cc0[n] = FirstSlot(n) /\ counter[n] <= cc0[n]
          /\ counter[n] < cc0[n] \/ "timer" \in due[n]

\* A correction in progress is computed from a reading that is not behind the
\* counter, even if a new superframe began in between.
Correction(n) ==
    /\ rxPc[n] = "capture" => counter[n] <= SF
    /\ rxPc[n] = "compensate" => counter[n] <= rxCap[n] /\ rxCap[n] <= SF
    /\ rxPc[n] = "program" => counter[n] < SF - compensation[n]

\* A follower that joins is not past its first slot until it has adopted the
\* superframe id.
Joining(n) ==
    /\ rxPc[n] = "adopt" => rxJoin[n]
    /\ rxJoin[n] => rxPc[n] \in {"capture", "compensate", "program", "adopt"}
    /\ rxJoin[n] /\ n # 0 =>
          \/ state[n] = "WAITING_NEXT_SF"
          \/ state[n] = "WAITING_FIRST" /\ counter[n] = 0

AnchorInv(n) ==
    OffIdle(n) /\ ClockArmed(n) /\ DiscoveryClock(n) /\ SlotClock(n) /\ Correction(n) /\ Joining(n)

IInv == TypeOK /\ \A n \in Anchors : AnchorInv(n)

-----------------------------------------------------------------------------
(* Arithmetic of the superframe: both slots of an anchor lie within it.    *)

LEMMA SlotTimes ==
    ASSUME NEW n \in Anchors
    PROVE  /\ SF \in Nat /\ SLOT \in Nat /\ SLOT > 0 /\ SLOT <= SF
           /\ FirstSlot(n) \in Nat /\ FirstSlot(n) < SF
           /\ n # 0 => FirstSlot(n) > 0
           /\ SecondSlot(n) \in Nat /\ SecondSlot(n) > 0
           /\ SecondSlot(n) + PREFIX + SYNC < SF /\ SecondSlot(n) < SF
           /\ SecondSlot(0) = SLOT /\ SecondSlot(n) >= SLOT
           /\ LongestSF \in Nat /\ SF < LongestSF /\ LongestSF < 2 * SF
           /\ n \in Nat /\ n + 1 <= N
<1> DEFINE k == N - 1 - n
<1>1. n \in Nat /\ N \in Nat /\ SLOT \in Nat /\ SLOT > 0 /\ k \in Nat /\ k >= 0
  BY SizesAssumption DEF Anchors
<1>2. k * SLOT \in Nat /\ n * SLOT \in Nat
  BY <1>1
<1>3. n # 0 => n * SLOT > 0
  BY <1>1
<1>4. N * SLOT = k * SLOT + n * SLOT + SLOT
  BY <1>1
<1>5. SF = 2 * (N * SLOT) /\ FirstSlot(n) = 2 * (n * SLOT)
      /\ SecondSlot(n) = 2 * (n * SLOT) + SLOT /\ SecondSlot(0) = SLOT
  BY <1>1 DEF SF, FirstSlot, SecondSlot
<1> HIDE DEF k
<1> QED
  BY <1>1, <1>2, <1>3, <1>4, <1>5, SizesAssumption DEF LongestSF

LEMMA InitInv == Init => IInv
<1> SUFFICES ASSUME Init PROVE IInv
  OBVIOUS
<1>1. 0 \in Anchors /\ N \in Nat /\ IDS \in Nat /\ 0 \in 0..IDS-1 /\ Unarmed \in Unarmed..WIDTH-1
  BY SizesAssumption DEF Anchors, Unarmed
<1>2. SF \in Nat /\ SF > 0 /\ LongestSF \in Nat /\ SF < LongestSF
  BY <1>1, SlotTimes
<1>3. ZeroInfos \in [0..1 -> Info] /\ NoMsg \in Msg
  BY <1>1 DEF ZeroInfos, Info, NoMsg, Msg, Zeroed
<1>4. TypeOK
  BY <1>1, <1>2, <1>3, ScenarioAssumption DEF Init, TypeOK, States, RxPc
<1>5. ASSUME NEW n \in Anchors PROVE AnchorInv(n)
  BY <1>2 DEF Init, AnchorInv, OffIdle, ClockArmed, DiscoveryClock, SlotClock, Correction, Joining
<1> QED
  BY <1>4, <1>5 DEF IInv

-----------------------------------------------------------------------------
(* A step of one anchor leaves what the invariant says of the others.      *)

Untouched(m) ==
    /\ m \in on' <=> m \in on
    /\ counter'[m] = counter[m] /\ cc0'[m] = cc0[m] /\ cc1'[m] = cc1[m]
    /\ compensation'[m] = compensation[m] /\ due'[m] = due[m]
    /\ state'[m] = state[m] /\ rxOn'[m] = rxOn[m]
    /\ rxPc'[m] = rxPc[m] /\ rxCap'[m] = rxCap[m] /\ rxJoin'[m] = rxJoin[m]

LEMMA UntouchedInv ==
    ASSUME NEW m \in Anchors, AnchorInv(m), Untouched(m)
    PROVE  AnchorInv(m)'
BY DEF AnchorInv, Untouched, OffIdle, ClockArmed, DiscoveryClock, SlotClock, Correction, Joining

\* It is enough to look at the types and at the anchor that moved.
LEMMA OneAnchor ==
    ASSUME IInv, NEW n \in Anchors, TypeOK', AnchorInv(n)',
           \A m \in Anchors \ {n} : Untouched(m)
    PROVE  IInv'
BY UntouchedInv DEF IInv


-----------------------------------------------------------------------------
(* One lemma per action.                                                   *)

USE DEF timerVars, infoVars, stateVars, radioVars, rxVars

LEMMA BootStep == ASSUME IInv, NEW n \in Anchors, Boot(n) PROVE IInv'
<1>1. TypeOK'
  BY DEF IInv, Boot, TypeOK
<1>2. AnchorInv(n)'
  BY DEF IInv, Boot, AnchorInv, OffIdle, ClockArmed, DiscoveryClock, SlotClock, Correction, Joining
<1>3. \A m \in Anchors \ {n} : Untouched(m)
  BY DEF IInv, TypeOK, Boot, Untouched
<1> QED
  BY <1>1, <1>2, <1>3, OneAnchor

LEMMA PowerOffStep == ASSUME IInv, NEW n \in Anchors, PowerOff(n) PROVE IInv'
<1>1. 0 \in Anchors /\ N \in Nat /\ IDS \in Nat /\ 0 \in 0..IDS-1 /\ Unarmed \in Unarmed..WIDTH-1
  BY SizesAssumption DEF Anchors, Unarmed
<1>2. SF \in Nat /\ SF > 0 /\ LongestSF \in Nat /\ SF < LongestSF
  BY <1>1, SlotTimes
<1>3. ZeroInfos \in [0..1 -> Info] /\ NoMsg \in Msg
  BY <1>1 DEF ZeroInfos, Info, NoMsg, Msg, Zeroed
<1>4. TypeOK'
  BY <1>1, <1>2, <1>3 DEF IInv, PowerOff, TypeOK, States, RxPc
<1>5. AnchorInv(n)'
  BY <1>2 DEF IInv, TypeOK, PowerOff, AnchorInv, OffIdle, ClockArmed, DiscoveryClock, SlotClock, Correction, Joining
<1>6. \A m \in Anchors \ {n} : Untouched(m)
  BY DEF IInv, TypeOK, PowerOff, Untouched
<1> QED
  BY <1>4, <1>5, <1>6, OneAnchor

LEMMA TickStep == ASSUME IInv, Tick PROVE IInv'
<1>1. ASSUME NEW m \in Anchors PROVE air'[m] \in SUBSET Frame
  <2>1. \A f \in air[m] : f \in Frame /\ f.left # 0
    BY DEF IInv, TypeOK, Tick, Landing
  <2>2. PREFIX \in Nat
    BY SizesAssumption
  <2>3. \A f \in air[m] : [f EXCEPT !.left = @ - 1] \in Frame
    BY <2>1, <2>2 DEF Frame
  <2> QED
    BY <2>3 DEF Tick
<1>2. TypeOK'
  BY <1>1 DEF IInv, TypeOK, Tick
<1>3. ASSUME NEW m \in Anchors PROVE AnchorInv(m)'
  <2>1. SF \in Nat /\ SF > 0 /\ LongestSF \in Nat /\ SF < LongestSF
    BY SlotTimes
  <2>2. CASE m \in on
    <3>1. due[m] = {} /\ rxPc[m] = "idle"
      BY <2>2 DEF Tick, Busy
    <3>2. /\ counter'[m] = counter[m] + 1 /\ cc0'[m] = cc0[m] /\ cc1'[m] = cc1[m]
          /\ compensation'[m] = compensation[m] /\ state'[m] = state[m] /\ rxOn'[m] = rxOn[m]
          /\ rxPc'[m] = rxPc[m] /\ rxCap'[m] = rxCap[m] /\ rxJoin'[m] = rxJoin[m]
          /\ m \in on'
      BY <2>2 DEF Tick
    <3>3. /\ "timer" \in due'[m] <=> cc0[m] = counter[m] + 1
          /\ "sf" \in due'[m] <=> cc1[m] = counter[m] + 1
      BY <2>2 DEF Tick
    <3>4. counter[m] \in Nat /\ cc0[m] \in Int /\ cc1[m] \in Int /\ state[m] \in States /\ compensation[m] \in Int
      BY DEF IInv, TypeOK
    <3> QED
      BY <2>1, <2>2, <3>1, <3>2, <3>3, <3>4 DEF IInv, AnchorInv, OffIdle, ClockArmed, DiscoveryClock, SlotClock, Correction, Joining, States, Unarmed
  <2>3. CASE m \notin on
    <3>1. /\ counter'[m] = 0 /\ cc0'[m] = cc0[m] /\ cc1'[m] = cc1[m]
          /\ compensation'[m] = compensation[m] /\ state'[m] = state[m] /\ rxOn'[m] = rxOn[m]
          /\ rxPc'[m] = rxPc[m] /\ rxCap'[m] = rxCap[m] /\ rxJoin'[m] = rxJoin[m]
          /\ due'[m] = {} /\ m \notin on'
      BY <2>3 DEF Tick
    <3> QED
      BY <2>1, <2>3, <3>1 DEF IInv, TypeOK, AnchorInv, OffIdle, ClockArmed, DiscoveryClock, SlotClock, Correction, Joining
  <2> QED
    BY <2>2, <2>3
<1> QED
  BY <1>2, <1>3 DEF IInv


LEMMA LandStep == ASSUME IInv, Land PROVE IInv'
<1> PICK got \in [Listening -> Landing \cup {N}] :
         /\ rxPc' = [n \in Anchors |-> IF n \in Listening /\ got[n] # N THEN "event" ELSE rxPc[n]]
         /\ rxMsg' = [n \in Anchors |->
                        IF n \in Listening /\ got[n] # N
                        THEN [src |-> got[n], tr_id |-> FrameOf(got[n]).tr_id,
                              parity |-> FrameOf(got[n]).parity]
                        ELSE rxMsg[n]]
         /\ rxOn' = [n \in Anchors |->
                        IF n \in Landing THEN TRUE ELSE rxOn[n] /\ ~(n \in Listening /\ got[n] # N)]
  BY DEF Land
<1>1. ASSUME NEW s \in Landing PROVE s \in Anchors /\ FrameOf(s) \in Frame
  <2>1. s \in Anchors /\ air[s] # {} /\ air[s] \subseteq Frame
    BY DEF Landing, IInv, TypeOK
  <2> QED
    BY <2>1 DEF FrameOf
<1>2. rxMsg' \in [Anchors -> Msg]
  <2>1. ASSUME NEW n \in Anchors, n \in Listening, got[n] # N
        PROVE  [src |-> got[n], tr_id |-> FrameOf(got[n]).tr_id, parity |-> FrameOf(got[n]).parity] \in Msg
    <3>1. got[n] \in Landing
      BY <2>1
    <3>2. got[n] \in Anchors /\ FrameOf(got[n]) \in Frame
      BY <1>1, <3>1
    <3> QED
      BY <3>2 DEF Msg, Frame
  <2> QED
    BY <2>1 DEF IInv, TypeOK
<1>3. rxPc' \in [Anchors -> RxPc] /\ rxOn' \in [Anchors -> BOOLEAN]
  <2>1. \A n \in Anchors : rxPc[n] \in RxPc /\ rxOn[n] \in BOOLEAN /\ "event" \in RxPc
    BY DEF IInv, TypeOK, RxPc
  <2> QED
    BY <2>1
<1>4. air' \in [Anchors -> SUBSET Frame]
  BY DEF IInv, TypeOK, Land
<1>5. TypeOK'
  BY <1>2, <1>3, <1>4 DEF IInv, TypeOK, Land
<1>6. ASSUME NEW n \in Anchors PROVE AnchorInv(n)'
  <2>1. \/ rxPc'[n] = rxPc[n] /\ (rxOn[n] => rxOn'[n])
        \/ rxPc'[n] = "event" /\ rxPc[n] = "idle" /\ n \in on
    BY DEF Listening
  <2> QED
    BY <2>1 DEF IInv, TypeOK, Land, AnchorInv, OffIdle, ClockArmed, DiscoveryClock, SlotClock, Correction, Joining
<1> QED
  BY <1>5, <1>6 DEF IInv

LEMMA SetFrameTimerEffect ==
    ASSUME IInv, NEW n \in Anchors, NEW us \in 0..SF, NEW comp \in -SF..SF, NEW now, NEW rest,
           SetFrameTimer(n, us, comp, now, rest)
    PROVE  /\ cc0' \in [Anchors -> Unarmed .. WIDTH - 1]
           /\ cc0'[n] = Wrap(us - comp)
           /\ \A m \in Anchors \ {n} : cc0'[m] = cc0[m] /\ due'[m] = due[m]
           /\ due'[n] = rest \/ (due'[n] = rest \cup {"timer"} /\ cc0'[n] = now)
           /\ rest \subseteq {"timer", "sf"} => due' \in [Anchors -> SUBSET {"timer", "sf"}]
<1>1. SF \in Nat /\ WIDTH \in Nat /\ WIDTH > 2 * SF
  BY SlotTimes, SizesAssumption
<1>2. Wrap(us - comp) \in Unarmed .. WIDTH - 1
  BY <1>1 DEF Wrap, Unarmed
<1>3. PICK fires \in {{}, {"timer"}} :
        /\ fires # {} => Wrap(us - comp) = now
        /\ due' = [due EXCEPT ![n] = rest \cup fires]
  BY DEF SetFrameTimer
<1>4. cc0' = [cc0 EXCEPT ![n] = Wrap(us - comp)]
  BY DEF SetFrameTimer
<1> QED
  BY <1>2, <1>3, <1>4 DEF IInv, TypeOK

LEMMA TransmitType ==
    ASSUME IInv, NEW n \in Anchors, NEW parity \in 0..1, NEW id \in 0..IDS-1,
           TransmitAnchorMsg(n, parity, id)
    PROVE  /\ air' \in [Anchors -> SUBSET Frame]
           /\ rxOn' \in [Anchors -> BOOLEAN] /\ infos' \in [Anchors -> [0..1 -> Info]]
           /\ src_parity' \in [Anchors -> 0..1] /\ old_src_id' \in [Anchors -> 0..N]
           /\ \A m \in Anchors \ {n} : rxOn'[m] = rxOn[m]
<1>1. ZeroInfos \in [0..1 -> Info]
  BY SizesAssumption DEF ZeroInfos, Info, Zeroed, Anchors
<1>2. [left |-> PREFIX, tr_id |-> id, parity |-> parity, anchors |-> infos[n]] \in Frame
  BY SizesAssumption DEF Frame, IInv, TypeOK
<1> QED
  BY <1>1, <1>2 DEF TransmitAnchorMsg, IInv, TypeOK


LEMMA TimerFirstStep == ASSUME IInv, NEW n \in Anchors, TimerFirst(n) PROVE IInv'
<1>1. /\ SF \in Nat /\ SecondSlot(n) \in 0..SF /\ FirstSlot(n) < SF
      /\ LongestSF \in Nat /\ SF < LongestSF /\ LongestSF < 2 * SF
      /\ n # 0 => FirstSlot(n) > 0
      /\ compensation[n] \in -SF..SF
  BY SlotTimes DEF IInv, TypeOK, AnchorInv, ClockArmed
<1>2. /\ cc0' \in [Anchors -> Unarmed .. WIDTH - 1]
      /\ \A m \in Anchors \ {n} : cc0'[m] = cc0[m] /\ due'[m] = due[m]
      /\ due'[n] = due[n] \ {"timer"} \/ (due'[n] = (due[n] \ {"timer"}) \cup {"timer"} /\ cc0'[n] = counter[n])
      /\ due' \in [Anchors -> SUBSET {"timer", "sf"}]
  <2>1. due[n] \ {"timer"} \subseteq {"timer", "sf"}
    BY DEF IInv, TypeOK
  <2> QED
    BY <1>1, <2>1, SetFrameTimerEffect DEF TimerFirst
<1>3. /\ air' \in [Anchors -> SUBSET Frame]
      /\ rxOn' \in [Anchors -> BOOLEAN] /\ infos' \in [Anchors -> [0..1 -> Info]]
      /\ src_parity' \in [Anchors -> 0..1] /\ old_src_id' \in [Anchors -> 0..N]
      /\ \A m \in Anchors \ {n} : rxOn'[m] = rxOn[m]
  <2>1. superframe_id[n] \in 0..IDS-1 /\ 0 \in 0..1
    BY DEF IInv, TypeOK
  <2> QED
    BY <2>1, TransmitType DEF TimerFirst
<1>4. TypeOK'
  BY <1>2, <1>3 DEF IInv, TypeOK, TimerFirst, States
<1>5. AnchorInv(n)'
  <2>1. /\ state'[n] = "WAITING_SECOND" /\ state[n] = "WAITING_FIRST" /\ "timer" \in due[n]
        /\ UNCHANGED <<on, counter, cc1, compensation, rxPc, rxCap, rxJoin>>
    BY DEF IInv, TypeOK, TimerFirst
  <2>2. n # 0 /\ counter[n] # 0 /\ ~rxJoin[n]
    BY <1>1, <2>1 DEF IInv, AnchorInv, SlotClock, Joining
  <2>3. ("sf" \in due'[n] <=> "sf" \in due[n]) /\ ("timer" \in due'[n] => cc0'[n] = counter[n])
    BY <1>2
  <2>4. AnchorInv(n) /\ n \in on
    BY <2>1 DEF IInv, AnchorInv, OffIdle
  <2> QED
    BY <2>1, <2>2, <2>3, <2>4 DEF AnchorInv, OffIdle, ClockArmed, DiscoveryClock, SlotClock, Correction, Joining
<1>6. \A m \in Anchors \ {n} : Untouched(m)
  BY <1>2, <1>3 DEF IInv, TypeOK, TimerFirst, Untouched
<1> QED
  BY <1>4, <1>5, <1>6, OneAnchor

LEMMA TimerSecondStep == ASSUME IInv, NEW n \in Anchors, TimerSecond(n) PROVE IInv'
<1>1. /\ air' \in [Anchors -> SUBSET Frame]
      /\ rxOn' \in [Anchors -> BOOLEAN] /\ infos' \in [Anchors -> [0..1 -> Info]]
      /\ src_parity' \in [Anchors -> 0..1] /\ old_src_id' \in [Anchors -> 0..N]
      /\ \A m \in Anchors \ {n} : rxOn'[m] = rxOn[m]
  <2>1. superframe_id[n] \in 0..IDS-1 /\ 1 \in 0..1
    BY DEF IInv, TypeOK
  <2> QED
    BY <2>1, TransmitType DEF TimerSecond
<1>2. TypeOK'
  BY <1>1 DEF IInv, TypeOK, TimerSecond, States
<1>3. AnchorInv(n)'
  BY DEF IInv, TypeOK, TimerSecond, AnchorInv, OffIdle, ClockArmed, DiscoveryClock, SlotClock, Correction, Joining
<1>4. \A m \in Anchors \ {n} : Untouched(m)
  BY <1>1 DEF IInv, TypeOK, TimerSecond, Untouched
<1> QED
  BY <1>2, <1>3, <1>4, OneAnchor

LEMMA SfDiscoveryStep == ASSUME IInv, NEW n \in Anchors, SfDiscovery(n) PROVE IInv'
<1>1. SF \in Nat /\ SF > 0 /\ LongestSF \in Nat /\ SF < LongestSF
  BY SlotTimes
<1>2. superframe_id' \in [Anchors -> 0..IDS-1] /\ state' \in [Anchors -> States]
      /\ state'[n] \in {"DISCOVERY", "WAITING_NEXT_SF"}
      /\ \A m \in Anchors \ {n} : state'[m] = state[m]
  BY SizesAssumption DEF IInv, TypeOK, SfDiscovery, States
<1>3. TypeOK'
  BY <1>1, <1>2 DEF IInv, TypeOK, SfDiscovery, RestartFrameTimer
<1>4. AnchorInv(n)'
  BY <1>1, <1>2 DEF IInv, TypeOK, SfDiscovery, SfBegins, RestartFrameTimer, Unarmed, AnchorInv, OffIdle, ClockArmed, DiscoveryClock, SlotClock, Correction, Joining
<1>5. \A m \in Anchors \ {n} : Untouched(m)
  BY <1>2 DEF IInv, TypeOK, SfDiscovery, RestartFrameTimer, Untouched
<1> QED
  BY <1>3, <1>4, <1>5, OneAnchor

LEMMA SfUnfinishedStep == ASSUME IInv, NEW n \in Anchors, SfUnfinished(n) PROVE IInv'
<1>1. SF \in Nat /\ SF > 0 /\ LongestSF \in Nat /\ SF < LongestSF /\ FirstSlot(n) \in Nat /\ (n # 0 => FirstSlot(n) > 0)
  BY SlotTimes
<1>2. /\ due'[n] = {} \/ (due'[n] = {"timer"} /\ cc0[n] = 0)
      /\ \A m \in Anchors \ {n} : due'[m] = due[m]
      /\ due' \in [Anchors -> SUBSET {"timer", "sf"}]
  BY DEF IInv, TypeOK, SfUnfinished
<1>3. TypeOK'
  BY <1>1, <1>2 DEF IInv, TypeOK, SfUnfinished, RestartFrameTimer
<1>4. AnchorInv(n)'
  BY <1>1, <1>2 DEF IInv, TypeOK, SfUnfinished, SfBegins, RestartFrameTimer, AnchorInv, OffIdle, ClockArmed, DiscoveryClock, SlotClock, Correction, Joining
<1>5. \A m \in Anchors \ {n} : Untouched(m)
  BY <1>2 DEF IInv, TypeOK, SfUnfinished, RestartFrameTimer, Untouched
<1> QED
  BY <1>3, <1>4, <1>5, OneAnchor


LEMMA SfNextStep == ASSUME IInv, NEW n \in Anchors, SfNext(n) PROVE IInv'
<1>1. /\ SF \in Nat /\ SF > 0 /\ LongestSF \in Nat /\ SF < LongestSF /\ FirstSlot(n) \in 0..SF /\ (n # 0 => FirstSlot(n) > 0)
      /\ SLOT \in 0..SF /\ SLOT > 0 /\ 0 \in -SF..SF
  BY SlotTimes
<1>2. NextId(superframe_id[n]) \in 0..IDS-1
  <2>1. superframe_id[n] \in 0..IDS-1
    BY DEF IInv, TypeOK
  <2> QED
    BY <2>1, SizesAssumption DEF NextId
<1>3. /\ {} \subseteq {"timer", "sf"}
      /\ cc0' \in [Anchors -> Unarmed .. WIDTH - 1]
      /\ due' \in [Anchors -> SUBSET {"timer", "sf"}]
      /\ \A m \in Anchors \ {n} : cc0'[m] = cc0[m] /\ due'[m] = due[m]
      /\ due'[n] = {} /\ (n # 0 => cc0'[n] = FirstSlot(n))
  <2>1. CASE n = 0
    <3>1. SetFrameTimer(n, SLOT, 0, 0, {})
      BY <2>1 DEF SfNext
    <3>2. Wrap(SLOT - 0) # 0
      BY <1>1 DEF Wrap
    <3> QED
      BY <1>1, <2>1, <3>1, <3>2, SetFrameTimerEffect
  <2>2. CASE n # 0
    <3>1. SetFrameTimer(n, FirstSlot(n), 0, 0, {})
      BY <2>2 DEF SfNext
    <3>2. Wrap(FirstSlot(n) - 0) = FirstSlot(n) /\ FirstSlot(n) # 0
      BY <1>1, <2>2 DEF Wrap
    <3> QED
      BY <1>1, <2>2, <3>1, <3>2, SetFrameTimerEffect
  <2> QED
    BY <2>1, <2>2
<1>4. /\ air' \in [Anchors -> SUBSET Frame]
      /\ rxOn' \in [Anchors -> BOOLEAN] /\ infos' \in [Anchors -> [0..1 -> Info]]
      /\ src_parity' \in [Anchors -> 0..1] /\ old_src_id' \in [Anchors -> 0..N]
      /\ \A m \in Anchors \ {n} : rxOn'[m] = rxOn[m]
  <2>1. CASE n = 0
    BY <1>2, <2>1, 0 \in 0..1, TransmitType DEF SfNext
  <2>2. CASE n # 0
    BY <2>2 DEF SfNext, IInv, TypeOK
  <2> QED
    BY <2>1, <2>2
<1>5. /\ state' \in [Anchors -> States]
      /\ state'[n] = IF n = 0 THEN "WAITING_SECOND" ELSE "WAITING_FIRST"
      /\ \A m \in Anchors \ {n} : state'[m] = state[m]
  BY DEF IInv, TypeOK, SfNext, States
<1>6. /\ counter' = [counter EXCEPT ![n] = 0]
      /\ cc1' = [cc1 EXCEPT ![n] = SF]
      /\ compensation' = [compensation EXCEPT ![n] = 0]
      /\ superframe_id' = [superframe_id EXCEPT ![n] = NextId(@)]
      /\ state[n] = "WAITING_NEXT_SF"
      /\ UNCHANGED <<on, rxPc, rxMsg, rxCap, rxJoin>>
  BY DEF SfNext, RestartFrameTimer
<1>7. TypeOK'
  BY <1>1, <1>2, <1>3, <1>4, <1>5, <1>6 DEF IInv, TypeOK
<1>8. AnchorInv(n)'
  BY <1>1, <1>3, <1>5, <1>6 DEF IInv, TypeOK, AnchorInv, OffIdle, ClockArmed, DiscoveryClock, SlotClock, Correction, Joining
<1>9. \A m \in Anchors \ {n} : Untouched(m)
  BY <1>3, <1>4, <1>5, <1>6 DEF IInv, TypeOK, Untouched
<1> QED
  BY <1>7, <1>8, <1>9, OneAnchor

\* The radio's interrupt, all but its last steps.
LEMMA RxProgressStep ==
    ASSUME IInv, NEW n \in Anchors,
           RxJoin(n) \/ RxSync(n) \/ RxCapture(n) \/ RxRecord(n)
    PROVE  IInv'
<1>1. SF \in Nat /\ FirstSlot(n) < SF /\ FirstSlot(n) \in Nat
  BY SlotTimes
<1>2. ASSUME NEW k \in 0..1, NEW i \in [0..1 -> Info], NEW s \in Anchors
      PROVE  [i EXCEPT ![k].src = s] \in [0..1 -> Info]
  BY DEF Info
<1>3. rxMsg[n].src \in Anchors /\ src_parity[n] \in 0..1 /\ rxMsg[n].src \in 0..N
  <2>1. rxMsg[n] \in Msg /\ src_parity[n] \in 0..1 /\ N \in Nat
    BY SizesAssumption DEF IInv, TypeOK
  <2> QED
    BY <2>1 DEF Msg, Anchors
<1>4. CASE RxJoin(n)
  <2>1. TypeOK'
    BY <1>4 DEF IInv, TypeOK, RxJoin, RxGoto, States, RxPc
  <2>2. AnchorInv(n)'
    BY <1>1, <1>4 DEF IInv, TypeOK, RxJoin, RxGoto, AnchorInv, OffIdle, ClockArmed, DiscoveryClock, SlotClock, Correction, Joining, Unarmed
  <2>3. \A m \in Anchors \ {n} : Untouched(m)
    BY <1>4 DEF IInv, TypeOK, RxJoin, RxGoto, Untouched
  <2> QED
    BY <2>1, <2>2, <2>3, OneAnchor
<1>5. CASE RxSync(n)
  <2>1. TypeOK'
    BY <1>5 DEF IInv, TypeOK, RxSync, RxGoto, RxPc
  <2>2. AnchorInv(n)'
    BY <1>1, <1>5 DEF IInv, TypeOK, RxSync, RxGoto, AnchorInv, OffIdle, ClockArmed, DiscoveryClock, SlotClock, Correction, Joining
  <2>3. \A m \in Anchors \ {n} : Untouched(m)
    BY <1>5 DEF IInv, TypeOK, RxSync, RxGoto, Untouched
  <2> QED
    BY <2>1, <2>2, <2>3, OneAnchor
<1>6. CASE RxCapture(n)
  <2>1. TypeOK'
    BY <1>6 DEF IInv, TypeOK, RxCapture, RxGoto, RxPc
  <2>2. AnchorInv(n)'
    BY <1>1, <1>6 DEF IInv, TypeOK, RxCapture, RxGoto, AnchorInv, OffIdle, ClockArmed, DiscoveryClock, SlotClock, Correction, Joining
  <2>3. \A m \in Anchors \ {n} : Untouched(m)
    BY <1>6 DEF IInv, TypeOK, RxCapture, RxGoto, Untouched
  <2> QED
    BY <2>1, <2>2, <2>3, OneAnchor
<1>7. CASE RxRecord(n)
  <2>1. PICK k \in 0..1 : src_parity' = [src_parity EXCEPT ![n] = k] /\ infos' = [infos EXCEPT ![n][k].src = rxMsg[n].src]
    <3> DEFINE j == IF old_src_id[n] # rxMsg[n].src THEN 1 - src_parity[n] ELSE src_parity[n]
    <3>1. j \in 0..1
      BY <1>3
    <3>2. src_parity' = [src_parity EXCEPT ![n] = j] /\ infos' = [infos EXCEPT ![n][j].src = rxMsg[n].src]
      BY <1>7 DEF RxRecord
    <3> QED
      BY <3>1, <3>2
  <2>2. infos' \in [Anchors -> [0..1 -> Info]] /\ src_parity' \in [Anchors -> 0..1]
    BY <1>2, <1>3, <2>1 DEF IInv, TypeOK
  <2>3. TypeOK'
    BY <1>3, <1>7, <2>2 DEF IInv, TypeOK, RxRecord, RxGoto, RxPc
  <2>4. AnchorInv(n)'
    BY <1>7 DEF IInv, TypeOK, RxRecord, RxGoto, AnchorInv, OffIdle, ClockArmed, DiscoveryClock, SlotClock, Correction, Joining
  <2>5. \A m \in Anchors \ {n} : Untouched(m)
    BY <1>7 DEF IInv, TypeOK, RxRecord, RxGoto, Untouched
  <2> QED
    BY <2>3, <2>4, <2>5, OneAnchor
<1> QED
  BY <1>4, <1>5, <1>6, <1>7


LEMMA SfTimeRange ==
    ASSUME IInv, NEW n \in Anchors
    PROVE  SfTime(n) \in Nat /\ SLOT + PREFIX <= SfTime(n) /\ SfTime(n) < SF
<1>1. rxMsg[n].src \in Anchors
  <2>1. rxMsg[n] \in Msg
    BY DEF IInv, TypeOK
  <2> QED
    BY <2>1 DEF Msg
<1> DEFINE s == SecondSlot(rxMsg[n].src)
<1>2. SF \in Nat /\ s \in Nat /\ s >= SLOT /\ SLOT \in Nat /\ s + PREFIX + SYNC < SF
  BY <1>1, SlotTimes
<1>3. PREFIX \in Nat /\ SYNC \in Nat
  BY SizesAssumption
<1>4. SfTime(n) = s + PREFIX + (IF rxJoin[n] THEN 0 ELSE SYNC)
  BY DEF SfTime
<1> HIDE DEF s
<1> QED
  BY <1>2, <1>3, <1>4

\* The correction: whatever the reading and the message, the superframe that
\* results ends after the counter and is less than two superframes long.
LEMMA RxCorrectionStep ==
    ASSUME IInv, NEW n \in Anchors, RxCompensate(n) \/ RxProgram(n)
    PROVE  IInv'
<1>1. /\ SF \in Nat /\ SfTime(n) \in Nat /\ SfTime(n) < SF
      /\ LongestSF \in Nat /\ SF < LongestSF /\ 2 * SF - LongestSF <= SfTime(n)
  BY SlotTimes, SfTimeRange, SizesAssumption DEF LongestSF
<1>2. CASE RxCompensate(n)
  <2>1. TypeOK'
    BY <1>1, <1>2 DEF IInv, TypeOK, RxCompensate, RxGoto, RxPc
  <2>2. AnchorInv(n)'
    BY <1>1, <1>2 DEF IInv, TypeOK, RxCompensate, RxGoto, AnchorInv, OffIdle, ClockArmed, DiscoveryClock, SlotClock, Correction, Joining
  <2>3. \A m \in Anchors \ {n} : Untouched(m)
    BY <1>2 DEF IInv, TypeOK, RxCompensate, RxGoto, Untouched
  <2> QED
    BY <2>1, <2>2, <2>3, OneAnchor
<1>3. CASE RxProgram(n)
  <2>1. TypeOK'
    BY <1>1, <1>3 DEF IInv, TypeOK, RxProgram, RxGoto, RxPc
  <2>2. AnchorInv(n)'
    BY <1>1, <1>3 DEF IInv, TypeOK, RxProgram, RxGoto, AnchorInv, OffIdle, ClockArmed, DiscoveryClock, SlotClock, Correction, Joining
  <2>3. \A m \in Anchors \ {n} : Untouched(m)
    BY <1>3 DEF IInv, TypeOK, RxProgram, RxGoto, Untouched
  <2> QED
    BY <2>1, <2>2, <2>3, OneAnchor
<1> QED
  BY <1>2, <1>3

LEMMA RxLastStep ==
    ASSUME IInv, NEW n \in Anchors,
           RxIgnored(n) \/ RxAdopt(n) \/ RxStamp(n)
    PROVE  IInv'
<1>1. rxMsg[n] \in Msg /\ src_parity[n] \in 0..1 /\ N \in Nat
  BY SizesAssumption DEF IInv, TypeOK
<1>2. rxMsg[n].tr_id \in 0..IDS-1 /\ rxMsg[n].parity \in 0..1 /\ rxMsg[n].src \in 0..N
  BY <1>1 DEF Msg, Anchors
<1>3. NoMsg \in Msg
  BY SizesAssumption DEF NoMsg, Msg, Anchors
<1>4. ASSUME NEW k \in 0..1, NEW p \in 0..1, NEW i \in [0..1 -> Info], NEW s \in 0..N
      PROVE  [i EXCEPT ![k].ts[p] = s] \in [0..1 -> Info]
  BY DEF Info
<1>5. RxDone(n) /\ UNCHANGED <<counter, cc0, cc1, compensation, due, state, src_parity, old_src_id>>
  BY DEF RxIgnored, RxAdopt, RxStamp
<1>6. superframe_id' \in [Anchors -> 0..IDS-1] /\ infos' \in [Anchors -> [0..1 -> Info]]
  <2>1. CASE RxStamp(n)
    BY <1>1, <1>2, <1>4, <2>1 DEF IInv, TypeOK, RxStamp
  <2>2. CASE RxAdopt(n) \/ RxIgnored(n)
    BY <1>2, <2>2 DEF IInv, TypeOK, RxAdopt, RxIgnored
  <2> QED
    BY <2>1, <2>2
<1>7. TypeOK'
  BY <1>3, <1>5, <1>6 DEF IInv, TypeOK, RxDone, RxPc
<1>8. rxPc[n] # "idle" /\ (rxPc[n] # "event" \/ state[n] = "WAITING_SECOND")
  BY DEF RxIgnored, RxAdopt, RxStamp
<1>9. AnchorInv(n)'
  BY <1>5, <1>8 DEF IInv, TypeOK, RxDone, AnchorInv, OffIdle, ClockArmed, DiscoveryClock, SlotClock, Correction, Joining
<1>10. \A m \in Anchors \ {n} : Untouched(m)
  BY <1>5 DEF IInv, TypeOK, RxDone, Untouched
<1> QED
  BY <1>7, <1>9, <1>10, OneAnchor

-----------------------------------------------------------------------------
(* The invariant holds throughout.                                         *)

LEMMA NextInv == IInv /\ [Next]_vars => IInv'
<1> SUFFICES ASSUME IInv, [Next]_vars PROVE IInv'
  OBVIOUS
<1>1. CASE Tick
  BY <1>1, TickStep
<1>2. CASE Land
  BY <1>2, LandStep
<1>3. ASSUME NEW n \in Anchors, Boot(n) \/ PowerOff(n) PROVE IInv'
  BY <1>3, BootStep, PowerOffStep
<1>4. ASSUME NEW n \in Anchors, TimerIsr(n) PROVE IInv'
  BY <1>4, TimerFirstStep, TimerSecondStep, SfDiscoveryStep, SfNextStep, SfUnfinishedStep DEF TimerIsr
<1>5. ASSUME NEW n \in Anchors, RxIsr(n) PROVE IInv'
  BY <1>5, RxProgressStep, RxCorrectionStep, RxLastStep DEF RxIsr
<1>6. CASE UNCHANGED vars
  <2>1. TypeOK'
    BY <1>6 DEF IInv, TypeOK, vars
  <2>2. \A m \in Anchors : Untouched(m)
    BY <1>6 DEF vars, Untouched
  <2> QED
    BY <2>1, <2>2, UntouchedInv DEF IInv
<1> QED
  BY <1>1, <1>2, <1>3, <1>4, <1>5, <1>6 DEF Next

\* Type correctness: every variable of every anchor stays in its type for any
\* number of anchors; for the slot register this is the bound on the value
\* set_frame_timer computes.
THEOREM TypeCorrect == Spec => []TypeOK
<1>1. IInv => TypeOK
  BY DEF IInv
<1> QED
  BY <1>1, InitInv, NextInv, PTL DEF Spec

\* The inductive invariant itself.
THEOREM Invariant == Spec => []IInv
BY InitInv, NextInv, PTL DEF Spec

\* compensate_frame_timer, cut anywhere by the timer's interrupt, never lets
\* the counter run past the end of the superframe unnoticed.
THEOREM SuperframeNeverMissed == Spec => []SuperframeArmed
<1>1. IInv => SuperframeArmed
  BY DEF IInv, TypeOK, AnchorInv, ClockArmed, SuperframeArmed
<1> QED
  BY <1>1, Invariant, PTL

\* compensate_frame_timer never stretches a superframe by a whole one.
THEOREM SuperframeLengthBounded == Spec => []SuperframeBounded
<1>1. IInv => SuperframeBounded
  BY DEF IInv, TypeOK, AnchorInv, ClockArmed, SuperframeBounded
<1> QED
  BY <1>1, Invariant, PTL

\* event_handler has a branch for every slot interrupt that comes.
THEOREM SlotInterruptExpected == Spec => []NoStrayTimer
<1>1. IInv => NoStrayTimer
  BY DEF IInv, TypeOK, AnchorInv, SlotClock, NoStrayTimer
<1> QED
  BY <1>1, Invariant, PTL

\* No path of the transmit and receive callbacks leaves a discovering anchor
\* deaf.
THEOREM DiscoveryNeverDeaf == Spec => []DiscoveryListens
<1>1. IInv => DiscoveryListens
  BY DEF IInv, TypeOK, AnchorInv, DiscoveryClock, DiscoveryListens
<1> QED
  BY <1>1, Invariant, PTL

\* The end of a superframe is ahead, by less than two nominal ones.
THEOREM SuperframeAlwaysEnds == Spec => []SuperframeEnds
<1>1. SuperframeArmed /\ SuperframeBounded => SuperframeEnds
  BY DEF SuperframeEnds
<1> QED
  BY <1>1, SuperframeNeverMissed, SuperframeLengthBounded, PTL

\* State and hardware of every anchor agree.
THEOREM StateAlwaysFits == Spec => []StateFitsHardware
<1>1. NoStrayTimer /\ DiscoveryListens => StateFitsHardware
  BY DEF StateFitsHardware
<1> QED
  BY <1>1, SlotInterruptExpected, DiscoveryNeverDeaf, PTL

\* A follower's superframe id does not change between its two messages.
THEOREM PairShareSuperframeId == Spec => PairedSuperframeId
<1>1. ASSUME IInv, [Next]_vars
      PROVE  [\A n \in on' \ {0} : state[n] = "WAITING_SECOND" =>
                                    superframe_id'[n] = superframe_id[n]]_vars
  <2> SUFFICES ASSUME Next, NEW n \in on' \ {0}, state[n] = "WAITING_SECOND"
               PROVE  superframe_id'[n] = superframe_id[n]
    BY <1>1
  <2>1. CASE Tick \/ Land
    BY <2>1 DEF Tick, Land
  <2>2. ASSUME NEW m \in Anchors, Boot(m) \/ PowerOff(m) PROVE superframe_id'[n] = superframe_id[n]
    BY <1>1, <2>2 DEF IInv, TypeOK, Boot, PowerOff
  <2>3. ASSUME NEW m \in Anchors, TimerIsr(m) PROVE superframe_id'[n] = superframe_id[n]
    BY <1>1, <2>3 DEF IInv, TypeOK, TimerIsr, TimerFirst, TimerSecond, SfDiscovery, SfNext, SfUnfinished
  <2>4. ASSUME NEW m \in Anchors, RxIsr(m) PROVE superframe_id'[n] = superframe_id[n]
    <3>1. CASE RxAdopt(m)
      <4>1. m # n
        BY <1>1, <2>4, <3>1 DEF IInv, AnchorInv, Joining, RxAdopt
      <4> QED
        BY <1>1, <3>1, <4>1 DEF IInv, TypeOK, RxAdopt
    <3>2. CASE ~RxAdopt(m)
      BY <2>4, <3>2 DEF RxIsr, RxJoin, RxSync, RxIgnored, RxCapture, RxCompensate, RxProgram, RxRecord, RxStamp
    <3> QED
      BY <3>1, <3>2
  <2> QED
    BY <2>1, <2>2, <2>3, <2>4 DEF Next
<1> QED
  BY <1>1, Invariant, PTL DEF Spec, PairedSuperframeId

-----------------------------------------------------------------------------
(* An orderly network: anchor 0 founds it and keeps its power, the others  *)
(* join between the two messages of an anchor and leave between            *)
(* superframes, and second messages arrive.                                *)

OrderlyNetwork == Orderly /\ 0 \in Founders \ Crashable /\ Unreliable \subseteq {0} /\ SYNC = 0

\* Anchor 0's clock is never corrected: it is the network's.
Now == counter[0]

\* When the message of parity p of anchor s is due.
SlotOf(s, p) == IF p = 0 THEN FirstSlot(s) ELSE SecondSlot(s)

\* The ticks since the superframe began, as anchor n sees them.  Until its own
\* slots a correction of its register may be taken back by the next message.
View(n) == IF state[n] = "WAITING_FIRST" THEN counter[n] ELSE SF - (cc1[n] - counter[n])

\* At the superframe's end the interrupts come one by one.
Level(n) == View(n) = Now
Leads(n) == View(n) = 0 /\ Now = SF
Lags(n) == View(n) = SF /\ Now = 0
InStep(n) == Level(n) \/ Leads(n) \/ Lags(n)

\* What a superframe's beginning makes of the id, in DISCOVERY and after.
Stage(n) == [discovers |-> state[n] = "DISCOVERY", id |-> superframe_id[n]]
After(e) ==
    IF e.discovers
    THEN [discovers |-> e.id + 1 <= DISCOVERY, id |-> IF e.id + 1 > DISCOVERY THEN 0 ELSE e.id + 1]
    ELSE [discovers |-> FALSE, id |-> NextId(e.id)]
SameStage(n) ==
    /\ Level(n) => Stage(n) = Stage(0)
    /\ Leads(n) => Stage(n) = After(Stage(0))
    /\ Lags(n) => Stage(0) = After(Stage(n))

\* Anchor s is between its two messages, or its second one is on the air.
Middle(s) ==
    /\ s \in on
    /\ \/ state[s] = "WAITING_SECOND" /\ air[s] = {}
       \/ \E f \in air[s] : f.parity = 1

\* Founders discover together; whoever joins later has booted in the middle of
\* an anchor's pair and is about to hear its second message.
Founds(n) ==
    /\ InStep(n) /\ SameStage(n) /\ rxPc[n] = "idle"
    /\ state[0] \in {"DISCOVERY", "WAITING_NEXT_SF"}
Joins(n, s) ==
    /\ state[0] # "DISCOVERY"
    /\ counter[n] + FirstSlot(s) <= Now /\ Now <= SecondSlot(s) + PREFIX
    /\ rxPc[n] = "idle" => Middle(s)

\* A first message is taken for a second one, which makes the correction wrong
\* by a slot until the second one puts it right.
Steady(n) == cc1[n] = SF /\ compensation[n] = 0
Half(n, s) ==
    /\ FirstSlot(s) + PREFIX <= Now /\ Now <= SecondSlot(s) + PREFIX
    /\ \/ Middle(s)
       \/ /\ rxPc[n] \in {"event", "capture", "compensate", "program"}
          /\ rxMsg[n].src = s /\ rxMsg[n].parity = 1
    /\ cc1[n] \in {SF, SF - SLOT} /\ compensation[n] \in {0, SLOT}

InDiscovery(n) ==
    state[n] = "DISCOVERY" => Founds(n) \/ \E s \in Anchors \ {n} : Joins(n, s)
InNext(n) ==
    state[n] = "WAITING_NEXT_SF" => InStep(n) \/ (rxJoin[n] /\ rxPc[n] # "adopt")
InFirst(n) ==
    state[n] = "WAITING_FIRST" =>
        /\ state[0] # "DISCOVERY" /\ (Level(n) \/ Leads(n))
        /\ Steady(n) \/ \E s \in Anchors \ {n} : Half(n, s)
InSecond(n) ==
    state[n] = "WAITING_SECOND" =>
        /\ state[0] # "DISCOVERY" /\ counter[n] = Now /\ cc1[n] = SF /\ rxPc[n] = "idle"
        /\ FirstSlot(n) <= Now /\ Now <= SecondSlot(n) /\ cc0[n] = SecondSlot(n)
        /\ Now < SecondSlot(n) \/ "timer" \in due[n]

OnAir(n) ==
    \A f \in air[n] :
        /\ n \in on /\ state[0] # "DISCOVERY"
        /\ Now = SlotOf(n, f.parity) + PREFIX - f.left
        /\ f.tr_id = superframe_id[0]
        /\ state[n] = IF f.parity = 0 THEN "WAITING_SECOND" ELSE "WAITING_NEXT_SF"
        /\ \A g \in air[n] : g = f

\* The message in hand has just landed; the time of the reading has not passed.
Receives(n) ==
    rxPc[n] # "idle" =>
        LET s == rxMsg[n].src
            p == rxMsg[n].parity
        IN  /\ s # n /\ state[0] # "DISCOVERY"
            /\ Now = SlotOf(s, p) + PREFIX /\ rxMsg[n].tr_id = superframe_id[0]
            /\ \A m \in Anchors : air[m] = {}
            /\ p = 0 => s \in on /\ state[s] = "WAITING_SECOND"
            /\ state[n] = "DISCOVERY" \/ rxJoin[n] => p = 1
            /\ rxPc[n] \in {"capture", "compensate", "program"} =>
                 \/ rxJoin[n] /\ cc1[n] = SF /\ counter[n] <= SLOT + PREFIX
                 \/ state[n] = "WAITING_FIRST"
            /\ rxPc[n] = "record" => state[n] = "WAITING_FIRST"
            /\ rxJoin[n] => state[n] = "WAITING_NEXT_SF"
            /\ rxPc[n] \in {"compensate", "program"} => rxCap[n] = counter[n]
            /\ rxPc[n] = "program" => compensation[n] = SecondSlot(s) + PREFIX - counter[n]

Hears(n) == n \in on /\ air[n] = {} /\ rxPc[n] = "idle" /\ ~rxOn[n] => state[n] = "WAITING_SECOND"

OrderInv(n) ==
    /\ n \in on =>
         /\ InDiscovery(n) /\ InNext(n) /\ InFirst(n) /\ InSecond(n) /\ Receives(n)
         /\ state[n] # "DISCOVERY" /\ ~rxJoin[n] => SameStage(n)
         /\ "sf" \in due[n] => counter[n] = cc1[n]
    /\ n \notin on => counter[n] = 0 /\ air[n] = {}
    /\ OnAir(n) /\ Hears(n)

ZeroInv == 0 \in on /\ cc1[0] = SF /\ ~rxJoin[0]

NetInv == ZeroInv /\ \A n \in Anchors : OrderInv(n)

-----------------------------------------------------------------------------
(* Arithmetic of the slots. *)

LEMMA Slots ==
    ASSUME NEW n \in Anchors
    PROVE  /\ SF \in Nat /\ SLOT \in Nat /\ PREFIX \in Nat /\ 0 < PREFIX /\ PREFIX < SLOT
           /\ FirstSlot(n) \in Nat /\ SecondSlot(n) = FirstSlot(n) + SLOT
           /\ FirstSlot(n) + 2 * SLOT <= SF
           /\ n # 0 => 2 * SLOT <= FirstSlot(n)
           /\ FirstSlot(0) = 0 /\ SecondSlot(0) = SLOT /\ 0 \in Anchors
<1> DEFINE k == N - 1 - n
<1>1. n \in Nat /\ N \in Nat /\ SLOT \in Nat /\ SLOT > 0 /\ k \in Nat /\ 0 \in Anchors
  BY SizesAssumption DEF Anchors
<1>2. k * SLOT \in Nat /\ n * SLOT \in Nat
  BY <1>1
<1>3. n # 0 => n * SLOT >= SLOT
  <2>1. ASSUME n # 0 PROVE n * SLOT = (n - 1) * SLOT + SLOT /\ (n - 1) * SLOT >= 0
    BY <1>1, <2>1
  <2> QED
    BY <1>1, <1>2, <2>1
<1>4. N * SLOT = k * SLOT + n * SLOT + SLOT
  BY <1>1
<1>5. SF = 2 * (N * SLOT) /\ FirstSlot(n) = 2 * (n * SLOT) /\ FirstSlot(0) = 0
      /\ SecondSlot(n) = 2 * (n * SLOT) + SLOT /\ SecondSlot(0) = SLOT
  BY <1>1 DEF SF, FirstSlot, SecondSlot
<1> HIDE DEF k
<1> QED
  BY <1>1, <1>2, <1>3, <1>4, <1>5, SizesAssumption

LEMMA SlotsOrdered ==
    ASSUME NEW s \in Anchors, NEW t \in Anchors, s < t
    PROVE  FirstSlot(s) + 2 * SLOT <= FirstSlot(t)
<1> DEFINE k == t - 1 - s
<1>1. s \in Nat /\ t \in Nat /\ SLOT \in Nat /\ SLOT > 0 /\ k \in Nat
  BY SizesAssumption DEF Anchors
<1>2. k * SLOT \in Nat /\ s * SLOT \in Nat
  BY <1>1
<1>3. t * SLOT = k * SLOT + s * SLOT + SLOT
  BY <1>1
<1>4. FirstSlot(s) = 2 * (s * SLOT) /\ FirstSlot(t) = 2 * (t * SLOT)
  BY <1>1 DEF FirstSlot
<1> HIDE DEF k
<1> QED
  BY <1>1, <1>2, <1>3, <1>4

\* A time is in the pair of slots of one anchor only.
LEMMA OneOwner ==
    ASSUME NEW s \in Anchors, NEW t \in Anchors, NEW now \in Int,
           FirstSlot(s) <= now, now < FirstSlot(s) + 2 * SLOT,
           FirstSlot(t) <= now, now < FirstSlot(t) + 2 * SLOT
    PROVE  s = t
<1>1. s \in Nat /\ t \in Nat
  BY SizesAssumption DEF Anchors
<1>2. s < t \/ t < s \/ s = t
  BY <1>1
<1>3. FirstSlot(s) \in Nat /\ FirstSlot(t) \in Nat /\ SLOT \in Nat
  BY Slots
<1> QED
  BY <1>2, <1>3, SlotsOrdered

-----------------------------------------------------------------------------
(* A step that touches neither an anchor, nor anchor 0, nor whom it waits for. *)

Kept(m) ==
    /\ Untouched(m)
    /\ rxMsg'[m] = rxMsg[m] /\ air'[m] = air[m] /\ superframe_id'[m] = superframe_id[m]

ZeroKept ==
    /\ counter'[0] = counter[0] /\ superframe_id'[0] = superframe_id[0]
    /\ state'[0] \in {state[0], "WAITING_NEXT_SF"}
    /\ state[0] = "DISCOVERY" <=> state'[0] = "DISCOVERY"

LEMMA Others ==
    ASSUME IInv, NEW m \in Anchors, OrderInv(m), Kept(m), ZeroKept,
           \A s \in Anchors : Middle(s) => Middle(s)',
           rxPc[m] # "idle" =>
             /\ \A k \in Anchors : air'[k] = {}
             /\ \A s \in Anchors : s \in on /\ state[s] = "WAITING_SECOND" => s \in on' /\ state'[s] = "WAITING_SECOND"
    PROVE  OrderInv(m)'
<1>1. /\ View(m)' = View(m) /\ Now' = Now /\ Stage(m)' = Stage(m) /\ Stage(0)' = Stage(0)
      /\ superframe_id'[0] = superframe_id[0] /\ (state[0] # "DISCOVERY" => state'[0] # "DISCOVERY")
  BY DEF Kept, ZeroKept, Untouched, View, Now, Stage
<1>2. /\ InStep(m)' <=> InStep(m)
      /\ SameStage(m)' <=> SameStage(m)
      /\ Level(m)' <=> Level(m)
      /\ Leads(m)' <=> Leads(m)
  BY <1>1 DEF InStep, SameStage, Level, Leads, Lags
<1>3. \A s \in Anchors : /\ Joins(m, s) => Joins(m, s)'
                         /\ Half(m, s) => Half(m, s)'
  BY <1>1 DEF Joins, Half, Kept, Untouched
<1>4. Founds(m) => Founds(m)'
  BY <1>1, <1>2 DEF Founds, Kept, Untouched, ZeroKept
<1>5. ASSUME m \in on
      PROVE  /\ InDiscovery(m)' /\ InNext(m)' /\ InFirst(m)' /\ InSecond(m)' /\ Receives(m)'
             /\ state'[m] # "DISCOVERY" /\ ~rxJoin'[m] => SameStage(m)'
             /\ "sf" \in due'[m] => counter'[m] = cc1'[m]
  <2>1. InDiscovery(m)'
    BY <1>3, <1>4, <1>5 DEF OrderInv, InDiscovery, Kept, Untouched
  <2>2. InNext(m)'
    BY <1>2, <1>5 DEF OrderInv, InNext, Kept, Untouched
  <2>3. InFirst(m)'
    BY <1>1, <1>2, <1>3, <1>5 DEF OrderInv, InFirst, Steady, Kept, Untouched
  <2>4. InSecond(m)'
    BY <1>1, <1>5 DEF OrderInv, InSecond, Kept, Untouched
  <2>5. Receives(m)'
    <3> SUFFICES ASSUME rxPc'[m] # "idle" PROVE Receives(m)'
      BY DEF Receives
    <3>1. rxPc[m] # "idle" /\ rxMsg[m].src \in Anchors
      BY DEF Kept, Untouched, IInv, TypeOK, Msg
    <3> QED
      BY <1>1, <1>5, <3>1 DEF OrderInv, Receives, Kept, Untouched
  <2> QED
    BY <1>2, <1>5, <2>1, <2>2, <2>3, <2>4, <2>5 DEF OrderInv, Kept, Untouched
<1>6. m \notin on => counter'[m] = 0 /\ air'[m] = {}
  BY DEF OrderInv, Kept, Untouched
<1>7. OnAir(m)' /\ Hears(m)'
  BY <1>1 DEF OrderInv, OnAir, Hears, Kept, Untouched
<1> QED
  BY <1>5, <1>6, <1>7 DEF OrderInv, Kept, Untouched

-----------------------------------------------------------------------------
(* What the time tells. *)

\* A message is handled after its prefix, when nobody sends.
LEMMA RxTime ==
    ASSUME IInv, NetInv, NEW n \in Anchors, rxPc[n] # "idle"
    PROVE  /\ n \in on /\ Receives(n) /\ rxMsg[n].src \in Anchors \ {n} /\ rxMsg[n].parity \in 0..1
           /\ Now \in Nat /\ FirstSlot(rxMsg[n].src) + PREFIX <= Now
           /\ Now <= SecondSlot(rxMsg[n].src) + PREFIX
           /\ Now = SlotOf(rxMsg[n].src, rxMsg[n].parity) + PREFIX
           /\ 0 < Now /\ Now < SF
           /\ \A m \in Anchors : air[m] = {}
           /\ state[0] # "DISCOVERY"
<1>1. n \in on
  BY DEF IInv, AnchorInv, OffIdle
<1>2. Receives(n)
  BY <1>1 DEF NetInv, OrderInv
<1>3. rxMsg[n].src \in Anchors /\ rxMsg[n].parity \in 0..1 /\ Now \in Nat
  <2>1. rxMsg[n] \in Msg /\ counter[0] \in Nat
    BY Slots DEF IInv, TypeOK
  <2> QED
    BY <2>1 DEF Msg, Now
<1>4. PICK s \in Anchors : s = rxMsg[n].src
  BY <1>3
<1>5. /\ s # n /\ Now = SlotOf(s, rxMsg[n].parity) + PREFIX
      /\ \A m \in Anchors : air[m] = {}
      /\ state[0] # "DISCOVERY"
  BY <1>2, <1>4 DEF Receives
<1>6. SlotOf(s, rxMsg[n].parity) \in {FirstSlot(s), SecondSlot(s)}
  BY DEF SlotOf
<1> QED
  BY <1>1, <1>2, <1>3, <1>4, <1>5, <1>6, Slots

\* A frame is on the air within the slots of its anchor.
LEMMA AirTime ==
    ASSUME IInv, NetInv, NEW n \in Anchors, NEW f \in air[n]
    PROVE  /\ f \in Frame /\ f.left \in 0..PREFIX /\ f.parity \in 0..1 /\ n \in on
           /\ Now \in Nat /\ FirstSlot(n) <= Now /\ Now <= SecondSlot(n) + PREFIX
           /\ Now = SlotOf(n, f.parity) + PREFIX - f.left
           /\ air[n] = {f} /\ FrameOf(n) = f
           /\ \A m \in Anchors \ {n} : air[m] = {}
           /\ \A m \in Anchors : rxPc[m] = "idle"
<1>1. f \in Frame /\ f.left \in 0..PREFIX /\ f.parity \in 0..1 /\ Now \in Nat
  BY Slots DEF IInv, TypeOK, Frame, Now
<1>2. /\ Now = SlotOf(n, f.parity) + PREFIX - f.left /\ n \in on
      /\ \A g \in air[n] : g = f
  BY DEF NetInv, OrderInv, OnAir
<1>3. FirstSlot(n) <= Now /\ Now <= SecondSlot(n) + PREFIX
  BY <1>1, <1>2, Slots DEF SlotOf
<1>4. air[n] = {f} /\ FrameOf(n) = f
  BY <1>2 DEF FrameOf
<1>5. ASSUME NEW m \in Anchors \ {n}, NEW g \in air[m] PROVE FALSE
  <2>1. g.left \in 0..PREFIX /\ g.parity \in 0..1
    BY <1>5 DEF IInv, TypeOK, Frame
  <2>2. Now = SlotOf(m, g.parity) + PREFIX - g.left
    BY <1>5 DEF NetInv, OrderInv, OnAir
  <2>3. FirstSlot(m) <= Now /\ Now <= SecondSlot(m) + PREFIX
    BY <2>1, <2>2, Slots DEF SlotOf
  <2> QED
    BY <1>1, <1>3, <1>5, <2>3, Slots, OneOwner
<1>6. ASSUME NEW m \in Anchors, rxPc[m] # "idle" PROVE FALSE
  BY <1>6, RxTime
<1> QED
  BY <1>1, <1>2, <1>3, <1>4, <1>5, <1>6

\* When a slot begins nobody handles a message, and whoever waits for the
\* end of a pair waits for the anchor whose slot it is.
LEMMA SlotBegins ==
    ASSUME IInv, NetInv, NEW n \in Anchors, NEW p \in 0..1, Now = SlotOf(n, p)
    PROVE  /\ \A m \in Anchors : rxPc[m] = "idle"
           /\ \A m \in Anchors \ {n} : air[m] = {}
           /\ \A f \in air[n] : f.parity = p /\ f.left = PREFIX
           /\ \A m \in Anchors, s \in Anchors :
                /\ Half(m, s) => s = n /\ p = 1
                /\ Joins(m, s) => s = n
<1>1. Now \in Nat /\ FirstSlot(n) <= Now /\ Now <= SecondSlot(n)
  BY Slots DEF SlotOf, IInv, TypeOK, Now
<1>2. ASSUME NEW m \in Anchors, rxPc[m] # "idle" PROVE FALSE
  <2>1. PICK s \in Anchors : s = rxMsg[m].src
    BY <1>2, RxTime
  <2>2. FirstSlot(s) + PREFIX <= Now /\ Now <= SecondSlot(s) + PREFIX
        /\ (Now = FirstSlot(s) + PREFIX \/ Now = SecondSlot(s) + PREFIX)
    BY <1>2, <2>1, RxTime DEF SlotOf
  <2>3. s = n
    BY <1>1, <2>2, Slots, OneOwner
  <2> QED
    BY <2>2, <2>3, Slots DEF SlotOf
<1>3. ASSUME NEW m \in Anchors \ {n}, NEW f \in air[m] PROVE FALSE
  <2>1. FirstSlot(m) <= Now /\ Now <= SecondSlot(m) + PREFIX
    BY <1>3, AirTime
  <2> QED
    BY <1>1, <1>3, <2>1, Slots, OneOwner
<1>4. ASSUME NEW f \in air[n] PROVE f.parity = p /\ f.left = PREFIX
  <2>1. f.left \in 0..PREFIX /\ f.parity \in 0..1 /\ Now = SlotOf(n, f.parity) + PREFIX - f.left
    BY AirTime
  <2>2. /\ SlotOf(n, f.parity) = IF f.parity = 0 THEN FirstSlot(n) ELSE FirstSlot(n) + SLOT
        /\ Now = IF p = 0 THEN FirstSlot(n) ELSE FirstSlot(n) + SLOT
    BY Slots DEF SlotOf
  <2>3. FirstSlot(n) \in Nat /\ SLOT \in Nat /\ PREFIX \in Nat /\ PREFIX < SLOT
    BY Slots
  <2> QED
    BY <2>1, <2>2, <2>3
<1>5. ASSUME NEW m \in Anchors, NEW s \in Anchors, Half(m, s) PROVE s = n /\ p = 1
  <2>1. FirstSlot(s) + PREFIX <= Now /\ Now <= SecondSlot(s) + PREFIX
    BY <1>5 DEF Half
  <2>2. s = n
    BY <1>1, <2>1, Slots, OneOwner
  <2> QED
    BY <2>1, <2>2, Slots DEF SlotOf
<1>6. ASSUME NEW m \in Anchors, NEW s \in Anchors, Joins(m, s) PROVE s = n
  <2>1. FirstSlot(s) <= Now /\ Now <= SecondSlot(s) + PREFIX
    <3>1. counter[m] \in Nat /\ counter[m] + FirstSlot(s) <= Now /\ Now <= SecondSlot(s) + PREFIX
      BY <1>6 DEF Joins, IInv, TypeOK
    <3> QED
      BY <1>1, <3>1, Slots
  <2> QED
    BY <1>1, <2>1, Slots, OneOwner
<1> QED
  BY <1>2, <1>3, <1>4, <1>5, <1>6

-----------------------------------------------------------------------------
USE DEF timerVars, infoVars, stateVars, radioVars, rxVars

(* Power. *)

LEMMA BootKeeps ==
    ASSUME OrderlyNetwork, IInv, NetInv, NEW n \in Anchors, Boot(n)
    PROVE  NetInv'
<1>1. /\ n \notin on /\ on' = on \cup {n}
      /\ UNCHANGED <<counter, cc0, cc1, compensation, due, state, superframe_id, rxOn, air, rxPc, rxMsg, rxCap, rxJoin>>
  BY DEF Boot
<1>2. PICK s \in on : state[s] = "WAITING_SECOND" /\ \A m \in on : air[m] = {}
  BY DEF Boot, OrderlyNetwork
<1>3. s \in Anchors \ {n}
  BY <1>1, <1>2 DEF IInv, TypeOK
<1>4. \A m \in Anchors : Middle(m) => Middle(m)'
  BY <1>1 DEF Middle
<1>5. ASSUME NEW m \in Anchors \ {n} PROVE OrderInv(m)'
  <2>1. Kept(m) /\ ZeroKept
    BY <1>1 DEF Kept, ZeroKept, Untouched
  <2>2. rxPc[m] # "idle" => \A k \in Anchors : air'[k] = {}
    BY <1>1, RxTime
  <2>3. \A t \in Anchors : t \in on /\ state[t] = "WAITING_SECOND" => t \in on' /\ state'[t] = "WAITING_SECOND"
    BY <1>1
  <2> QED
    BY <1>4, <2>1, <2>2, <2>3, Others DEF NetInv
<1>6. OrderInv(n)'
  <2>1. /\ counter[n] = 0 /\ air[n] = {} /\ due[n] = {} /\ rxPc[n] = "idle" /\ state[n] = "DISCOVERY" /\ rxOn[n]
        /\ ~rxJoin[n]
    BY <1>1 DEF NetInv, OrderInv, IInv, AnchorInv, OffIdle, DiscoveryClock, Joining
  <2>2. state[0] # "DISCOVERY" /\ counter[s] = Now /\ FirstSlot(s) <= Now /\ Now <= SecondSlot(s)
    BY <1>2, <1>3 DEF NetInv, OrderInv, InSecond
  <2>3. Middle(s)
    BY <1>2 DEF Middle
  <2>4. Joins(n, s)'
    BY <1>1, <1>3, <1>4, <2>1, <2>2, <2>3, Slots DEF Joins, Now, IInv, TypeOK
  <2>5. InDiscovery(n)' /\ InNext(n)' /\ InFirst(n)' /\ InSecond(n)' /\ Receives(n)'
    BY <1>1, <1>3, <2>1, <2>4 DEF InDiscovery, InNext, InFirst, InSecond, Receives
  <2>6. OnAir(n)' /\ Hears(n)'
    BY <1>1, <2>1 DEF OnAir, Hears
  <2> QED
    BY <1>1, <2>1, <2>5, <2>6 DEF OrderInv
<1>7. ZeroInv'
  BY <1>1 DEF NetInv, ZeroInv
<1> QED
  BY <1>5, <1>6, <1>7 DEF NetInv

LEMMA PowerOffKeeps ==
    ASSUME OrderlyNetwork, IInv, NetInv, NEW n \in Anchors, PowerOff(n)
    PROVE  NetInv'
<1>1. /\ n # 0 /\ n \in on /\ on' = on \ {n} /\ state[n] = "WAITING_NEXT_SF" /\ air[n] = {}
      /\ counter'[n] = 0 /\ air'[n] = {}
      /\ \A m \in Anchors \ {n} : Kept(m)
  BY DEF PowerOff, OrderlyNetwork, Kept, Untouched, IInv, TypeOK
<1>2. \A s \in Anchors : Middle(s) => Middle(s)'
  BY <1>1 DEF Middle, Kept, Untouched
<1>3. 0 \in Anchors \ {n} /\ ZeroKept
  BY <1>1, Slots DEF Kept, ZeroKept, Untouched
<1>4. ASSUME NEW m \in Anchors \ {n} PROVE OrderInv(m)'
  <2>1. rxPc[m] # "idle" => \A k \in Anchors : air'[k] = {}
    BY <1>1, RxTime DEF Kept
  <2>2. \A s \in Anchors : s \in on /\ state[s] = "WAITING_SECOND" => s \in on' /\ state'[s] = "WAITING_SECOND"
    BY <1>1 DEF Kept, Untouched
  <2> QED
    BY <1>1, <1>2, <1>3, <2>1, <2>2, Others DEF NetInv
<1>5. OrderInv(n)'
  BY <1>1 DEF OrderInv, OnAir, Hears
<1>6. ZeroInv'
  BY <1>1, <1>3 DEF NetInv, ZeroInv, Kept, Untouched
<1> QED
  BY <1>4, <1>5, <1>6 DEF NetInv

-----------------------------------------------------------------------------
(* The radio's interrupt.                                                  *)

\* What its steps have in common.
RxKeeps(n) ==
    /\ \A m \in Anchors \ {n} : Kept(m)
    /\ on' = on /\ air' = air /\ counter' = counter /\ due' = due
    /\ state[n] # "DISCOVERY" => state'[n] = state[n]
    /\ state[n] # "DISCOVERY" /\ rxPc[n] # "adopt" => superframe_id'[n] = superframe_id[n]
    /\ n = 0 => cc1'[n] = cc1[n] /\ (~rxJoin[n] => ~rxJoin'[n])

LEMMA RxOthers ==
    ASSUME IInv, NetInv, NEW n \in Anchors, rxPc[n] # "idle", RxKeeps(n), OrderInv(n)'
    PROVE  NetInv'
<1>1. /\ n \in on /\ state[0] # "DISCOVERY" /\ \A m \in Anchors : air[m] = {}
  BY RxTime
<1>2. 0 \in Anchors /\ ~rxJoin[0] /\ 0 \in on /\ cc1[0] = SF /\ rxPc[0] # "adopt"
  BY Slots DEF NetInv, ZeroInv, IInv, AnchorInv, Joining
<1>3. ZeroKept
  BY <1>1, <1>2 DEF RxKeeps, ZeroKept, Kept, Untouched
<1>4. \A s \in Anchors : Middle(s) => Middle(s)'
  BY <1>1 DEF Middle, RxKeeps, Kept, Untouched
<1>5. \A s \in Anchors : s \in on /\ state[s] = "WAITING_SECOND" => s \in on' /\ state'[s] = "WAITING_SECOND"
  BY DEF RxKeeps, Kept, Untouched
<1>6. ASSUME NEW m \in Anchors \ {n} PROVE OrderInv(m)'
  <2>1. Kept(m) /\ OrderInv(m) /\ \A k \in Anchors : air'[k] = {}
    BY <1>1 DEF RxKeeps, NetInv
  <2> QED
    BY <1>3, <1>4, <1>5, <2>1, Others
<1>7. ZeroInv'
  BY <1>2 DEF ZeroInv, RxKeeps, Kept, Untouched
<1> QED
  BY <1>6, <1>7 DEF NetInv

\* Who waits for his first slot when a message comes counts as anchor 0 does,
\* and whoever has joined is in the middle of the pair that brought it in.
LEMMA RxClock ==
    ASSUME IInv, NetInv, NEW n \in Anchors, rxPc[n] # "idle"
    PROVE  /\ state[n] = "WAITING_FIRST" =>
                /\ n # 0 /\ counter[n] = Now /\ "sf" \notin due[n]
                /\ Steady(n) \/ Half(n, rxMsg[n].src)
           /\ state[n] = "DISCOVERY" =>
                counter[n] <= SLOT + PREFIX /\ cc1[n] = SF /\ rxMsg[n].parity = 1 /\ rxPc[n] = "event"
           /\ state[n] # "WAITING_SECOND"
           /\ counter[n] \in Nat /\ cc1[n] \in Int /\ compensation[n] \in Int
<1>1. n \in on /\ Receives(n) /\ OrderInv(n)
  BY RxTime DEF NetInv
<1>2. PICK s \in Anchors \ {n} : s = rxMsg[n].src
  BY RxTime
<1>3. PICK p \in 0..1 : p = rxMsg[n].parity
  BY RxTime
<1>4. /\ Now \in Nat /\ FirstSlot(s) + PREFIX <= Now /\ Now <= SecondSlot(s) + PREFIX
      /\ 0 < Now /\ Now < SF
  BY <1>2, RxTime
<1>5. counter[n] \in Nat /\ cc1[n] \in Int /\ compensation[n] \in Int /\ cc0[n] \in Int
  BY DEF IInv, TypeOK
<1>6. state[n] # "WAITING_SECOND"
  BY <1>1 DEF OrderInv, InSecond
<1>7. \A t \in Anchors : FirstSlot(t) <= Now /\ Now <= SecondSlot(t) + PREFIX => t = s
  BY <1>4, Slots, OneOwner
<1>8. ASSUME state[n] = "WAITING_FIRST"
      PROVE  n # 0 /\ counter[n] = Now /\ "sf" \notin due[n] /\ (Steady(n) \/ Half(n, s))
  <2>1. n # 0 /\ counter[n] <= FirstSlot(n)
    BY <1>8 DEF IInv, AnchorInv, SlotClock
  <2>2. View(n) = counter[n] /\ (Level(n) \/ Leads(n)) /\ (Steady(n) \/ \E t \in Anchors \ {n} : Half(n, t))
    BY <1>1, <1>8 DEF OrderInv, InFirst, View
  <2>3. counter[n] = Now
    BY <1>4, <2>2 DEF Level, Leads
  <2>4. Steady(n) \/ Half(n, s)
    <3>1. ASSUME NEW t \in Anchors, Half(n, t) PROVE t = s
      <4>1. FirstSlot(t) + PREFIX <= Now /\ Now <= SecondSlot(t) + PREFIX
        BY <3>1 DEF Half
      <4> QED
        BY <1>4, <1>7, <4>1, Slots
    <3> QED
      BY <2>2, <3>1
  <2>5. cc1[n] >= SF - SLOT
    BY <2>4, Slots DEF Steady, Half
  <2>6. "sf" \notin due[n]
    BY <1>1, <1>5, <2>1, <2>5, Slots DEF OrderInv
  <2> QED
    BY <2>1, <2>3, <2>4, <2>6
<1>9. ASSUME state[n] = "DISCOVERY"
      PROVE  counter[n] <= SLOT + PREFIX /\ cc1[n] = SF /\ p = 1 /\ rxPc[n] = "event"
  <2>1. PICK t \in Anchors : Joins(n, t)
    BY <1>1, <1>9 DEF OrderInv, InDiscovery, Founds
  <2>2. counter[n] + FirstSlot(t) <= Now /\ Now <= SecondSlot(t) + PREFIX
    BY <2>1 DEF Joins
  <2>3. p = 1 /\ cc1[n] = SF /\ rxPc[n] = "event"
    BY <1>1, <1>3, <1>9 DEF Receives, IInv, AnchorInv, DiscoveryClock
  <2> QED
    BY <1>4, <1>5, <1>7, <2>2, <2>3, Slots
<1> QED
  BY <1>2, <1>3, <1>5, <1>6, <1>8, <1>9

LEMMA RxJoinKeeps ==
    ASSUME OrderlyNetwork, IInv, NetInv, NEW n \in Anchors, RxJoin(n)
    PROVE  NetInv'
<1>1. rxPc[n] = "event" /\ state[n] = "DISCOVERY" /\ n # 0
  BY RxTime DEF RxJoin
<1>2. /\ state' = [state EXCEPT ![n] = "WAITING_NEXT_SF"]
      /\ rxJoin' = [rxJoin EXCEPT ![n] = TRUE] /\ rxPc' = [rxPc EXCEPT ![n] = "capture"]
      /\ UNCHANGED <<on, counter, cc0, cc1, compensation, due, superframe_id, rxOn, air, rxMsg, rxCap>>
  BY DEF RxJoin, RxGoto
<1>3. state'[n] = "WAITING_NEXT_SF" /\ rxJoin'[n] /\ rxPc'[n] = "capture" /\ state'[0] = state[0]
  BY <1>1, <1>2 DEF IInv, TypeOK
<1>4. RxKeeps(n)
  BY <1>1, <1>2 DEF RxKeeps, Kept, Untouched, IInv, TypeOK
<1>5. OrderInv(n)'
  <2>1. OrderInv(n) /\ n \in on /\ Receives(n) /\ (\A m \in Anchors : air[m] = {}) /\ rxMsg[n].src # n
    BY <1>1, RxTime DEF NetInv
  <2>2. counter[n] <= SLOT + PREFIX /\ cc1[n] = SF /\ rxMsg[n].parity = 1
    BY <1>1, RxClock
  <2>3. Receives(n)'
    BY <1>1, <1>2, <1>3, <2>1, <2>2 DEF Receives, SlotOf, Now
  <2>4. InDiscovery(n)' /\ InNext(n)' /\ InFirst(n)' /\ InSecond(n)'
    BY <1>3 DEF InDiscovery, InNext, InFirst, InSecond
  <2>5. OnAir(n)' /\ Hears(n)'
    BY <1>2, <1>3, <2>1 DEF OnAir, Hears
  <2> QED
    BY <1>2, <1>3, <2>1, <2>3, <2>4, <2>5 DEF OrderInv
<1> QED
  BY <1>1, <1>4, <1>5, RxOthers

LEMMA RxIgnoredKeeps ==
    ASSUME OrderlyNetwork, IInv, NetInv, NEW n \in Anchors, RxIgnored(n)
    PROVE  NetInv'
BY RxClock DEF RxIgnored

\* The steps before the correction reaches the register, the record and the
\* last step.
LEMMA RxQuietKeeps ==
    ASSUME OrderlyNetwork, IInv, NetInv, NEW n \in Anchors,
           RxSync(n) \/ RxCapture(n) \/ RxRecord(n) \/ RxStamp(n)
    PROVE  NetInv'
<1>1. rxPc[n] # "idle" /\ rxPc[n] # "adopt"
  BY DEF RxSync, RxCapture, RxRecord, RxStamp
<1>2. /\ OrderInv(n) /\ n \in on /\ Receives(n) /\ (\A m \in Anchors : air[m] = {}) /\ rxMsg[n].src \in Anchors \ {n}
      /\ counter[n] \in Nat /\ state[n] # "WAITING_SECOND" /\ state[0] # "DISCOVERY"
  BY <1>1, RxTime, RxClock DEF NetInv
<1>3. /\ UNCHANGED <<on, counter, cc0, cc1, compensation, due, state, superframe_id, air>>
      /\ \A m \in Anchors \ {n} : rxOn'[m] = rxOn[m] /\ rxPc'[m] = rxPc[m] /\ rxMsg'[m] = rxMsg[m]
                                  /\ rxCap'[m] = rxCap[m] /\ rxJoin'[m] = rxJoin[m]
      /\ rxJoin'[n] = IF RxStamp(n) THEN FALSE ELSE rxJoin[n]
  BY DEF RxSync, RxCapture, RxRecord, RxStamp, RxGoto, RxDone, IInv, TypeOK
<1>4. RxKeeps(n)
  BY <1>3 DEF RxKeeps, Kept, Untouched
<1>5. \/ /\ rxPc[n] = "event" /\ state[n] = "WAITING_FIRST" /\ rxPc'[n] = "capture" /\ ~RxStamp(n)
         /\ rxMsg'[n] = rxMsg[n] /\ rxCap'[n] = rxCap[n]
      \/ /\ rxPc[n] = "capture" /\ rxPc'[n] = "compensate" /\ rxMsg'[n] = rxMsg[n] /\ rxCap'[n] = counter[n]
         /\ ~RxStamp(n)
      \/ /\ rxPc[n] = "record" \/ (rxPc[n] = "event" /\ state[n] = "WAITING_NEXT_SF")
         /\ rxPc'[n] = "stamp" /\ rxMsg'[n] = rxMsg[n] /\ ~RxStamp(n)
      \/ rxPc[n] = "stamp" /\ rxPc'[n] = "idle" /\ rxOn'[n]
  BY DEF RxSync, RxCapture, RxRecord, RxStamp, RxGoto, RxDone, IInv, TypeOK
<1>6. ~rxJoin[n] <=> ~rxJoin'[n]
  BY <1>3 DEF RxStamp, IInv, AnchorInv, Joining
<1>7. /\ View(n)' = View(n) /\ Now' = Now /\ Stage(n)' = Stage(n) /\ Stage(0)' = Stage(0)
  BY <1>3 DEF View, Now, Stage
<1>8. /\ InStep(n)' <=> InStep(n)
      /\ SameStage(n)' <=> SameStage(n)
      /\ Level(n)' <=> Level(n)
      /\ Leads(n)' <=> Leads(n)
  BY <1>7 DEF InStep, SameStage, Level, Leads, Lags
<1>9. state[n] # "DISCOVERY"
  BY <1>5 DEF IInv, AnchorInv, DiscoveryClock
<1>10. InFirst(n)'
  <2> SUFFICES ASSUME state[n] = "WAITING_FIRST" PROVE InFirst(n)'
    BY <1>3 DEF InFirst
  <2>1. PICK s \in Anchors \ {n} : s = rxMsg[n].src
    BY <1>2
  <2>2. Steady(n) \/ Half(n, s)
    BY <2>1, <1>1, RxClock
  <2>3. Steady(n) => Steady(n)'
    BY <1>3 DEF Steady
  <2>4. Half(n, s) => Half(n, s)'
    <3>1. Middle(s)' <=> Middle(s)
      BY <1>3 DEF Middle
    <3> QED
      BY <1>3, <1>5, <1>7, <3>1 DEF Half
  <2> QED
    BY <1>2, <1>3, <1>8, <2>2, <2>3, <2>4 DEF OrderInv, InFirst
<1>11. InNext(n)'
  <2>1. state[n] = "WAITING_NEXT_SF" => InStep(n) \/ (rxJoin[n] /\ rxPc[n] = "capture")
    BY <1>2, <1>5 DEF OrderInv, InNext, IInv, AnchorInv, Joining
  <2> QED
    BY <1>3, <1>5, <1>6, <1>8, <2>1 DEF InNext
<1>12. Receives(n)'
  BY <1>1, <1>2, <1>3, <1>5, <1>6, <1>7 DEF Receives, IInv, AnchorInv, Joining
<1>13. InDiscovery(n)' /\ InSecond(n)' /\ OnAir(n)' /\ Hears(n)'
  BY <1>2, <1>3, <1>5, <1>9 DEF InDiscovery, InSecond, OnAir, Hears
<1>14. OrderInv(n)'
  BY <1>2, <1>3, <1>6, <1>8, <1>9, <1>10, <1>11, <1>12, <1>13 DEF OrderInv
<1> QED
  BY <1>1, <1>4, <1>14, RxOthers

LEMMA SfTimeOrderly ==
    ASSUME OrderlyNetwork, IInv, NEW n \in Anchors
    PROVE  SfTime(n) = SecondSlot(rxMsg[n].src) + PREFIX
<1>1. rxMsg[n].src \in Anchors
  BY DEF IInv, TypeOK, Msg
<1>2. PICK s \in Anchors : s = rxMsg[n].src
  BY <1>1
<1>3. SfTime(n) = SecondSlot(s) + PREFIX + 0
  BY <1>2 DEF SfTime, OrderlyNetwork
<1> QED
  BY <1>2, <1>3, Slots

LEMMA RxCompensateKeeps ==
    ASSUME OrderlyNetwork, IInv, NetInv, NEW n \in Anchors, RxCompensate(n)
    PROVE  NetInv'
<1>1. rxPc[n] = "compensate"
  BY DEF RxCompensate
<1>2. PICK s \in Anchors \ {n} : s = rxMsg[n].src
  BY <1>1, RxTime
<1>3. PICK p \in 0..1 : p = rxMsg[n].parity
  BY <1>1, RxTime
<1>4. /\ OrderInv(n) /\ n \in on /\ Receives(n) /\ (\A m \in Anchors : air[m] = {})
      /\ counter[n] \in Nat /\ state[n] \notin {"WAITING_SECOND", "DISCOVERY"} /\ state[0] # "DISCOVERY"
      /\ Now \in Nat /\ FirstSlot(s) + PREFIX <= Now /\ Now <= SecondSlot(s) + PREFIX
  BY <1>1, <1>2, RxTime, RxClock DEF NetInv
<1>5. rxCap[n] = counter[n]
  BY <1>1, <1>4 DEF Receives
<1>6. /\ compensation' = [compensation EXCEPT ![n] = SecondSlot(s) + PREFIX - counter[n]]
      /\ rxPc' = [rxPc EXCEPT ![n] = "program"]
      /\ UNCHANGED <<on, counter, cc0, cc1, due, state, superframe_id, air, rxOn, rxMsg, rxCap, rxJoin>>
  <2>1. SfTime(n) = SecondSlot(s) + PREFIX
    BY <1>2, SfTimeOrderly
  <2>2. compensation' = [compensation EXCEPT ![n] = SfTime(n) - rxCap[n]]
    BY DEF RxCompensate
  <2>3. /\ rxPc' = [rxPc EXCEPT ![n] = "program"]
        /\ UNCHANGED <<on, counter, cc0, cc1, due, state, superframe_id, air, rxOn, rxMsg, rxCap, rxJoin>>
    BY DEF RxCompensate, RxGoto
  <2>4. compensation' = [compensation EXCEPT ![n] = SecondSlot(s) + PREFIX - counter[n]]
    <3>1. SfTime(n) - rxCap[n] = SecondSlot(s) + PREFIX - counter[n]
      BY <1>2, <1>4, <1>5, <2>1, Slots
    <3> QED
      BY <2>2, <3>1, Zenon
  <2> QED
    BY <2>3, <2>4
<1>7. rxPc'[n] = "program" /\ compensation'[n] = SecondSlot(s) + PREFIX - counter[n]
  BY <1>4, <1>6, Slots DEF IInv, TypeOK
<1>8. RxKeeps(n)
  BY <1>6 DEF RxKeeps, Kept, Untouched, IInv, TypeOK
<1>9. /\ View(n)' = View(n) /\ Now' = Now /\ Stage(n)' = Stage(n) /\ Stage(0)' = Stage(0)
  BY <1>6 DEF View, Now, Stage
<1>10. /\ InStep(n)' <=> InStep(n)
       /\ SameStage(n)' <=> SameStage(n)
       /\ Level(n)' <=> Level(n)
       /\ Leads(n)' <=> Leads(n)
  BY <1>9 DEF InStep, SameStage, Level, Leads, Lags
<1>11. InFirst(n)'
  <2> SUFFICES ASSUME state[n] = "WAITING_FIRST" PROVE InFirst(n)'
    BY <1>6 DEF InFirst
  <2>1. counter[n] = Now /\ (Steady(n) \/ Half(n, s))
    BY <1>1, <1>2, RxClock
  <2>2. CASE p = 0
    <3>1. Now = FirstSlot(s) + PREFIX /\ s \in on /\ state[s] = "WAITING_SECOND"
      BY <1>1, <1>2, <1>3, <1>4, <2>2 DEF Receives, SlotOf
    <3>2. Middle(s)'
      BY <1>4, <1>6, <3>1 DEF Middle
    <3>3. compensation'[n] = SLOT
      BY <1>7, <2>1, <3>1, <1>2, Slots
    <3>4. cc1'[n] \in {SF, SF - SLOT}
      BY <1>6, <2>1 DEF Steady, Half
    <3>5. Half(n, s)'
      BY <1>4, <1>9, <3>2, <3>3, <3>4 DEF Half
    <3> QED
      BY <1>4, <1>6, <1>10, <3>5 DEF OrderInv, InFirst
  <2>3. CASE p = 1
    <3>1. Now = SecondSlot(s) + PREFIX
      BY <1>1, <1>2, <1>3, <1>4, <2>3 DEF Receives, SlotOf
    <3>2. compensation'[n] = 0
      BY <1>7, <2>1, <3>1, <1>2, Slots
    <3>3. Steady(n) => Steady(n)'
      BY <1>6, <3>2 DEF Steady
    <3>4. Half(n, s) => Half(n, s)'
      <4>1. Middle(s)' <=> Middle(s)
        BY <1>6 DEF Middle
      <4>2. Half(n, s) => cc1'[n] \in {SF, SF - SLOT}
        BY <1>6 DEF Half
      <4> QED
        BY <1>2, <1>3, <1>4, <1>6, <1>7, <1>9, <2>3, <3>2, <4>2 DEF Half
    <3> QED
      BY <1>4, <1>6, <1>10, <2>1, <3>3, <3>4 DEF OrderInv, InFirst
  <2> QED
    BY <2>2, <2>3
<1>12. InNext(n)'
  BY <1>1, <1>4, <1>6, <1>7, <1>10 DEF OrderInv, InNext
<1>13. Receives(n)'
  BY <1>1, <1>2, <1>4, <1>6, <1>7, <1>9 DEF Receives, SlotOf
<1>14. InDiscovery(n)' /\ InSecond(n)' /\ OnAir(n)' /\ Hears(n)'
  BY <1>4, <1>6, <1>7 DEF InDiscovery, InSecond, OnAir, Hears
<1>15. OrderInv(n)'
  BY <1>4, <1>6, <1>10, <1>11, <1>12, <1>13, <1>14 DEF OrderInv
<1> QED
  BY <1>1, <1>8, <1>15, RxOthers

\* The new register of a joining anchor is the one that ends its superframe
\* with anchor 0's.
LEMMA RxProgramKeeps ==
    ASSUME OrderlyNetwork, IInv, NetInv, NEW n \in Anchors, RxProgram(n)
    PROVE  NetInv' /\ (rxJoin[n] => SF - (cc1'[n] - counter'[n]) = Now)
<1>1. rxPc[n] = "program"
  BY DEF RxProgram
<1>2. PICK s \in Anchors \ {n} : s = rxMsg[n].src
  BY <1>1, RxTime
<1>3. PICK p \in 0..1 : p = rxMsg[n].parity
  BY <1>1, RxTime
<1>4. /\ OrderInv(n) /\ n \in on /\ Receives(n) /\ (\A m \in Anchors : air[m] = {})
      /\ counter[n] \in Nat /\ state[n] \notin {"WAITING_SECOND", "DISCOVERY"} /\ state[0] # "DISCOVERY"
      /\ Now \in Nat /\ FirstSlot(s) + PREFIX <= Now /\ Now <= SecondSlot(s) + PREFIX
      /\ 0 < Now /\ Now < SF
  BY <1>1, <1>2, RxTime, RxClock DEF NetInv
<1>5. compensation[n] = SecondSlot(s) + PREFIX - counter[n] /\ compensation[n] \in Int
  BY <1>1, <1>2, <1>4, RxClock DEF Receives
<1>6. /\ cc1' = [cc1 EXCEPT ![n] = SF - compensation[n]]
      /\ rxPc' = [rxPc EXCEPT ![n] = IF rxJoin[n] THEN "adopt" ELSE "record"]
      /\ UNCHANGED <<on, counter, cc0, compensation, due, state, superframe_id, air, rxOn, rxMsg, rxCap, rxJoin>>
  BY DEF RxProgram, RxGoto
<1>7. cc1'[n] = SF - compensation[n] /\ rxPc'[n] = (IF rxJoin[n] THEN "adopt" ELSE "record")
  BY <1>6 DEF IInv, TypeOK
<1>8. \/ rxJoin[n] /\ cc1[n] = SF /\ counter[n] <= SLOT + PREFIX /\ state[n] = "WAITING_NEXT_SF" /\ p = 1
      \/ ~rxJoin[n] /\ state[n] = "WAITING_FIRST"
  BY <1>1, <1>3, <1>4 DEF Receives
<1>9. rxJoin[n] => Now = SecondSlot(s) + PREFIX
  BY <1>1, <1>2, <1>3, <1>4, <1>8 DEF Receives, SlotOf
<1>10. rxJoin[n] => SF - (cc1'[n] - counter'[n]) = Now
  BY <1>2, <1>4, <1>5, <1>6, <1>7, <1>9, Slots
<1>11. "sf" \notin due[n]
  BY <1>1, <1>4, <1>8, Slots, RxClock DEF OrderInv
<1>12. n = 0 => FALSE
  BY <1>1, <1>8, RxClock DEF NetInv, ZeroInv
<1>13. RxKeeps(n)
  BY <1>6, <1>12 DEF RxKeeps, Kept, Untouched, IInv, TypeOK
<1>14. Now' = Now /\ Stage(n)' = Stage(n) /\ Stage(0)' = Stage(0)
  BY <1>6 DEF Now, Stage
<1>15. CASE rxJoin[n]
  <2>1. Level(n)'
    BY <1>6, <1>8, <1>10, <1>14, <1>15 DEF Level, View
  <2>2. InDiscovery(n)' /\ InNext(n)' /\ InFirst(n)' /\ InSecond(n)' /\ OnAir(n)' /\ Hears(n)'
    BY <1>4, <1>6, <1>7, <1>8, <1>15, <2>1 DEF InDiscovery, InNext, InFirst, InSecond, OnAir, Hears, InStep
  <2>3. Receives(n)'
    BY <1>1, <1>2, <1>4, <1>6, <1>7, <1>14, <1>15 DEF Receives, SlotOf
  <2>4. OrderInv(n)'
    BY <1>6, <1>11, <1>15, <2>2, <2>3, <1>4 DEF OrderInv
  <2> QED
    BY <1>1, <1>10, <1>13, <2>4, RxOthers
<1>16. CASE ~rxJoin[n]
  <2>1. state[n] = "WAITING_FIRST" /\ rxPc'[n] = "record"
    BY <1>7, <1>8, <1>16
  <2>2. counter[n] = Now /\ (Steady(n) \/ Half(n, s))
    BY <1>1, <1>2, <2>1, RxClock
  <2>3. View(n)' = View(n)
    BY <1>6, <2>1 DEF View
  <2>4. /\ Level(n)' <=> Level(n)
        /\ Leads(n)' <=> Leads(n)
        /\ SameStage(n)' <=> SameStage(n)
    BY <1>14, <2>3 DEF SameStage, Level, Leads, Lags
  <2>5. InFirst(n)'
    <3>1. CASE p = 0
      <4>1. Now = FirstSlot(s) + PREFIX /\ s \in on /\ state[s] = "WAITING_SECOND"
        BY <1>1, <1>2, <1>3, <1>4, <3>1 DEF Receives, SlotOf
      <4>2. Middle(s)'
        BY <1>4, <1>6, <4>1 DEF Middle
      <4>3. compensation'[n] = SLOT /\ cc1'[n] = SF - SLOT
        BY <1>5, <1>6, <1>7, <2>2, <4>1, <1>2, Slots
      <4>4. Half(n, s)'
        BY <1>4, <1>14, <4>2, <4>3 DEF Half
      <4> QED
        BY <1>4, <1>6, <2>1, <2>4, <4>4 DEF OrderInv, InFirst
    <3>2. CASE p = 1
      <4>1. Now = SecondSlot(s) + PREFIX
        BY <1>1, <1>2, <1>3, <1>4, <3>2 DEF Receives, SlotOf
      <4>2. compensation'[n] = 0 /\ cc1'[n] = SF
        BY <1>5, <1>6, <1>7, <2>2, <4>1, <1>2, Slots
      <4>3. Steady(n)'
        BY <4>2 DEF Steady
      <4> QED
        BY <1>4, <1>6, <2>1, <2>4, <4>3 DEF OrderInv, InFirst
    <3> QED
      BY <3>1, <3>2
  <2>6. Receives(n)'
    BY <1>1, <1>2, <1>4, <1>6, <2>1, <1>14, <1>16 DEF Receives, SlotOf
  <2>7. InDiscovery(n)' /\ InNext(n)' /\ InSecond(n)' /\ OnAir(n)' /\ Hears(n)'
    BY <1>4, <1>6, <2>1 DEF InDiscovery, InNext, InSecond, OnAir, Hears
  <2>8. OrderInv(n)'
    BY <1>4, <1>6, <1>11, <2>1, <2>4, <2>5, <2>6, <2>7 DEF OrderInv
  <2> QED
    BY <1>1, <1>13, <1>16, <2>8, RxOthers
<1> QED
  BY <1>15, <1>16

LEMMA RxAdoptKeeps ==
    ASSUME OrderlyNetwork, IInv, NetInv, NEW n \in Anchors, RxAdopt(n)
    PROVE  NetInv'
<1>1. rxPc[n] = "adopt" /\ rxJoin[n]
  BY DEF RxAdopt, IInv, AnchorInv, Joining
<1>2. /\ OrderInv(n) /\ n \in on /\ Receives(n) /\ (\A m \in Anchors : air[m] = {})
      /\ state[0] # "DISCOVERY" /\ Now \in Nat /\ 0 < Now /\ Now < SF
  BY <1>1, RxTime DEF NetInv
<1>3. state[n] = "WAITING_NEXT_SF" /\ rxMsg[n].tr_id = superframe_id[0] /\ n # 0
  BY <1>1, <1>2 DEF Receives, NetInv, ZeroInv
<1>4. Level(n)
  BY <1>1, <1>2, <1>3 DEF OrderInv, InNext, InStep, Leads, Lags
<1>5. /\ superframe_id' = [superframe_id EXCEPT ![n] = rxMsg[n].tr_id]
      /\ UNCHANGED <<on, counter, cc0, cc1, compensation, due, state, air>>
      /\ rxPc'[n] = "idle" /\ ~rxJoin'[n] /\ rxOn'[n]
      /\ \A m \in Anchors \ {n} : rxOn'[m] = rxOn[m] /\ rxPc'[m] = rxPc[m] /\ rxMsg'[m] = rxMsg[m]
                                  /\ rxCap'[m] = rxCap[m] /\ rxJoin'[m] = rxJoin[m]
  BY DEF RxAdopt, RxDone, IInv, TypeOK
<1>6. superframe_id'[n] = superframe_id[0] /\ superframe_id'[0] = superframe_id[0]
  BY <1>3, <1>5 DEF IInv, TypeOK
<1>7. RxKeeps(n)
  BY <1>1, <1>3, <1>5 DEF RxKeeps, Kept, Untouched, IInv, TypeOK
<1>8. Now' = Now /\ View(n)' = View(n)
  BY <1>5 DEF Now, View
<1>9. Level(n)' /\ ~Leads(n)' /\ ~Lags(n)'
  BY <1>2, <1>4, <1>8 DEF Level, Leads, Lags
<1>10. Stage(n)' = Stage(0)'
  BY <1>2, <1>3, <1>5, <1>6 DEF Stage
<1>11. SameStage(n)'
  BY <1>9, <1>10 DEF SameStage
<1>12. InDiscovery(n)' /\ InNext(n)' /\ InFirst(n)' /\ InSecond(n)' /\ OnAir(n)' /\ Hears(n)' /\ Receives(n)'
  BY <1>2, <1>3, <1>5, <1>9 DEF InDiscovery, InNext, InFirst, InSecond, OnAir, Hears, InStep, Receives
<1>13. OrderInv(n)'
  BY <1>2, <1>5, <1>11, <1>12 DEF OrderInv
<1> QED
  BY <1>1, <1>7, <1>13, RxOthers

-----------------------------------------------------------------------------
(* The frame timer's interrupt.                                            *)

\* Anchor 0's clock.
LEMMA ZeroClock ==
    ASSUME IInv, NetInv
    PROVE  /\ 0 \in Anchors /\ 0 \in on /\ Now \in Nat /\ Now <= SF /\ cc1[0] = SF
           /\ state[0] \in {"DISCOVERY", "WAITING_NEXT_SF", "WAITING_SECOND"}
           /\ "sf" \in due[0] <=> Now = SF
           /\ Level(0) /\ Stage(0) = Stage(0)
           /\ Now \in {0, SF} => /\ \A m \in Anchors : rxPc[m] = "idle" /\ ~rxJoin[m]
                                 /\ \A m \in Anchors \ {0} : air[m] = {}
                                 /\ \A m, s \in Anchors : ~Half(m, s)
           /\ Now = SF => /\ air[0] = {}
                          /\ \A m, s \in Anchors : ~Joins(m, s)
<1>1. 0 \in Anchors /\ 0 \in on /\ cc1[0] = SF /\ AnchorInv(0) /\ OrderInv(0) /\ SF \in Nat
  <2>1. 0 \in Anchors
    BY SizesAssumption DEF Anchors
  <2> QED
    BY <2>1, Slots DEF NetInv, ZeroInv, IInv
<1>2. Now \in Nat /\ Now <= SF /\ ("sf" \in due[0] <=> Now = SF)
  <2>1. counter[0] \in Nat
    BY <1>1 DEF IInv, TypeOK
  <2> QED
    BY <1>1, <2>1 DEF AnchorInv, ClockArmed, OrderInv, Now
<1>3. state[0] \in {"DISCOVERY", "WAITING_NEXT_SF", "WAITING_SECOND"}
  BY <1>1 DEF AnchorInv, SlotClock, IInv, TypeOK, States
<1>4. Level(0)
  BY <1>1, <1>2, <1>3 DEF Level, View, Now
<1>5. ASSUME Now \in {0, SF}, NEW m \in Anchors PROVE rxPc[m] = "idle" /\ ~rxJoin[m]
  BY <1>1, <1>2, <1>5, RxTime DEF IInv, AnchorInv, Joining
<1>6. ASSUME Now \in {0, SF}, NEW m \in Anchors, NEW f \in air[m] PROVE m = 0 /\ Now = 0
  <2>1. FirstSlot(m) <= Now /\ Now <= SecondSlot(m) + PREFIX
    BY <1>6, AirTime
  <2> QED
    BY <1>2, <1>6, <2>1, Slots
<1>7. ASSUME Now \in {0, SF}, NEW m \in Anchors, NEW s \in Anchors PROVE ~Half(m, s)
  BY <1>2, <1>7, Slots DEF Half
<1>8. ASSUME Now = SF, NEW m \in Anchors, NEW s \in Anchors PROVE ~Joins(m, s)
  BY <1>2, <1>8, Slots DEF Joins
<1>9. Now \in {0, SF} => \A m \in Anchors \ {0} : air[m] = {}
  BY <1>6
<1>10. Now = SF => air[0] = {}
  BY <1>1, <1>2, <1>6, Slots
<1> QED
  BY <1>1, <1>2, <1>3, <1>4, <1>5, <1>7, <1>8, <1>9, <1>10

\* The one frame a transmission puts on the air.
LEMMA Sends ==
    ASSUME IInv, NEW n \in Anchors, NEW parity \in 0..1, NEW id, TransmitAnchorMsg(n, parity, id)
    PROVE  /\ \A m \in Anchors \ {n} : air'[m] = air[m] /\ rxOn'[m] = rxOn[m]
           /\ air'[n] # {} \/ parity \in Unreliable
           /\ \A f \in air'[n] : /\ f.left = PREFIX /\ f.parity = parity /\ f.tr_id = id
                                 /\ f.anchors = infos[n]
                                 /\ \A g \in air'[n] : g = f
<1>1. PICK f : f = [left |-> PREFIX, tr_id |-> id, parity |-> parity, anchors |-> infos[n]]
  OBVIOUS
<1>2. f.left = PREFIX /\ f.parity = parity /\ f.tr_id = id /\ f.anchors = infos[n]
  BY <1>1
<1>3. /\ air' = [air EXCEPT ![n] = {f}] \/ (parity \in Unreliable /\ air' = [air EXCEPT ![n] = {}])
      /\ rxOn' = [rxOn EXCEPT ![n] = FALSE]
  BY <1>1 DEF TransmitAnchorMsg
<1>4. air'[n] = {f} \/ (parity \in Unreliable /\ air'[n] = {})
  BY <1>3 DEF IInv, TypeOK
<1>5. \A m \in Anchors \ {n} : air'[m] = air[m] /\ rxOn'[m] = rxOn[m]
  BY <1>3 DEF IInv, TypeOK
<1> QED
  BY <1>2, <1>4, <1>5

\* Neither messages nor boots are going on when an anchor's first slot begins.
LEMMA TimerFirstKeeps ==
    ASSUME OrderlyNetwork, IInv, NetInv, NEW n \in Anchors, TimerFirst(n)
    PROVE  NetInv' /\ n # 0 /\ Now = FirstSlot(n) /\ (\A m \in Anchors : air[m] = {})
           /\ counter'[0] = counter[0]
<1>1. /\ state[n] = "WAITING_FIRST" /\ "timer" \in due[n] /\ n \in on /\ n # 0 /\ counter[n] = FirstSlot(n)
      /\ counter[n] \in Nat /\ OrderInv(n)
  BY DEF TimerFirst, IInv, TypeOK, AnchorInv, OffIdle, SlotClock, NetInv
<1>2. Now = FirstSlot(n) /\ state[0] # "DISCOVERY" /\ Level(n)
      /\ (Steady(n) \/ \E s \in Anchors \ {n} : Half(n, s))
  BY <1>1, Slots DEF OrderInv, InFirst, Level, Leads, View
<1>3. /\ \A m \in Anchors : rxPc[m] = "idle"
      /\ \A m \in Anchors \ {n} : air[m] = {}
      /\ \A m, s \in Anchors : ~Half(m, s)
      /\ \A m, s \in Anchors : Joins(m, s) => s = n
      /\ \A f \in air[n] : f.parity = 0
  BY <1>2, SlotBegins, 0 \in 0..1 DEF SlotOf
<1>4. air[n] = {}
  BY <1>1, <1>3 DEF OrderInv, OnAir
<1>5. ~Middle(n) /\ Steady(n)
  BY <1>1, <1>2, <1>3, <1>4 DEF Middle
<1>6. /\ UNCHANGED <<on, counter, cc1, compensation, superframe_id, rxPc, rxMsg, rxCap, rxJoin>>
      /\ state' = [state EXCEPT ![n] = "WAITING_SECOND"] /\ state'[n] = "WAITING_SECOND"
      /\ \A m \in Anchors \ {n} : air'[m] = air[m] /\ rxOn'[m] = rxOn[m]
      /\ \A f \in air'[n] : f.left = PREFIX /\ f.parity = 0 /\ f.tr_id = superframe_id[n] /\ \A g \in air'[n] : g = f
  <2>1. \A m \in Anchors \ {n} : air'[m] = air[m] /\ rxOn'[m] = rxOn[m]
    BY Sends, 0 \in 0..1 DEF TimerFirst
  <2>2. \A f \in air'[n] : f.left = PREFIX /\ f.parity = 0 /\ f.tr_id = superframe_id[n] /\ \A g \in air'[n] : g = f
    BY Sends, 0 \in 0..1 DEF TimerFirst
  <2> QED
    BY <2>1, <2>2 DEF TimerFirst, IInv, TypeOK
<1>7. cc0'[n] = SecondSlot(n) /\ due'[n] = due[n] \ {"timer"}
      /\ \A m \in Anchors \ {n} : cc0'[m] = cc0[m] /\ due'[m] = due[m]
  <2>1. PICK rest : rest = due[n] \ {"timer"}
    OBVIOUS
  <2>2. SetFrameTimer(n, SecondSlot(n), 0, counter[n], rest)
    BY <1>5, <2>1 DEF TimerFirst, Steady
  <2>3. /\ cc0'[n] = Wrap(SecondSlot(n) - 0)
        /\ \A m \in Anchors \ {n} : cc0'[m] = cc0[m] /\ due'[m] = due[m]
        /\ due'[n] = rest \/ (due'[n] = rest \cup {"timer"} /\ cc0'[n] = counter[n])
    <3>1. SecondSlot(n) \in 0..SF /\ 0 \in -SF..SF
      BY Slots
    <3> QED
      BY <2>2, <3>1, SetFrameTimerEffect
  <2>4. Wrap(SecondSlot(n) - 0) = SecondSlot(n) /\ SecondSlot(n) # counter[n]
    BY <1>1, Slots DEF Wrap
  <2> QED
    BY <2>1, <2>3, <2>4
<1>8. 0 \in Anchors \ {n} /\ state'[0] = state[0] /\ Now' = Now /\ ZeroKept
  BY <1>1, <1>6, Slots DEF ZeroKept, Now
<1>9. ASSUME NEW m \in Anchors \ {n} PROVE OrderInv(m)'
  <2>1. Kept(m)
    BY <1>6, <1>7 DEF Kept, Untouched
  <2>2. \A s \in Anchors : Middle(s) => Middle(s)'
    BY <1>5, <1>6 DEF Middle
  <2> QED
    BY <1>3, <1>8, <2>1, <2>2, Others DEF NetInv
<1>10. OrderInv(n)'
  <2>1. View(n)' = Now' /\ cc1'[n] = SF
    BY <1>1, <1>2, <1>5, <1>6, <1>8, Slots DEF View, Steady
  <2>2. Stage(n)' = Stage(0)'
    <3>1. ~rxJoin[n]
      BY <1>3 DEF IInv, AnchorInv, Joining
    <3>2. Stage(n) = Stage(0)
      BY <1>1, <1>2, <3>1 DEF OrderInv, SameStage
    <3> QED
      BY <1>1, <1>6, <1>8, <3>2 DEF Stage
  <2>3. SameStage(n)'
    BY <1>1, <1>2, <1>8, <2>1, <2>2, Slots DEF SameStage, Leads, Lags
  <2>4. InSecond(n)'
    BY <1>1, <1>2, <1>3, <1>6, <1>7, <1>8, <2>1, Slots DEF InSecond
  <2>5. InDiscovery(n)' /\ InNext(n)' /\ InFirst(n)' /\ Receives(n)' /\ Hears(n)'
    BY <1>3, <1>6 DEF InDiscovery, InNext, InFirst, Receives, Hears
  <2>6. superframe_id[n] = superframe_id[0]
    BY <1>6, <2>2 DEF Stage
  <2>7. OnAir(n)'
    <3> SUFFICES ASSUME NEW f \in air'[n]
                 PROVE  /\ n \in on' /\ state'[0] # "DISCOVERY"
                        /\ Now' = SlotOf(n, f.parity) + PREFIX - f.left
                        /\ f.tr_id = superframe_id'[0]
                        /\ state'[n] = IF f.parity = 0 THEN "WAITING_SECOND" ELSE "WAITING_NEXT_SF"
                        /\ \A g \in air'[n] : g = f
      BY DEF OnAir
    <3>1. f.left = PREFIX /\ f.parity = 0 /\ f.tr_id = superframe_id[n] /\ \A g \in air'[n] : g = f
      BY <1>6
    <3> QED
      BY <1>1, <1>2, <1>6, <1>8, <2>6, <3>1, Slots DEF SlotOf
  <2> QED
    BY <1>1, <1>6, <1>7, <2>3, <2>4, <2>5, <2>7 DEF OrderInv
<1>11. ZeroInv'
  BY <1>6 DEF NetInv, ZeroInv
<1> QED
  BY <1>1, <1>2, <1>3, <1>4, <1>6, <1>9, <1>10, <1>11 DEF NetInv

LEMMA TimerSecondKeeps ==
    ASSUME OrderlyNetwork, IInv, NetInv, NEW n \in Anchors, TimerSecond(n)
    PROVE  NetInv' /\ Now = SecondSlot(n) /\ (\A m \in Anchors : air[m] = {})
           /\ counter'[0] = counter[0] /\ air'[n] # {}
<1>1. /\ state[n] = "WAITING_SECOND" /\ "timer" \in due[n] /\ n \in on /\ cc0[n] = counter[n]
      /\ counter[n] \in Nat /\ OrderInv(n)
  BY DEF TimerSecond, IInv, TypeOK, AnchorInv, OffIdle, SlotClock, NetInv
<1>2. /\ Now = SecondSlot(n) /\ counter[n] = Now /\ state[0] # "DISCOVERY" /\ cc1[n] = SF
      /\ rxPc[n] = "idle" /\ ~rxJoin[n]
  BY <1>1 DEF OrderInv, InSecond, IInv, AnchorInv, Joining
<1>3. /\ \A m \in Anchors : rxPc[m] = "idle"
      /\ \A m \in Anchors \ {n} : air[m] = {}
      /\ \A f \in air[n] : f.parity = 1
  BY <1>2, SlotBegins, 1 \in 0..1 DEF SlotOf
<1>4. air[n] = {}
  BY <1>1, <1>3 DEF OrderInv, OnAir
<1>5. /\ UNCHANGED <<on, counter, cc0, cc1, compensation, superframe_id, rxPc, rxMsg, rxCap, rxJoin>>
      /\ state' = [state EXCEPT ![n] = "WAITING_NEXT_SF"] /\ state'[n] = "WAITING_NEXT_SF"
      /\ due' = [due EXCEPT ![n] = @ \ {"timer"}]
      /\ \A m \in Anchors \ {n} : air'[m] = air[m] /\ rxOn'[m] = rxOn[m]
      /\ air'[n] # {}
      /\ \A f \in air'[n] : f.left = PREFIX /\ f.parity = 1 /\ f.tr_id = superframe_id[n] /\ \A g \in air'[n] : g = f
  <2>1. \A m \in Anchors \ {n} : air'[m] = air[m] /\ rxOn'[m] = rxOn[m]
    BY Sends, 1 \in 0..1 DEF TimerSecond
  <2>2. \A f \in air'[n] : f.left = PREFIX /\ f.parity = 1 /\ f.tr_id = superframe_id[n] /\ \A g \in air'[n] : g = f
    BY Sends, 1 \in 0..1 DEF TimerSecond
  <2>3. air'[n] # {}
    BY Sends, 1 \in 0..1 DEF TimerSecond, OrderlyNetwork
  <2> QED
    BY <2>1, <2>2, <2>3 DEF TimerSecond, IInv, TypeOK
<1>6. due'[n] = due[n] \ {"timer"} /\ \A m \in Anchors \ {n} : due'[m] = due[m]
  BY <1>5 DEF IInv, TypeOK
<1>7. Now' = Now /\ ZeroKept /\ Stage(0)' = Stage(0) /\ Stage(n)' = Stage(n) /\ superframe_id'[0] = superframe_id[0]
      /\ state'[0] # "DISCOVERY"
  BY <1>1, <1>2, <1>5 DEF ZeroKept, Now, Stage, IInv, TypeOK
<1>8. ASSUME NEW m \in Anchors \ {n} PROVE OrderInv(m)'
  <2>1. Kept(m)
    BY <1>5, <1>6 DEF Kept, Untouched, IInv, TypeOK
  <2>2. \A s \in Anchors : Middle(s) => Middle(s)'
    BY <1>5 DEF Middle, IInv, TypeOK
  <2> QED
    BY <1>3, <1>7, <2>1, <2>2, Others DEF NetInv
<1>9. OrderInv(n)'
  <2>1. View(n) = Now /\ View(n)' = Now'
    BY <1>1, <1>2, <1>5, <1>7, Slots DEF View
  <2>2. Stage(n) = Stage(0) /\ superframe_id[n] = superframe_id[0]
    BY <1>1, <1>2, <2>1 DEF OrderInv, SameStage, Level, Stage
  <2>3. SameStage(n)' /\ InStep(n)'
    BY <1>1, <1>2, <1>7, <2>1, <2>2, Slots DEF SameStage, InStep, Level, Leads, Lags
  <2>4. InDiscovery(n)' /\ InNext(n)' /\ InFirst(n)' /\ InSecond(n)' /\ Receives(n)' /\ Hears(n)'
    BY <1>3, <1>5, <2>3 DEF InDiscovery, InNext, InFirst, InSecond, Receives, Hears
  <2>5. OnAir(n)'
    <3> SUFFICES ASSUME NEW f \in air'[n]
                 PROVE  /\ n \in on' /\ state'[0] # "DISCOVERY"
                        /\ Now' = SlotOf(n, f.parity) + PREFIX - f.left
                        /\ f.tr_id = superframe_id'[0]
                        /\ state'[n] = IF f.parity = 0 THEN "WAITING_SECOND" ELSE "WAITING_NEXT_SF"
                        /\ \A g \in air'[n] : g = f
      BY DEF OnAir
    <3> QED
      BY <1>1, <1>2, <1>5, <1>7, <2>2, Slots DEF SlotOf
  <2> QED
    BY <1>1, <1>5, <1>6, <2>3, <2>4, <2>5 DEF OrderInv
<1>10. ZeroInv'
  BY <1>5 DEF NetInv, ZeroInv
<1> QED
  BY <1>2, <1>3, <1>4, <1>5, <1>8, <1>9, <1>10 DEF NetInv

\* A superframe ends for an anchor when anchor 0's does, before or after it.
LEMMA EndsTogether ==
    ASSUME IInv, NetInv, NEW n \in Anchors, SfBegins(n), state[n] \in {"DISCOVERY", "WAITING_NEXT_SF"}
    PROVE  /\ n \in on /\ counter[n] = cc1[n] /\ View(n) = SF /\ SF > 0 /\ InStep(n) /\ SameStage(n)
           /\ (Level(n) /\ Now = SF) \/ (Lags(n) /\ Now = 0 /\ n # 0)
           /\ n = 0 => Now = SF
           /\ state[n] = "DISCOVERY" => Founds(n) /\ counter[n] = SF
           /\ air[n] = {} /\ rxOn[n]
<1>1. n \in on /\ "sf" \in due[n] /\ OrderInv(n) /\ AnchorInv(n)
  BY DEF SfBegins, IInv, AnchorInv, OffIdle, NetInv
<1>2. counter[n] = cc1[n] /\ counter[n] \in Nat /\ cc1[n] \in Int /\ SF \in Nat /\ SF > 0
  BY <1>1, Slots DEF OrderInv, IInv, TypeOK
<1>3. View(n) = SF
  BY <1>2 DEF View
<1>4. CASE state[n] = "DISCOVERY"
  <2>1. counter[n] = SF
    BY <1>1, <1>2, <1>4 DEF AnchorInv, DiscoveryClock
  <2>2. ASSUME NEW s \in Anchors, Joins(n, s) PROVE FALSE
    <3>1. SF + FirstSlot(s) <= Now /\ Now <= SecondSlot(s) + PREFIX
      BY <2>1, <2>2 DEF Joins
    <3> QED
      BY <3>1, Slots, ZeroClock
  <2>3. Founds(n)
    BY <1>1, <1>4, <2>2 DEF OrderInv, InDiscovery
  <2>4. (Level(n) /\ Now = SF) \/ (Lags(n) /\ Now = 0)
    BY <1>2, <1>3, <2>3 DEF Founds, InStep, Level, Leads, Lags
  <2>5. air[n] = {} /\ rxOn[n]
    BY <1>1, <1>4, <2>3 DEF OrderInv, OnAir, Founds, AnchorInv, DiscoveryClock
  <2>6. n = 0 => Now = SF
    BY <2>1 DEF Now
  <2> QED
    BY <1>1, <1>2, <1>3, <2>1, <2>3, <2>4, <2>5, <2>6 DEF Founds
<1>5. CASE state[n] = "WAITING_NEXT_SF"
  <2>1. InStep(n)
    <3> SUFFICES ASSUME ~InStep(n) PROVE FALSE
      OBVIOUS
    <3>1. rxJoin[n] /\ rxPc[n] \in {"capture", "compensate", "program"}
      BY <1>1, <1>5 DEF OrderInv, InNext, AnchorInv, Joining
    <3>2. cc1[n] = SF /\ counter[n] <= SLOT + PREFIX
      BY <1>1, <1>5, <3>1 DEF OrderInv, Receives
    <3> QED
      BY <1>2, <3>2, Slots
  <2>2. (Level(n) /\ Now = SF) \/ (Lags(n) /\ Now = 0)
    BY <1>2, <1>3, <2>1 DEF InStep, Level, Leads, Lags
  <2>3. ~rxJoin[n] /\ rxPc[n] = "idle"
    BY <2>2, ZeroClock
  <2>4. n = 0 => Now = SF
    BY <1>2, <2>2, ZeroClock DEF Level, Lags, View, Now
  <2>5. air[n] = {}
    BY <2>2, <2>4, ZeroClock
  <2>6. rxOn[n] \in BOOLEAN
    BY DEF IInv, TypeOK
  <2>7. rxOn[n]
    BY <1>1, <1>5, <2>3, <2>5, <2>6 DEF OrderInv, Hears
  <2>8. SameStage(n)
    BY <1>1, <1>5, <2>3 DEF OrderInv
  <2> QED
    BY <1>1, <1>2, <1>3, <1>5, <2>1, <2>2, <2>4, <2>5, <2>7, <2>8
<1> QED
  BY <1>4, <1>5

\* No superframe begins before the anchor has sent both messages.
LEMMA SfUnfinishedNever ==
    ASSUME OrderlyNetwork, IInv, NetInv, NEW n \in Anchors, SfUnfinished(n)
    PROVE  FALSE
<1>1. n \in on /\ "sf" \in due[n] /\ OrderInv(n) /\ AnchorInv(n) /\ counter[n] = cc1[n]
      /\ counter[n] \in Nat /\ cc1[n] \in Int
  BY DEF SfUnfinished, SfBegins, IInv, TypeOK, AnchorInv, OffIdle, NetInv, OrderInv
<1>2. CASE state[n] = "WAITING_SECOND"
  BY <1>1, <1>2, Slots DEF OrderInv, InSecond
<1>3. CASE state[n] = "WAITING_FIRST"
  <2>1. counter[n] <= FirstSlot(n)
    BY <1>1, <1>3 DEF AnchorInv, SlotClock
  <2>2. cc1[n] \in {SF, SF - SLOT}
    BY <1>1, <1>3 DEF OrderInv, InFirst, Steady, Half
  <2> QED
    BY <1>1, <2>1, <2>2, Slots
<1> QED
  BY <1>2, <1>3 DEF SfUnfinished

\* The end of a superframe for an anchor other than anchor 0: it runs ahead of
\* anchor 0 or catches up.
LEMMA FollowerEnds ==
    ASSUME IInv, NetInv, NEW n \in Anchors \ {0}, SfBegins(n), state[n] \in {"DISCOVERY", "WAITING_NEXT_SF"},
           counter'[n] = 0, cc1'[n] = SF, counter'[0] = counter[0],
           Stage(n)' = After(Stage(n)), Stage(0)' = Stage(0), state'[n] # "WAITING_SECOND"
    PROVE  /\ Level(n)' \/ Leads(n)'
           /\ SameStage(n)'
<1>1. View(n)' = 0 /\ Now' = Now /\ SF \in Nat /\ SF > 0
  BY Slots DEF View, Now
<1>2. \/ Level(n) /\ Now = SF
      \/ Lags(n) /\ Now = 0
  BY EndsTogether
<1>3. SameStage(n)
  BY EndsTogether
<1>4. CASE Level(n) /\ Now = SF
  <2>1. Leads(n)' /\ ~Level(n)' /\ ~Lags(n)'
    BY <1>1, <1>4 DEF Leads, Level, Lags
  <2>2. Stage(n)' = After(Stage(0)')
    BY <1>3, <1>4 DEF SameStage
  <2> QED
    BY <2>1, <2>2 DEF SameStage
<1>5. CASE Lags(n) /\ Now = 0
  <2>1. Level(n)' /\ ~Leads(n)' /\ ~Lags(n)'
    BY <1>1, <1>5 DEF Leads, Level, Lags
  <2>2. Stage(n)' = Stage(0)'
    BY <1>3, <1>5 DEF SameStage
  <2> QED
    BY <2>1, <2>2 DEF SameStage
<1> QED
  BY <1>2, <1>4, <1>5

\* Anchor 0's own: the others are a step ahead already or now lag.
LEMMA ZeroEnds ==
    ASSUME IInv, NetInv, Now = SF, NEW m \in Anchors \ {0}, m \in on,
           counter'[0] = 0, Stage(0)' = After(Stage(0)), Kept(m)
    PROVE  /\ Level(m)' \/ Lags(m)'
           /\ SameStage(m)'
           /\ state[m] = "WAITING_FIRST" => Level(m)' /\ Steady(m)
           /\ state[m] # "WAITING_SECOND"
           /\ state[m] = "DISCOVERY" => state[0] = "DISCOVERY"
<1>1. /\ rxPc[m] = "idle" /\ ~rxJoin[m] /\ OrderInv(m) /\ AnchorInv(m) /\ SF \in Nat /\ SF > 0
      /\ state[m] \in States /\ counter[m] \in Nat /\ cc1[m] \in Int
  BY ZeroClock, Slots DEF NetInv, IInv, TypeOK
<1>2. View(m)' = View(m) /\ Now' = 0 /\ Stage(m)' = Stage(m)
  BY DEF Kept, Untouched, View, Now, Stage
<1>3. state[m] # "WAITING_SECOND"
  BY <1>1, Slots DEF OrderInv, InSecond
<1>4. state[m] = "DISCOVERY" => Founds(m)
  BY <1>1, ZeroClock DEF OrderInv, InDiscovery
<1>5. state[m] = "WAITING_FIRST" => Steady(m) /\ Leads(m)
  <2>1. state[m] = "WAITING_FIRST" => Level(m) \/ Leads(m)
    BY <1>1 DEF OrderInv, InFirst
  <2>2. state[m] = "WAITING_FIRST" => View(m) <= FirstSlot(m)
    BY <1>1 DEF AnchorInv, SlotClock, View
  <2>3. ~Level(m) \/ state[m] # "WAITING_FIRST"
    BY <2>2, Slots DEF Level
  <2>4. state[m] = "WAITING_FIRST" => Steady(m)
    BY <1>1, ZeroClock DEF OrderInv, InFirst
  <2> QED
    BY <2>1, <2>3, <2>4
<1>6. InStep(m) /\ SameStage(m)
  BY <1>1, <1>3, <1>4, <1>5 DEF OrderInv, InNext, Founds, InStep, States
<1>7. CASE Level(m)
  <2>1. Lags(m)' /\ ~Level(m)' /\ ~Leads(m)'
    BY <1>1, <1>2, <1>7 DEF Lags, Level, Leads
  <2>2. Stage(0)' = After(Stage(m)') /\ Stage(m) = Stage(0)
    BY <1>2, <1>6, <1>7 DEF SameStage
  <2>3. state[m] # "WAITING_FIRST"
    BY <1>1, <1>5, <1>7 DEF Level, Leads
  <2>4. state[m] = "DISCOVERY" => state[0] = "DISCOVERY"
    BY <2>2 DEF Stage
  <2> QED
    BY <1>3, <2>1, <2>2, <2>3, <2>4 DEF SameStage
<1>8. CASE Leads(m)
  <2>1. Level(m)' /\ ~Lags(m)' /\ ~Leads(m)'
    BY <1>1, <1>2, <1>8 DEF Lags, Level, Leads
  <2>2. Stage(m)' = Stage(0)' /\ Stage(m) = After(Stage(0))
    BY <1>2, <1>6, <1>8 DEF SameStage
  <2>3. state[m] = "DISCOVERY" => state[0] = "DISCOVERY"
    BY <2>2 DEF Stage, After
  <2> QED
    BY <1>3, <1>5, <2>1, <2>2, <2>3 DEF SameStage
<1>9. ~Lags(m)
  BY <1>1 DEF Lags
<1> QED
  BY <1>6, <1>7, <1>8, <1>9 DEF InStep

LEMMA SfDiscoveryKeeps ==
    ASSUME OrderlyNetwork, IInv, NetInv, NEW n \in Anchors, SfDiscovery(n)
    PROVE  NetInv' /\ (n = 0 => Now = SF /\ Now' = 0) /\ (n # 0 => Now' = Now) /\ air' = air
<1>1. /\ SfBegins(n) /\ state[n] = "DISCOVERY"
      /\ n \in on /\ SF \in Nat /\ SF > 0 /\ Founds(n) /\ air[n] = {} /\ rxOn[n] /\ (n = 0 => Now = SF)
      /\ rxPc[n] = "idle"
  BY Slots, EndsTogether DEF SfDiscovery, Founds
<1>2. /\ counter' = [counter EXCEPT ![n] = 0] /\ cc1' = [cc1 EXCEPT ![n] = SF]
      /\ compensation' = [compensation EXCEPT ![n] = 0] /\ due' = [due EXCEPT ![n] = {}]
      /\ UNCHANGED <<on, cc0, rxOn, air, rxPc, rxMsg, rxCap, rxJoin>>
  BY DEF SfDiscovery, RestartFrameTimer
<1>3. /\ counter'[n] = 0 /\ cc1'[n] = SF /\ due'[n] = {}
      /\ Stage(n)' = After(Stage(n)) /\ state'[n] \in {"DISCOVERY", "WAITING_NEXT_SF"}
      /\ \A m \in Anchors \ {n} : Kept(m)
  <2>1. CASE superframe_id[n] + 1 > DISCOVERY
    <3>1. superframe_id[n] \in Int /\ DISCOVERY \in Int
      BY SizesAssumption DEF IInv, TypeOK
    <3>2. ~(superframe_id[n] + 1 <= DISCOVERY)
      BY <2>1, <3>1
    <3>3. state' = [state EXCEPT ![n] = "WAITING_NEXT_SF"] /\ superframe_id' = [superframe_id EXCEPT ![n] = 0]
      BY <2>1 DEF SfDiscovery
    <3>4. state'[n] = "WAITING_NEXT_SF" /\ superframe_id'[n] = 0
      BY <3>3 DEF IInv, TypeOK
    <3>5. Stage(n)' = After(Stage(n))
      <4>1. Stage(n)' = [discovers |-> FALSE, id |-> 0]
        BY <3>4 DEF Stage
      <4>2. Stage(n).discovers /\ Stage(n).id = superframe_id[n]
        BY <1>1 DEF Stage
      <4>3. After(Stage(n)) = [discovers |-> superframe_id[n] + 1 <= DISCOVERY, id |-> 0]
        BY <2>1, <4>2 DEF After
      <4>4. (superframe_id[n] + 1 <= DISCOVERY) = FALSE
        BY <3>1, <3>2
      <4> QED
        BY <4>1, <4>3, <4>4
    <3> QED
      BY <1>2, <3>3, <3>4, <3>5 DEF Kept, Untouched, IInv, TypeOK
  <2>2. CASE ~(superframe_id[n] + 1 > DISCOVERY)
    <3>1. superframe_id[n] \in Int /\ DISCOVERY \in Int
      BY SizesAssumption DEF IInv, TypeOK
    <3>2. superframe_id[n] + 1 <= DISCOVERY
      BY <2>2, <3>1
    <3>3. state' = state /\ superframe_id' = [superframe_id EXCEPT ![n] = @ + 1]
      BY <2>2 DEF SfDiscovery
    <3>4. state'[n] = "DISCOVERY" /\ superframe_id'[n] = superframe_id[n] + 1
      BY <1>1, <3>3 DEF IInv, TypeOK
    <3>5. Stage(n)' = After(Stage(n))
      BY <1>1, <2>2, <3>2, <3>4 DEF Stage, After
    <3> QED
      BY <1>2, <3>3, <3>4, <3>5 DEF Kept, Untouched, IInv, TypeOK
  <2> QED
    BY <2>1, <2>2
<1>4. \A s \in Anchors : Middle(s) => Middle(s)'
  BY <1>1, <1>2, <1>3 DEF Middle, Kept, Untouched
<1>5. /\ InFirst(n)' /\ InSecond(n)' /\ Receives(n)' /\ OnAir(n)' /\ Hears(n)'
      /\ n \in on'
  BY <1>1, <1>2, <1>3 DEF InFirst, InSecond, Receives, OnAir, Hears
<1>6. CASE n # 0
  <2>1. ZeroKept /\ state'[0] = state[0] /\ Stage(0)' = Stage(0) /\ counter'[0] = counter[0] /\ cc1'[0] = cc1[0]
        /\ rxJoin'[0] = rxJoin[0]
    BY <1>3, <1>6, ZeroClock DEF Kept, Untouched, ZeroKept, Stage
  <2>2. (Level(n)' \/ Leads(n)') /\ SameStage(n)'
    BY <1>1, <1>3, <1>6, <2>1, FollowerEnds
  <2>3. InDiscovery(n)' /\ InNext(n)'
    BY <1>1, <1>2, <2>1, <2>2 DEF InDiscovery, InNext, InStep, Founds
  <2>4. OrderInv(n)'
    BY <1>3, <1>5, <2>2, <2>3 DEF OrderInv
  <2>5. ASSUME NEW m \in Anchors \ {n} PROVE OrderInv(m)'
    <3>1. rxPc[m] # "idle" =>
             /\ \A k \in Anchors : air'[k] = {}
             /\ \A s \in Anchors : s \in on /\ state[s] = "WAITING_SECOND" => s \in on' /\ state'[s] = "WAITING_SECOND"
      BY <1>1, <1>2, <1>3, RxTime DEF Kept, Untouched
    <3> QED
      BY <1>3, <1>4, <2>1, <3>1, Others DEF NetInv
  <2>6. ZeroInv'
    BY <1>2, <2>1 DEF NetInv, ZeroInv
  <2> QED
    BY <1>2, <1>6, <2>1, <2>4, <2>5, <2>6 DEF NetInv, Now
<1>7. CASE n = 0
  <2>1. Now = SF /\ Now' = 0 /\ Stage(0)' = After(Stage(0)) /\ state'[0] \in {"DISCOVERY", "WAITING_NEXT_SF"}
    BY <1>1, <1>3, <1>7 DEF Now
  <2>2. Level(0)' /\ SameStage(0)' /\ InStep(0)'
    BY <1>1, <1>3, <1>7, <2>1 DEF Level, Leads, Lags, InStep, View, Now, SameStage
  <2>3. OrderInv(0)'
    BY <1>1, <1>2, <1>3, <1>5, <1>7, <2>1, <2>2 DEF OrderInv, InDiscovery, InNext, Founds
  <2>4. ASSUME NEW m \in Anchors \ {0} PROVE OrderInv(m)'
    <3>1. Kept(m) /\ OrderInv(m) /\ rxPc[m] = "idle" /\ ~rxJoin[m] /\ air[m] = {}
      BY <1>3, <1>7, <2>1, ZeroClock DEF NetInv
    <3>2. m \notin on => OrderInv(m)'
      BY <3>1 DEF OrderInv, OnAir, Hears, Kept, Untouched
    <3>3. CASE m \in on
      <4>1. (Level(m)' \/ Lags(m)') /\ SameStage(m)'
        BY <1>3, <1>7, <2>1, <3>1, <3>3, ZeroEnds
      <4>2. state[m] \notin {"WAITING_FIRST", "WAITING_SECOND"}
        BY <1>1, <1>7, <3>1, <3>3 DEF OrderInv, InFirst, InSecond
      <4>3. InDiscovery(m)' /\ InNext(m)' /\ InFirst(m)' /\ InSecond(m)' /\ Receives(m)' /\ OnAir(m)' /\ Hears(m)'
        BY <2>1, <3>1, <4>1, <4>2 DEF OrderInv, InDiscovery, InNext, InFirst, InSecond, Receives, OnAir, Hears, Founds, InStep, Kept, Untouched
      <4> QED
        BY <3>1, <3>3, <4>1, <4>3 DEF OrderInv, Kept, Untouched
    <3> QED
      BY <3>2, <3>3
  <2>5. ZeroInv'
    BY <1>2, <1>3, <1>7 DEF NetInv, ZeroInv
  <2> QED
    BY <1>2, <1>7, <2>1, <2>3, <2>4, <2>5 DEF NetInv
<1> QED
  BY <1>6, <1>7

LEMMA SfNextFollower ==
    ASSUME OrderlyNetwork, IInv, NetInv, NEW n \in Anchors \ {0}, SfNext(n)
    PROVE  NetInv' /\ Now' = Now /\ air' = air
<1>1. /\ SfBegins(n) /\ state[n] = "WAITING_NEXT_SF"
      /\ n \in on /\ SF \in Nat /\ SF > 0 /\ air[n] = {} /\ rxOn[n] /\ Now \in {0, SF}
      /\ InStep(n) /\ SameStage(n) /\ ((Level(n) /\ Now = SF) \/ (Lags(n) /\ Now = 0))
  BY Slots, EndsTogether DEF SfNext
<1>2. rxPc[n] = "idle" /\ ~rxJoin[n] /\ \A m \in Anchors : rxPc[m] = "idle"
  BY <1>1, ZeroClock
<1>3. /\ counter' = [counter EXCEPT ![n] = 0] /\ cc1' = [cc1 EXCEPT ![n] = SF]
      /\ compensation' = [compensation EXCEPT ![n] = 0]
      /\ superframe_id' = [superframe_id EXCEPT ![n] = NextId(@)]
      /\ state' = [state EXCEPT ![n] = "WAITING_FIRST"]
      /\ UNCHANGED <<on, rxOn, air, rxPc, rxMsg, rxCap, rxJoin>>
      /\ SetFrameTimer(n, FirstSlot(n), 0, 0, {})
  BY DEF SfNext, RestartFrameTimer
<1>4. /\ due'[n] \subseteq {"timer"}
      /\ \A m \in Anchors \ {n} : cc0'[m] = cc0[m] /\ due'[m] = due[m]
  <2>1. FirstSlot(n) \in 0..SF /\ 0 \in -SF..SF
    BY <1>1, Slots
  <2> QED
    BY <1>3, <2>1, SetFrameTimerEffect
<1>5. /\ counter'[n] = 0 /\ cc1'[n] = SF /\ compensation'[n] = 0
      /\ superframe_id'[n] = NextId(superframe_id[n]) /\ state'[n] = "WAITING_FIRST"
      /\ \A m \in Anchors \ {n} : Kept(m)
  BY <1>3, <1>4 DEF IInv, TypeOK, Kept, Untouched
<1>6. Stage(n)' = After(Stage(n))
  BY <1>1, <1>5 DEF Stage, After
<1>7. ZeroKept /\ state'[0] = state[0] /\ Stage(0)' = Stage(0) /\ counter'[0] = counter[0] /\ cc1'[0] = cc1[0]
      /\ rxJoin'[0] = rxJoin[0]
  BY <1>5, ZeroClock DEF Kept, Untouched, ZeroKept, Stage
<1>8. (Level(n)' \/ Leads(n)') /\ SameStage(n)'
  BY <1>1, <1>5, <1>6, <1>7, FollowerEnds
<1>9. state[0] # "DISCOVERY"
  <2>1. CASE Level(n)
    BY <1>1, <2>1 DEF SameStage, Stage
  <2>2. CASE Lags(n)
    BY <1>1, <2>2 DEF SameStage, Stage, After
  <2> QED
    BY <1>1, <2>1, <2>2
<1>10. InDiscovery(n)' /\ InNext(n)' /\ InFirst(n)' /\ InSecond(n)' /\ Receives(n)' /\ OnAir(n)' /\ Hears(n)'
  BY <1>1, <1>2, <1>3, <1>5, <1>7, <1>8, <1>9 DEF InDiscovery, InNext, InFirst, InSecond, Receives, OnAir, Hears, Steady
<1>11. OrderInv(n)'
  BY <1>1, <1>3, <1>4, <1>8, <1>10 DEF OrderInv
<1>12. \A s \in Anchors : Middle(s) => Middle(s)'
  BY <1>1, <1>3, <1>5 DEF Middle, Kept, Untouched
<1>13. ASSUME NEW m \in Anchors \ {n} PROVE OrderInv(m)'
  BY <1>2, <1>5, <1>7, <1>12, Others DEF NetInv
<1>14. ZeroInv'
  BY <1>3, <1>7 DEF NetInv, ZeroInv
<1> QED
  BY <1>3, <1>7, <1>11, <1>13, <1>14 DEF NetInv, Now

LEMMA SfNextZero ==
    ASSUME OrderlyNetwork, IInv, NetInv, SfNext(0)
    PROVE  NetInv' /\ Now = SF /\ Now' = 0 /\ (\A m \in Anchors : air[m] = {})
           /\ \A m \in Anchors \ {0} : air'[m] = {}
<1>1. /\ SfBegins(0) /\ state[0] = "WAITING_NEXT_SF"
      /\ 0 \in Anchors /\ 0 \in on /\ SF \in Nat /\ SF > 0 /\ rxOn[0] /\ Now = SF
  BY Slots, EndsTogether, ZeroClock DEF SfNext
<1>2. \A m \in Anchors : rxPc[m] = "idle" /\ ~rxJoin[m] /\ air[m] = {}
  BY <1>1, ZeroClock
<1>3. /\ counter' = [counter EXCEPT ![0] = 0] /\ cc1' = [cc1 EXCEPT ![0] = SF]
      /\ compensation' = [compensation EXCEPT ![0] = 0]
      /\ superframe_id' = [superframe_id EXCEPT ![0] = NextId(@)]
      /\ state' = [state EXCEPT ![0] = "WAITING_SECOND"]
      /\ UNCHANGED <<on, rxPc, rxMsg, rxCap, rxJoin>>
      /\ SetFrameTimer(0, SLOT, 0, 0, {})
      /\ TransmitAnchorMsg(0, 0, NextId(superframe_id[0]))
  BY DEF SfNext, RestartFrameTimer
<1>4. /\ due'[0] \subseteq {"timer"} /\ cc0'[0] = SecondSlot(0)
      /\ \A m \in Anchors \ {0} : cc0'[m] = cc0[m] /\ due'[m] = due[m]
  <2>1. SLOT \in 0..SF /\ 0 \in -SF..SF /\ SecondSlot(0) = SLOT
    BY <1>1, Slots
  <2>2. Wrap(SLOT - 0) = SLOT
    BY <1>1, Slots DEF Wrap
  <2> QED
    BY <1>1, <1>3, <2>1, <2>2, SetFrameTimerEffect
<1>5. /\ \A m \in Anchors \ {0} : air'[m] = air[m] /\ rxOn'[m] = rxOn[m]
      /\ \A f \in air'[0] : /\ f.left = PREFIX /\ f.parity = 0 /\ f.tr_id = NextId(superframe_id[0])
                            /\ \A g \in air'[0] : g = f
  BY <1>1, <1>3, 0 \in 0..1, Sends
<1>6. /\ counter'[0] = 0 /\ cc1'[0] = SF /\ compensation'[0] = 0
      /\ superframe_id'[0] = NextId(superframe_id[0]) /\ state'[0] = "WAITING_SECOND"
      /\ \A m \in Anchors \ {0} : Kept(m)
  BY <1>1, <1>3, <1>4, <1>5 DEF IInv, TypeOK, Kept, Untouched
<1>7. Stage(0)' = After(Stage(0)) /\ Now' = 0
  BY <1>1, <1>6 DEF Stage, After, Now
<1>8. OrderInv(0)'
  <2>1. Level(0)' /\ SameStage(0)'
    BY <1>1, <1>6, <1>7 DEF Level, Leads, Lags, View, Now, SameStage
  <2>2. InSecond(0)'
    BY <1>1, <1>2, <1>3, <1>4, <1>6, <1>7, Slots DEF InSecond, Now
  <2>3. InDiscovery(0)' /\ InNext(0)' /\ InFirst(0)' /\ Receives(0)' /\ Hears(0)'
    BY <1>1, <1>2, <1>3, <1>6 DEF InDiscovery, InNext, InFirst, Receives, Hears
  <2>4. OnAir(0)'
    <3> SUFFICES ASSUME NEW f \in air'[0]
                 PROVE  /\ 0 \in on' /\ state'[0] # "DISCOVERY"
                        /\ Now' = SlotOf(0, f.parity) + PREFIX - f.left
                        /\ f.tr_id = superframe_id'[0]
                        /\ state'[0] = IF f.parity = 0 THEN "WAITING_SECOND" ELSE "WAITING_NEXT_SF"
                        /\ \A g \in air'[0] : g = f
      BY DEF OnAir
    <3> QED
      BY <1>1, <1>3, <1>5, <1>6, <1>7, Slots DEF SlotOf
  <2> QED
    BY <1>1, <1>3, <1>4, <2>1, <2>2, <2>3, <2>4 DEF OrderInv
<1>9. ASSUME NEW m \in Anchors \ {0} PROVE OrderInv(m)'
  <2>1. Kept(m) /\ OrderInv(m) /\ rxPc[m] = "idle" /\ ~rxJoin[m] /\ air[m] = {}
    BY <1>2, <1>6 DEF NetInv
  <2>2. m \notin on => OrderInv(m)'
    BY <2>1 DEF OrderInv, OnAir, Hears, Kept, Untouched
  <2>3. CASE m \in on
    <3>1. /\ (Level(m)' \/ Lags(m)') /\ SameStage(m)'
          /\ state[m] = "WAITING_FIRST" => Level(m)' /\ Steady(m)
          /\ state[m] # "WAITING_SECOND" /\ state[m] # "DISCOVERY"
      BY <1>1, <1>6, <1>7, <2>1, <2>3, ZeroEnds
    <3>2. Steady(m)' <=> Steady(m)
      BY <2>1 DEF Steady, Kept, Untouched
    <3>3. InDiscovery(m)' /\ InNext(m)' /\ InFirst(m)' /\ InSecond(m)' /\ Receives(m)' /\ OnAir(m)' /\ Hears(m)'
      BY <1>6, <2>1, <2>3, <3>1, <3>2 DEF OrderInv, InDiscovery, InNext, InFirst, InSecond, Receives, OnAir, Hears, InStep, Kept, Untouched
    <3> QED
      BY <2>1, <2>3, <3>1, <3>3 DEF OrderInv, Kept, Untouched
  <2> QED
    BY <2>2, <2>3
<1>10. ZeroInv'
  BY <1>1, <1>2, <1>3, <1>6 DEF ZeroInv
<1> QED
  BY <1>1, <1>2, <1>5, <1>7, <1>8, <1>9, <1>10 DEF NetInv

-----------------------------------------------------------------------------
(* Time passes, frames land.                                               *)

\* When no interrupt is pending every clock in step reads what anchor 0's does.
LEMMA QuietLevel ==
    ASSUME IInv, NetInv, \A m \in on : ~Busy(m), NEW n \in Anchors, n \in on
    PROVE  /\ Now < SF /\ counter[n] < cc1[n] /\ rxPc[n] = "idle" /\ due[n] = {} /\ ~rxJoin[n]
           /\ state[n] # "WAITING_SECOND" /\ (state[n] = "DISCOVERY" => Founds(n)) => Level(n)
           /\ InStep(n) => Level(n)
<1>1. rxPc[n] = "idle" /\ due[n] = {} /\ ~rxJoin[n] /\ AnchorInv(n) /\ OrderInv(n)
  BY DEF Busy, IInv, AnchorInv, Joining, NetInv
<1>2. counter[n] < cc1[n] /\ counter[n] \in Nat /\ cc1[n] \in Int /\ SF \in Nat
  BY <1>1, Slots DEF AnchorInv, ClockArmed, IInv, TypeOK
<1>3. Now < SF /\ Now \in Nat
  <2>1. due[0] = {}
    BY ZeroClock DEF Busy
  <2> QED
    BY <2>1, ZeroClock, Slots
<1>4. View(n) < SF
  <2>1. state[n] = "WAITING_FIRST" => counter[n] <= FirstSlot(n)
    BY <1>1 DEF AnchorInv, SlotClock
  <2> QED
    BY <1>2, <2>1, Slots DEF View
<1>5. ~Leads(n) /\ ~Lags(n)
  BY <1>2, <1>3, <1>4 DEF Leads, Lags
<1>6. InStep(n) => Level(n)
  BY <1>5 DEF InStep
<1>7. state[n] # "WAITING_SECOND" /\ (state[n] = "DISCOVERY" => Founds(n)) => InStep(n)
  <2>1. state[n] \in States
    BY DEF IInv, TypeOK
  <2> QED
    BY <1>1, <2>1 DEF States, OrderInv, InNext, InFirst, Founds, InStep
<1> QED
  BY <1>1, <1>2, <1>3, <1>6, <1>7

LEMMA TickKeeps ==
    ASSUME OrderlyNetwork, IInv, NetInv, Tick
    PROVE  /\ NetInv' /\ Now < SF /\ Now' = Now + 1
           /\ \A n \in Anchors : \A f \in air[n] : f.left > 0
           /\ \A n \in Anchors : \A f \in air[n] : \E g \in air'[n] : g.parity = f.parity
           /\ \A n \in Anchors : \A g \in air'[n] : \E f \in air[n] : g.parity = f.parity
<1>1. /\ 0 \in Anchors /\ 0 \in on /\ Now \in Nat /\ Now < SF /\ SF \in Nat
      /\ \A m \in on : ~Busy(m)
  <2>1. \A m \in on : ~Busy(m)
    BY DEF Tick
  <2> QED
    BY <2>1, ZeroClock, QuietLevel, Slots
<1>2. /\ \A m \in Anchors : /\ counter'[m] = IF m \in on THEN counter[m] + 1 ELSE 0
                            /\ air'[m] = {[f EXCEPT !.left = @ - 1] : f \in air[m]}
                            /\ "timer" \in due'[m] <=> m \in on /\ cc0[m] = counter[m] + 1
                            /\ "sf" \in due'[m] <=> m \in on /\ cc1[m] = counter[m] + 1
      /\ UNCHANGED <<on, cc0, cc1, compensation, state, superframe_id, rxOn, rxPc, rxMsg, rxCap, rxJoin>>
  BY DEF Tick
<1>3. Now' = Now + 1 /\ Stage(0)' = Stage(0) /\ state'[0] = state[0] /\ superframe_id'[0] = superframe_id[0]
  BY <1>1, <1>2 DEF Now, Stage
<1>4. ASSUME NEW s \in Anchors, NEW f \in air[s]
      PROVE  /\ f \in Frame /\ f.left > 0 /\ f.left <= PREFIX /\ f.left \in Nat /\ f.parity \in 0..1
             /\ air[s] = {f} /\ Now = SlotOf(s, f.parity) + PREFIX - f.left
             /\ \A g \in air'[s] : g.left = f.left - 1 /\ g.parity = f.parity /\ g.tr_id = f.tr_id /\ air'[s] = {g}
             /\ air'[s] # {}
  <2>1. f \in Frame /\ f.left \in 0..PREFIX /\ f.parity \in 0..1 /\ air[s] = {f}
        /\ Now = SlotOf(s, f.parity) + PREFIX - f.left
    BY AirTime
  <2>2. f.left # 0
    BY DEF Tick, Landing
  <2>3. PICK g : g = [f EXCEPT !.left = @ - 1]
    OBVIOUS
  <2>4. g.left = f.left - 1 /\ g.parity = f.parity /\ g.tr_id = f.tr_id
    BY <2>1, <2>3 DEF Frame
  <2>5. air'[s] = {g}
    BY <1>2, <2>1, <2>3
  <2>6. f.left > 0 /\ f.left <= PREFIX /\ f.left \in Nat
    BY <2>1, <2>2, Slots
  <2> QED
    BY <2>1, <2>4, <2>5, <2>6
<1>5. ASSUME NEW s \in Anchors PROVE air'[s] = {} <=> air[s] = {}
  <2>1. air'[s] = {[f EXCEPT !.left = @ - 1] : f \in air[s]}
    BY <1>2
  <2>2. ASSUME NEW f \in air[s] PROVE air'[s] # {}
    BY <1>4
  <2> QED
    BY <2>1, <2>2
<1>6. ASSUME NEW s \in Anchors, Middle(s)
      PROVE  Middle(s)' /\ Now' <= SecondSlot(s) + PREFIX
  <2>1. CASE state[s] = "WAITING_SECOND" /\ air[s] = {}
    <3>1. Now <= SecondSlot(s)
      BY <1>6, <2>1 DEF Middle, NetInv, OrderInv, InSecond
    <3> QED
      BY <1>1, <1>2, <1>3, <1>5, <1>6, <2>1, <3>1, Slots DEF Middle
  <2>2. ASSUME NEW f \in air[s], f.parity = 1 PROVE Middle(s)' /\ Now' <= SecondSlot(s) + PREFIX
    <3>1. Now = SecondSlot(s) + PREFIX - f.left /\ f.left > 0 /\ f.left \in Nat
      BY <1>4, <2>2 DEF SlotOf
    <3>2. \E g \in air'[s] : g.parity = 1
      BY <1>4, <1>5, <2>2
    <3> QED
      BY <1>1, <1>2, <1>3, <1>6, <3>1, <3>2, Slots DEF Middle
  <2> QED
    BY <1>6, <2>1, <2>2 DEF Middle
<1>7. ASSUME NEW n \in Anchors PROVE OrderInv(n)'
  <2>1. CASE n \notin on
    <3>1. counter'[n] = 0 /\ air'[n] = {}
      BY <1>2, <1>5, <2>1 DEF NetInv, OrderInv
    <3> QED
      BY <1>2, <2>1, <3>1 DEF OrderInv, OnAir, Hears
  <2>2. CASE n \in on
    <3>1. /\ rxPc[n] = "idle" /\ due[n] = {} /\ ~rxJoin[n] /\ counter[n] < cc1[n]
          /\ OrderInv(n) /\ AnchorInv(n) /\ counter[n] \in Nat /\ cc1[n] \in Int
          /\ InStep(n) => Level(n)
          /\ state[n] \in States /\ counter'[n] = counter[n] + 1
      BY <1>1, <1>2, <2>2, QuietLevel DEF NetInv, IInv, TypeOK
    <3>2. View(n)' = View(n) + 1 /\ Stage(n)' = Stage(n) /\ View(n) \in Int
      BY <1>1, <1>2, <3>1 DEF View, Stage
    <3>3. Level(n) => Level(n)' /\ ~Leads(n)' /\ ~Lags(n)'
      BY <1>1, <1>3, <3>2 DEF Level, Leads, Lags
    <3>4. SameStage(n) /\ Level(n) => SameStage(n)' /\ InStep(n)'
      BY <1>3, <3>2, <3>3 DEF SameStage, InStep
    <3>5. Founds(n) => Founds(n)'
      BY <1>2, <1>3, <3>1, <3>4 DEF Founds
    <3>6. ASSUME NEW s \in Anchors, Joins(n, s) PROVE Joins(n, s)'
      BY <1>1, <1>2, <1>3, <1>6, <3>1, <3>6, Slots DEF Joins
    <3>7. ASSUME NEW s \in Anchors, Half(n, s) PROVE Half(n, s)'
      BY <1>1, <1>2, <1>3, <1>6, <3>1, <3>7, Slots DEF Half
    <3>8. InDiscovery(n)' /\ InNext(n)'
      BY <1>2, <3>1, <3>3, <3>5, <3>6 DEF OrderInv, InDiscovery, InNext, InStep
    <3>9. InFirst(n)'
      <4>1. Steady(n)' <=> Steady(n)
        BY <1>2 DEF Steady
      <4>2. state[n] = "WAITING_FIRST" => Level(n)
        BY <2>2, <3>1 DEF OrderInv, InFirst, InStep
      <4> QED
        BY <1>2, <1>3, <3>1, <3>3, <3>7, <4>1, <4>2 DEF OrderInv, InFirst
    <3>10. state[n] = "WAITING_SECOND" => Level(n)
      BY <3>1, <2>2, <1>1 DEF OrderInv, InSecond, Level, View
    <3>11. InSecond(n)'
      <4> SUFFICES ASSUME state[n] = "WAITING_SECOND" PROVE InSecond(n)'
        BY <1>2 DEF InSecond
      <4>1. /\ counter[n] = Now /\ cc1[n] = SF /\ FirstSlot(n) <= Now /\ Now < SecondSlot(n)
            /\ cc0[n] = SecondSlot(n) /\ state[0] # "DISCOVERY"
        BY <2>2, <3>1 DEF OrderInv, InSecond
      <4>2. Now' < SecondSlot(n) \/ "timer" \in due'[n]
        BY <1>1, <1>2, <1>3, <2>2, <4>1, Slots
      <4> QED
        BY <1>1, <1>2, <1>3, <3>1, <4>1, <4>2, Slots DEF InSecond
    <3>12. state[n] # "DISCOVERY" => SameStage(n)'
      <4>1. state[n] # "DISCOVERY" => Level(n)
        BY <1>1, <2>2, <3>10, QuietLevel
      <4> QED
        BY <2>2, <3>1, <3>4, <4>1 DEF OrderInv
    <3>13. OnAir(n)'
      <4> SUFFICES ASSUME NEW g \in air'[n]
                   PROVE  /\ n \in on' /\ state'[0] # "DISCOVERY"
                          /\ Now' = SlotOf(n, g.parity) + PREFIX - g.left
                          /\ g.tr_id = superframe_id'[0]
                          /\ state'[n] = IF g.parity = 0 THEN "WAITING_SECOND" ELSE "WAITING_NEXT_SF"
                          /\ \A h \in air'[n] : h = g
        BY DEF OnAir
      <4>1. PICK f \in air[n] : TRUE
        BY <1>5
      <4>2. /\ f.left \in Nat /\ f.parity \in 0..1 /\ Now = SlotOf(n, f.parity) + PREFIX - f.left
            /\ g.left = f.left - 1 /\ g.parity = f.parity /\ g.tr_id = f.tr_id /\ air'[n] = {g}
        BY <1>4
      <4>3. /\ state[0] # "DISCOVERY" /\ f.tr_id = superframe_id[0]
            /\ state[n] = IF f.parity = 0 THEN "WAITING_SECOND" ELSE "WAITING_NEXT_SF"
        BY <3>1 DEF OrderInv, OnAir
      <4>4. SlotOf(n, f.parity) \in Nat
        BY <4>2, Slots DEF SlotOf
      <4>5. Now' = SlotOf(n, g.parity) + PREFIX - g.left
        BY <1>1, <1>3, <4>2, <4>4, Slots
      <4> QED
        BY <1>2, <1>3, <2>2, <4>2, <4>3, <4>5
    <3>14. Receives(n)' /\ Hears(n)'
      BY <1>2, <1>5, <3>1 DEF OrderInv, Receives, Hears
    <3> QED
      BY <1>2, <2>2, <3>1, <3>8, <3>9, <3>11, <3>12, <3>13, <3>14 DEF OrderInv
  <2> QED
    BY <2>1, <2>2
<1>8. ZeroInv'
  BY <1>2 DEF NetInv, ZeroInv
<1>9. ASSUME NEW n \in Anchors
      PROVE  /\ \A f \in air[n] : \E g \in air'[n] : g.parity = f.parity
             /\ \A g \in air'[n] : \E f \in air[n] : g.parity = f.parity
  BY <1>4, <1>5
<1> QED
  BY <1>1, <1>3, <1>4, <1>7, <1>8, <1>9 DEF NetInv

LEMMA LandKeeps ==
    ASSUME OrderlyNetwork, IInv, NetInv, Land
    PROVE  NetInv' /\ counter'[0] = counter[0] /\ (\A m \in Anchors : air'[m] = {})
           /\ \E s \in Anchors : \E f \in air[s] : f.left = 0
<1>1. PICK s \in Anchors : \E f \in air[s] : f.left = 0
  BY DEF Land, Landing
<1>2. PICK f \in air[s] : f.left = 0
  BY <1>1
<1>3. /\ f.parity \in 0..1 /\ Now \in Nat /\ Now = SlotOf(s, f.parity) + PREFIX
      /\ air[s] = {f} /\ FrameOf(s) = f
      /\ \A m \in Anchors \ {s} : air[m] = {}
      /\ \A m \in Anchors : rxPc[m] = "idle" /\ ~rxJoin[m]
  <2>1. /\ f.parity \in 0..1 /\ Now \in Nat /\ Now = SlotOf(s, f.parity) + PREFIX - f.left
        /\ air[s] = {f} /\ FrameOf(s) = f
        /\ \A m \in Anchors \ {s} : air[m] = {}
        /\ \A m \in Anchors : rxPc[m] = "idle"
    BY AirTime
  <2>2. SlotOf(s, f.parity) \in Nat /\ PREFIX \in Nat
    BY <2>1, Slots DEF SlotOf
  <2> QED
    BY <1>2, <2>1, <2>2 DEF IInv, AnchorInv, Joining
<1>4. /\ s \in on /\ state[0] # "DISCOVERY" /\ f.tr_id = superframe_id[0]
      /\ state[s] = IF f.parity = 0 THEN "WAITING_SECOND" ELSE "WAITING_NEXT_SF"
  BY DEF NetInv, OrderInv, OnAir
<1>5. /\ FirstSlot(s) + PREFIX <= Now /\ Now <= SecondSlot(s) + PREFIX /\ 0 < Now /\ Now < SF
      /\ f.parity = 0 => Now = FirstSlot(s) + PREFIX
      /\ f.parity = 1 => Now = SecondSlot(s) + PREFIX
  BY <1>3, Slots DEF SlotOf
<1>6. Landing = {s}
  BY <1>1, <1>2, <1>3 DEF Landing
<1>7. PICK got \in [Listening -> Landing \cup {N}] :
         /\ \A n \in Listening : got[n] = N => \A t \in Landing : MayMiss(t)
         /\ rxPc' = [n \in Anchors |-> IF n \in Listening /\ got[n] # N THEN "event" ELSE rxPc[n]]
         /\ rxMsg' = [n \in Anchors |->
                        IF n \in Listening /\ got[n] # N
                        THEN [src |-> got[n], tr_id |-> FrameOf(got[n]).tr_id,
                              parity |-> FrameOf(got[n]).parity]
                        ELSE rxMsg[n]]
         /\ rxOn' = [n \in Anchors |->
                        IF n \in Landing THEN TRUE ELSE rxOn[n] /\ ~(n \in Listening /\ got[n] # N)]
  BY DEF Land
<1> DEFINE hears(n) == n \in Listening /\ got[n] # N
<1>8. ASSUME NEW n \in Anchors
      PROVE  /\ hears(n) => /\ n # s /\ rxPc'[n] = "event"
                            /\ rxMsg'[n].src = s /\ rxMsg'[n].tr_id = f.tr_id /\ rxMsg'[n].parity = f.parity
             /\ ~hears(n) => /\ rxPc'[n] = "idle"
                             /\ rxOn[n] => rxOn'[n]
             /\ n = s => rxOn'[n] /\ rxPc'[n] = "idle"
             /\ f.parity = 1 /\ n # s /\ n \in on /\ rxOn[n] => hears(n)
  <2>1. s \notin Listening
    BY <1>1 DEF Listening
  <2>2. hears(n) => got[n] = s
    BY <1>6, <1>7
  <2>3. hears(n) => rxMsg'[n] = [src |-> s, tr_id |-> f.tr_id, parity |-> f.parity]
    BY <1>3, <1>7, <2>2
  <2>4. f.parity = 1 /\ n # s /\ n \in on /\ rxOn[n] => hears(n)
    <3>1. f.parity = 1 => ~MayMiss(s)
      BY <1>3 DEF MayMiss, OrderlyNetwork
    <3>2. n # s /\ n \in on /\ rxOn[n] => n \in Listening
      BY <1>3 DEF Listening
    <3> QED
      BY <1>6, <1>7, <3>1, <3>2
  <2> QED
    BY <1>3, <1>6, <1>7, <2>1, <2>3, <2>4
<1>9. /\ UNCHANGED <<on, counter, cc0, cc1, compensation, due, state, superframe_id, rxJoin>>
      /\ \A m \in Anchors : air'[m] = {}
  BY <1>3, <1>6 DEF Land
<1> HIDE DEF hears
<1>10. Now' = Now
  BY <1>9 DEF Now
<1>11. ASSUME NEW n \in Anchors PROVE OrderInv(n)'
  <2>1. n \notin on => OrderInv(n)'
    BY <1>8, <1>9, <1>3 DEF NetInv, OrderInv, OnAir, Hears, IInv, AnchorInv, OffIdle, Listening, hears
  <2>2. CASE n \in on
    <3>1. OrderInv(n) /\ AnchorInv(n) /\ rxPc[n] = "idle" /\ ~rxJoin[n]
      BY <1>3 DEF NetInv, IInv
    <3>2. View(n)' = View(n) /\ Stage(n)' = Stage(n) /\ Stage(0)' = Stage(0)
      BY <1>9 DEF View, Stage
    <3>3. /\ InStep(n)' <=> InStep(n)
          /\ SameStage(n)' <=> SameStage(n)
          /\ Level(n)' <=> Level(n)
          /\ Leads(n)' <=> Leads(n)
          /\ InStep(n) => Level(n)
      <4>1. /\ Level(n)' <=> Level(n)
            /\ Leads(n)' <=> Leads(n)
            /\ Lags(n)' <=> Lags(n)
        BY <1>10, <3>2 DEF Level, Leads, Lags
      <4>2. ~Leads(n) /\ ~Lags(n)
        BY <1>3, <1>5 DEF Leads, Lags
      <4> QED
        BY <3>2, <4>1, <4>2 DEF InStep, SameStage
    <3>4. state[n] = "WAITING_SECOND" => n = s
      <4> SUFFICES ASSUME state[n] = "WAITING_SECOND" PROVE n = s
        OBVIOUS
      <4>1. FirstSlot(n) <= Now /\ Now <= SecondSlot(n)
        BY <2>2, <3>1 DEF OrderInv, InSecond
      <4> QED
        BY <1>3, <1>5, <4>1, Slots, OneOwner
    <3>5. ASSUME NEW t \in Anchors, Middle(t), FirstSlot(t) <= Now, Now <= SecondSlot(t) + PREFIX
          PROVE  t = s /\ f.parity = 1
      <4>1. t = s
        BY <1>3, <1>5, <3>5, Slots, OneOwner
      <4> QED
        BY <1>2, <1>3, <3>5, <4>1 DEF Middle
    <3>6. InDiscovery(n)' /\ (state[n] = "DISCOVERY" => f.parity = 1)
      <4> SUFFICES ASSUME state[n] = "DISCOVERY" PROVE InDiscovery(n)' /\ f.parity = 1
        BY <1>9 DEF InDiscovery
      <4>1. ~Founds(n)
        <5>1. Founds(n) => Stage(n) = Stage(0)
          BY <3>3 DEF Founds, SameStage
        <5> QED
          BY <1>4, <5>1 DEF Stage
      <4>2. PICK t \in Anchors \ {n} : Joins(n, t)
        BY <2>2, <3>1, <4>1 DEF OrderInv, InDiscovery
      <4>3. Middle(t) /\ counter[n] + FirstSlot(t) <= Now /\ Now <= SecondSlot(t) + PREFIX /\ counter[n] \in Nat
        BY <3>1, <4>2 DEF Joins, IInv, TypeOK
      <4>4. t = s /\ f.parity = 1
        BY <1>3, <3>5, <4>3, Slots
      <4>5. rxOn[n]
        BY <3>1 DEF AnchorInv, DiscoveryClock
      <4>6. rxPc'[n] = "event"
        BY <1>8, <2>2, <4>2, <4>4, <4>5
      <4>7. Joins(n, t)'
        BY <1>4, <1>9, <1>10, <4>3, <4>6 DEF Joins
      <4> QED
        BY <4>4, <4>2, <4>7 DEF InDiscovery
    <3>7. InFirst(n)'
      <4> SUFFICES ASSUME state[n] = "WAITING_FIRST" PROVE InFirst(n)'
        BY <1>9 DEF InFirst
      <4>1. state[0] # "DISCOVERY" /\ (Level(n) \/ Leads(n)) /\ (Steady(n) \/ \E t \in Anchors \ {n} : Half(n, t))
        BY <2>2, <3>1 DEF OrderInv, InFirst
      <4>2. Steady(n)' <=> Steady(n)
        BY <1>9 DEF Steady
      <4>3. ASSUME NEW t \in Anchors \ {n}, Half(n, t) PROVE Half(n, t)'
        <5>1. Middle(t) /\ FirstSlot(t) + PREFIX <= Now /\ Now <= SecondSlot(t) + PREFIX
          BY <3>1, <4>3 DEF Half
        <5>2. t = s /\ f.parity = 1
          BY <1>3, <3>5, <5>1, Slots
        <5>3. rxOn[n]
          <6>1. rxOn[n] \in BOOLEAN /\ air[n] = {}
            BY <1>3, <4>3, <5>2 DEF IInv, TypeOK
          <6> QED
            BY <2>2, <3>1, <6>1 DEF OrderInv, Hears
        <5>4. rxPc'[n] = "event" /\ rxMsg'[n].src = t /\ rxMsg'[n].parity = 1
          BY <1>8, <2>2, <4>3, <5>2, <5>3
        <5> QED
          BY <1>9, <1>10, <4>3, <5>4 DEF Half
      <4> QED
        BY <1>9, <3>3, <4>1, <4>2, <4>3 DEF InFirst
    <3>8. InNext(n)' /\ InSecond(n)' /\ OnAir(n)'
      BY <1>8, <1>9, <1>10, <2>2, <3>1, <3>3, <3>4 DEF OrderInv, InNext, InSecond, OnAir
    <3>9. Hears(n)'
      <4>1. n # s => air[n] = {}
        BY <1>3
      <4>2. rxOn[n] \in BOOLEAN
        BY DEF IInv, TypeOK
      <4> QED
        BY <1>8, <1>9, <3>1, <4>1, <4>2 DEF OrderInv, Hears
    <3>10. Receives(n)'
      <4> SUFFICES ASSUME hears(n) PROVE Receives(n)'
        BY <1>8 DEF Receives
      <4>1. /\ n # s /\ rxPc'[n] = "event"
            /\ rxMsg'[n].src = s /\ rxMsg'[n].tr_id = f.tr_id /\ rxMsg'[n].parity = f.parity
        BY <1>8
      <4> QED
        BY <1>3, <1>4, <1>9, <1>10, <3>1, <3>6, <4>1 DEF Receives, SlotOf
    <3> QED
      BY <1>9, <2>2, <3>1, <3>3, <3>6, <3>7, <3>8, <3>9, <3>10 DEF OrderInv
  <2> QED
    BY <2>1, <2>2
<1>12. ZeroInv'
  BY <1>9 DEF NetInv, ZeroInv
<1> QED
  BY <1>1, <1>9, <1>11, <1>12 DEF NetInv

-----------------------------------------------------------------------------
(* The invariant holds throughout.                                         *)

LEMMA NetInit == ASSUME OrderlyNetwork, Init PROVE NetInv
<1>1. 0 \in Anchors /\ SF \in Nat /\ SF > 0 /\ 0 \in on
  <2>1. 0 \in Anchors /\ 0 \in on
    BY ScenarioAssumption DEF OrderlyNetwork, Init
  <2> QED
    BY <2>1, Slots
<1>2. ZeroInv
  BY <1>1 DEF Init, ZeroInv
<1>3. ASSUME NEW n \in Anchors PROVE OrderInv(n)
  <2>1. /\ counter[n] = 0 /\ air[n] = {} /\ due[n] = {} /\ state[n] = "DISCOVERY" /\ cc1[n] = SF
        /\ rxPc[n] = "idle" /\ ~rxJoin[n] /\ rxOn[n] /\ Now = 0 /\ state[0] = "DISCOVERY"
        /\ superframe_id[n] = 0 /\ superframe_id[0] = 0
    BY <1>1 DEF Init, Now
  <2>2. Level(n) /\ ~Leads(n) /\ ~Lags(n) /\ Stage(n) = Stage(0)
    BY <1>1, <2>1 DEF Level, Leads, Lags, View, Stage
  <2>3. Founds(n)
    BY <2>1, <2>2 DEF Founds, InStep, SameStage
  <2> QED
    BY <2>1, <2>2, <2>3 DEF OrderInv, InDiscovery, InNext, InFirst, InSecond, Receives, OnAir, Hears, SameStage
<1> QED
  BY <1>2, <1>3 DEF NetInv

LEMMA NetNext == ASSUME OrderlyNetwork, IInv, NetInv, [Next]_vars PROVE NetInv'
<1>1. CASE Tick
  BY <1>1, TickKeeps
<1>2. CASE Land
  BY <1>2, LandKeeps
<1>3. ASSUME NEW n \in Anchors, Boot(n) \/ PowerOff(n) PROVE NetInv'
  BY <1>3, BootKeeps, PowerOffKeeps
<1>4. ASSUME NEW n \in Anchors, TimerIsr(n) PROVE NetInv'
  <2>1. CASE SfNext(n)
    BY <2>1, SfNextZero, SfNextFollower
  <2> QED
    BY <1>4, <2>1, TimerFirstKeeps, TimerSecondKeeps, SfDiscoveryKeeps, SfUnfinishedNever DEF TimerIsr
<1>5. ASSUME NEW n \in Anchors, RxIsr(n) PROVE NetInv'
  BY <1>5, RxJoinKeeps, RxIgnoredKeeps, RxQuietKeeps, RxCompensateKeeps, RxProgramKeeps, RxAdoptKeeps DEF RxIsr
<1>6. CASE UNCHANGED vars
  <2>1. ZeroInv'
    BY <1>6 DEF NetInv, ZeroInv, vars
  <2>2. ASSUME NEW m \in Anchors PROVE OrderInv(m)'
    <3>1. Kept(m) /\ ZeroKept
      BY <1>6 DEF vars, Kept, ZeroKept, Untouched
    <3>2. \A s \in Anchors : Middle(s) => Middle(s)'
      BY <1>6 DEF vars, Middle
    <3>3. rxPc[m] # "idle" =>
             /\ \A k \in Anchors : air'[k] = {}
             /\ \A s \in Anchors : s \in on /\ state[s] = "WAITING_SECOND" => s \in on' /\ state'[s] = "WAITING_SECOND"
      BY <1>6, RxTime DEF vars
    <3> QED
      BY <3>1, <3>2, <3>3, Others DEF NetInv
  <2> QED
    BY <2>1, <2>2 DEF NetInv
<1> QED
  BY <1>1, <1>2, <1>3, <1>4, <1>5, <1>6 DEF Next

\* The inductive invariant of an orderly network.
THEOREM NetInvariant == ASSUME OrderlyNetwork PROVE Spec => []NetInv
<1>1. Init => NetInv
  BY NetInit
<1>2. IInv /\ NetInv /\ [Next]_vars => NetInv'
  BY NetNext
<1> QED
  BY <1>1, <1>2, Invariant, PTL DEF Spec

-----------------------------------------------------------------------------
(* What follows from it.                                                   *)

\* Whoever is up and has joined shares the superframe id of every frame it
\* could hear: event_handler's increments and the ids taken over from messages
\* keep together.
THEOREM SuperframeIdShared == ASSUME OrderlyNetwork PROVE Spec => []SuperframeIdAgreed
<1>1. ASSUME IInv, NetInv PROVE SuperframeIdAgreed
  <2> SUFFICES ASSUME NEW m \in on, NEW n \in on, NEW f \in air[m], state[n] # "DISCOVERY", ~Busy(n)
               PROVE  superframe_id[n] = f.tr_id
    BY DEF SuperframeIdAgreed
  <2>1. m \in Anchors /\ n \in Anchors
    BY <1>1 DEF IInv, TypeOK
  <2>2. /\ f.tr_id = superframe_id[0] /\ Now \in Nat /\ Now < SF /\ SF \in Nat
    <3>1. Now \in Nat /\ Now <= SecondSlot(m) + PREFIX
      BY <1>1, <2>1, AirTime
    <3> QED
      BY <1>1, <2>1, <3>1, Slots DEF NetInv, OrderInv, OnAir
  <2>3. rxPc[n] = "idle" /\ due[n] = {} /\ ~rxJoin[n] /\ AnchorInv(n) /\ OrderInv(n)
    BY <1>1, <2>1 DEF Busy, IInv, AnchorInv, Joining, NetInv
  <2>4. counter[n] < cc1[n] /\ counter[n] \in Nat /\ cc1[n] \in Int /\ state[n] \in States
    BY <1>1, <2>1, <2>3 DEF AnchorInv, ClockArmed, IInv, TypeOK
  <2>5. View(n) < SF
    <3>1. state[n] = "WAITING_FIRST" => counter[n] <= FirstSlot(n)
      BY <2>3 DEF AnchorInv, SlotClock
    <3> QED
      BY <2>1, <2>2, <2>4, <3>1, Slots DEF View
  <2>6. InStep(n)
    BY <2>2, <2>3, <2>4 DEF States, OrderInv, InNext, InFirst, InSecond, InStep, Level, View
  <2>7. Level(n)
    BY <2>2, <2>5, <2>6 DEF InStep, Leads, Lags
  <2>8. Stage(n) = Stage(0)
    BY <2>3, <2>7 DEF OrderInv, SameStage
  <2> QED
    BY <2>2, <2>8 DEF Stage
<1> QED
  BY <1>1, Invariant, NetInvariant, PTL

\* The sender of a second message is on anchor 0's time when it is heard.
LEMMA SenderLevel ==
    ASSUME IInv, NetInv, NEW n \in Anchors, rxPc[n] # "idle", rxMsg[n].src \in on
    PROVE  cc1[rxMsg[n].src] - counter[rxMsg[n].src] = SF - Now
<1>1. PICK s \in Anchors \ {n} : s = rxMsg[n].src
  BY RxTime
<1>2. /\ s \in on /\ OrderInv(s) /\ AnchorInv(s) /\ counter[s] \in Nat /\ cc1[s] \in Int /\ state[s] \in States
      /\ SF \in Nat
  BY <1>1, Slots DEF NetInv, IInv, TypeOK
<1>3. /\ Now \in Nat /\ FirstSlot(s) + PREFIX <= Now /\ Now <= SecondSlot(s) + PREFIX /\ 0 < Now /\ Now < SF
      /\ state[0] # "DISCOVERY" /\ (\A m \in Anchors : air[m] = {})
  BY <1>1, RxTime
<1>4. \A t \in Anchors : FirstSlot(t) <= Now /\ Now <= SecondSlot(t) + PREFIX => t = s
  BY <1>3, Slots, OneOwner
<1>5. rxPc[s] = "idle" /\ ~rxJoin[s]
  <2> SUFFICES ASSUME rxPc[s] # "idle" PROVE FALSE
    BY <1>2 DEF AnchorInv, Joining
  <2>1. PICK t \in Anchors \ {s} : t = rxMsg[s].src
    BY RxTime
  <2>2. FirstSlot(t) + PREFIX <= Now /\ Now <= SecondSlot(t) + PREFIX
    BY <2>1, RxTime
  <2> QED
    BY <1>3, <1>4, <2>1, <2>2, Slots
<1>6. ~Leads(s) /\ ~Lags(s)
  BY <1>3 DEF Leads, Lags
<1>7. state[s] # "DISCOVERY"
  <2> SUFFICES ASSUME state[s] = "DISCOVERY" PROVE FALSE
    OBVIOUS
  <2>1. ~Founds(s)
    BY <1>3, <1>6 DEF Founds, InStep, SameStage, Stage
  <2>2. PICK t \in Anchors \ {s} : Joins(s, t)
    BY <1>2, <2>1 DEF OrderInv, InDiscovery
  <2>3. counter[s] + FirstSlot(t) <= Now /\ Now <= SecondSlot(t) + PREFIX
    BY <2>2 DEF Joins
  <2> QED
    BY <1>2, <1>3, <1>4, <2>2, <2>3, Slots
<1>8. CASE state[s] = "WAITING_NEXT_SF"
  <2>1. Level(s)
    BY <1>2, <1>5, <1>6, <1>8 DEF OrderInv, InNext, InStep
  <2> QED
    BY <1>1, <1>2, <1>3, <1>8, <2>1 DEF Level, View
<1>9. CASE state[s] = "WAITING_FIRST"
  <2>1. counter[s] = Now
    BY <1>2, <1>6, <1>9 DEF OrderInv, InFirst, Level, View
  <2>2. ASSUME NEW t \in Anchors \ {s}, Half(s, t) PROVE FALSE
    <3>1. FirstSlot(t) + PREFIX <= Now /\ Now <= SecondSlot(t) + PREFIX
      BY <2>2 DEF Half
    <3> QED
      BY <1>3, <1>4, <2>2, <3>1, Slots
  <2>3. cc1[s] = SF
    BY <1>2, <1>9, <2>2 DEF OrderInv, InFirst, Steady
  <2> QED
    BY <1>1, <2>1, <2>3
<1>10. CASE state[s] = "WAITING_SECOND"
  BY <1>1, <1>2, <1>10 DEF OrderInv, InSecond
<1> QED
  BY <1>2, <1>7, <1>8, <1>9, <1>10 DEF States

\* A discovering anchor that has synchronised (compensate_frame_timer's "sync")
\* ends its superframe together with the anchor it heard.
THEOREM JoinerAligned == ASSUME OrderlyNetwork PROVE Spec => JoinAligns
<1>1. ASSUME IInv, NetInv, [Next]_vars
      PROVE  [\A n \in on : LET s == rxMsg[n].src IN
                 rxPc[n] = "program" /\ rxPc'[n] = "adopt" /\ s \in on =>
                    (cc1'[n] - counter'[n]) % SF = (cc1[s] - counter[s]) % SF]_vars
  <2> SUFFICES ASSUME Next, NEW n \in on, rxPc[n] = "program", rxPc'[n] = "adopt", rxMsg[n].src \in on
               PROVE  cc1'[n] - counter'[n] = cc1[rxMsg[n].src] - counter[rxMsg[n].src]
    BY <1>1
  <2>1. n \in Anchors
    BY <1>1 DEF IInv, TypeOK
  <2>2. RxProgram(n)
    <3>0. rxPc'[n] # rxPc[n] /\ rxPc \in [Anchors -> RxPc]
      BY <1>1 DEF IInv, TypeOK
    <3>1. CASE Tick \/ Land
      BY <2>1, <3>1 DEF Tick, Land, Listening
    <3>2. ASSUME NEW m \in Anchors, Boot(m) \/ PowerOff(m) PROVE FALSE
      <4>1. rxPc' = rxPc \/ rxPc' = [rxPc EXCEPT ![m] = "idle"]
        BY <3>2 DEF Boot, PowerOff
      <4>2. rxPc'[n] \in {rxPc[n], "idle"}
        BY <2>1, <3>0, <4>1
      <4> QED
        BY <3>0, <4>2
    <3>3. ASSUME NEW m \in Anchors, TimerIsr(m) PROVE FALSE
      <4>1. rxPc' = rxPc
        BY <3>3 DEF TimerIsr, TimerFirst, TimerSecond, SfDiscovery, SfNext, SfUnfinished
      <4> QED
        BY <3>0, <4>1
    <3>4. ASSUME NEW m \in Anchors, RxIsr(m) PROVE RxProgram(n)
      <4>1. m = n
        BY <1>1, <2>1, <3>4 DEF IInv, TypeOK, RxIsr, RxJoin, RxSync, RxIgnored, RxCapture, RxCompensate, RxProgram,
              RxAdopt, RxRecord, RxStamp, RxGoto, RxDone
      <4> QED
        BY <3>4, <4>1 DEF RxIsr, RxJoin, RxSync, RxIgnored, RxCapture, RxCompensate, RxAdopt, RxRecord, RxStamp
    <3> QED
      BY <3>1, <3>2, <3>3, <3>4 DEF Next
  <2>3. rxJoin[n]
    BY <1>1, <2>1, <2>2 DEF RxProgram, RxGoto, IInv, TypeOK
  <2>4. SF - (cc1'[n] - counter'[n]) = Now
    BY <1>1, <2>1, <2>2, <2>3, RxProgramKeeps
  <2>5. cc1[rxMsg[n].src] - counter[rxMsg[n].src] = SF - Now
    BY <1>1, <2>1, SenderLevel
  <2>6. SF \in Nat /\ Now \in Nat /\ cc1'[n] \in Int /\ counter'[n] \in Int
    <3>1. IInv'
      BY <1>1, NextInv
    <3> QED
      BY <1>1, <2>1, <3>1, RxTime, Slots DEF IInv, TypeOK
  <2> QED
    BY <2>4, <2>5, <2>6
<1> QED
  BY <1>1, Invariant, NetInvariant, PTL DEF Spec, JoinAligns

-----------------------------------------------------------------------------
(* The network implements its schedule.                                    *)

\* Quotient and remainder.
LEMMA DivMod ==
    ASSUME NEW x \in Nat, NEW b \in Nat, b > 0
    PROVE  x \div b \in Int /\ x % b \in 0..b-1 /\ x = b * (x \div b) + (x % b)
OBVIOUS

LEMMA OneQuotient ==
    ASSUME NEW k \in Nat, NEW q \in Int, NEW b \in Nat, NEW r \in 0..b-1, NEW m \in 0..b-1,
           k * b + r = b * q + m
    PROVE  k = q /\ r = m
<1>1. CASE k < q
  <2>1. PICK d \in Nat : q = k + 1 + d
    BY <1>1
  <2>2. b * q = k * b + b + b * d /\ b * d \in Nat /\ k * b \in Nat
    BY <2>1
  <2> QED
    BY <2>2
<1>2. CASE q < k
  <2>1. PICK d \in Nat : k = q + 1 + d
    BY <1>2
  <2>2. k * b = b * q + b + b * d /\ b * d \in Nat /\ b * q \in Int
    BY <2>1
  <2> QED
    BY <2>2
<1> QED
  BY <1>1, <1>2

\* Which slot a time is in, and how far.
LEMMA WithinSlot ==
    ASSUME NEW s \in Anchors, NEW p \in 0..1, NEW r \in Nat, r < SLOT
    PROVE  /\ (SlotOf(s, p) + r) % SLOT = r
           /\ (SlotOf(s, p) + r) \div SLOT = 2 * s + p
<1>1. s \in Nat /\ SLOT \in Nat /\ SLOT > 0
  BY SizesAssumption DEF Anchors
<1> DEFINE k == 2 * s + p
<1>2. k \in Nat
  BY <1>1
<1>3. SlotOf(s, p) = k * SLOT
  <2>1. CASE p = 0
    BY <1>1, <2>1 DEF SlotOf, FirstSlot
  <2>2. CASE p = 1
    BY <1>1, <2>2 DEF SlotOf, SecondSlot
  <2> QED
    BY <2>1, <2>2
<1> HIDE DEF k
<1>4. PICK x : x = k * SLOT + r
  OBVIOUS
<1>5. x \in Nat
  <2>1. k * SLOT \in Nat
    BY <1>1, <1>2
  <2> QED
    BY <1>4, <2>1
<1>6. x \div SLOT \in Int /\ x % SLOT \in 0..SLOT-1 /\ x = SLOT * (x \div SLOT) + (x % SLOT)
  BY <1>1, <1>5, DivMod
<1>7. r \in 0..SLOT-1 /\ k * SLOT + r = SLOT * (x \div SLOT) + (x % SLOT)
  BY <1>1, <1>4, <1>6
<1>8. k = x \div SLOT /\ r = x % SLOT
  <2>1. PICK q \in Int : q = x \div SLOT
    BY <1>6
  <2>2. PICK m \in 0..SLOT-1 : m = x % SLOT
    BY <1>6
  <2>3. k * SLOT + r = SLOT * q + m
    BY <1>7, <2>1, <2>2
  <2>4. k = q /\ r = m
    BY <1>1, <1>2, <1>7, <2>3, OneQuotient
  <2> QED
    BY <2>1, <2>2, <2>4
<1> QED
  BY <1>3, <1>4, <1>8 DEF k

\* The slots whose messages are on the air, as TdmaSchedule counts them.
SlotsOnAir(a) == {2 * c[1] + c[2].parity : c \in UNION {{s} \X a[s] : s \in Anchors}}

LEMMA SlotsOnAirAre ==
    ASSUME NEW a, NEW j
    PROVE  j \in SlotsOnAir(a) <=> \E s \in Anchors : \E f \in a[s] : j = 2 * s + f.parity
<1>1. ASSUME NEW s \in Anchors, NEW f \in a[s] PROVE 2 * s + f.parity \in SlotsOnAir(a)
  <2>1. PICK c : c = <<s, f>>
    OBVIOUS
  <2>2. c \in UNION {{t} \X a[t] : t \in Anchors}
    BY <2>1
  <2>3. c[1] = s /\ c[2] = f
    BY <2>1
  <2> QED
    BY <2>2, <2>3 DEF SlotsOnAir
<1>2. ASSUME NEW c \in UNION {{s} \X a[s] : s \in Anchors}
      PROVE  \E s \in Anchors : \E f \in a[s] : 2 * c[1] + c[2].parity = 2 * s + f.parity
  <2>1. PICK s \in Anchors : c \in {s} \X a[s]
    BY <1>2
  <2>2. c[1] = s /\ c[2] \in a[s]
    BY <2>1
  <2> QED
    BY <2>2
<1> QED
  BY <1>1, <1>2 DEF SlotsOnAir

LEMMA NobodyOnAir ==
    ASSUME NEW a
    PROVE  (\A s \in Anchors : a[s] = {}) <=> SlotsOnAir(a) = {}
<1>1. ASSUME \A s \in Anchors : a[s] = {} PROVE SlotsOnAir(a) = {}
  BY <1>1, SlotsOnAirAre
<1>2. ASSUME SlotsOnAir(a) = {}, NEW s \in Anchors, NEW f \in a[s] PROVE FALSE
  BY <1>2, SlotsOnAirAre
<1> QED
  BY <1>1, <1>2

\* The phase of the schedule is anchor 0's count, which both ends and begins
\* a superframe.
LEMMA PhaseOf ==
    ASSUME NEW x \in Nat, x <= SF
    PROVE  /\ x < SF => x % SF = x
           /\ x = SF => x % SF = 0
<1>1. SF \in Nat /\ SF > 0
  <2>1. 0 \in Anchors
    BY SizesAssumption DEF Anchors
  <2> QED
    BY <2>1, Slots
<1> QED
  BY <1>1

\* A message that starts when its slot does, or is refused.
LEMMA Begins ==
    ASSUME NEW s \in Anchors, NEW p \in 0..1,
           counter[0] % SF = SlotOf(s, p), counter'[0] % SF = counter[0] % SF,
           \A m \in Anchors : air[m] = {}, \A m \in Anchors \ {s} : air'[m] = {},
           \A f \in air'[s] : f.parity = p
    PROVE  [Schedule!Next]_Schedule!vars
<1>1. (counter[0] % SF) % SLOT = 0 /\ (counter[0] % SF) \div SLOT = 2 * s + p
  <2>1. SLOT \in Nat /\ 0 < SLOT /\ SlotOf(s, p) \in Nat
    BY Slots DEF SlotOf
  <2>2. (SlotOf(s, p) + 0) % SLOT = 0 /\ (SlotOf(s, p) + 0) \div SLOT = 2 * s + p
    BY <2>1, WithinSlot
  <2>3. SlotOf(s, p) + 0 = SlotOf(s, p)
    BY <2>1
  <2> QED
    BY <2>2, <2>3
<1>2. SlotsOnAir(air) = {}
  BY NobodyOnAir
<1>3. SlotsOnAir(air') = {} \/ SlotsOnAir(air') = {2 * s + p}
  <2>1. CASE air'[s] = {}
    BY <2>1, NobodyOnAir
  <2>2. CASE air'[s] # {}
    <3>1. \A j : j \in SlotsOnAir(air') <=> \E t \in Anchors : \E f \in air'[t] : j = 2 * t + f.parity
      BY SlotsOnAirAre
    <3>2. \A j : j \in SlotsOnAir(air') <=> j = 2 * s + p
      BY <2>2, <3>1
    <3> QED
      BY <3>2
  <2> QED
    BY <2>1, <2>2
<1>4. CASE SlotsOnAir(air') = {}
  BY <1>2, <1>4 DEF Schedule!vars, SlotsOnAir
<1>5. CASE SlotsOnAir(air') = {2 * s + p}
  BY <1>1, <1>2, <1>5 DEF Schedule!Next, Schedule!Begin, Schedule!Slot, SlotsOnAir
<1> QED
  BY <1>3, <1>4, <1>5

LEMMA Stutters ==
    ASSUME counter'[0] % SF = counter[0] % SF, \A m \in Anchors : air'[m] = air[m]
    PROVE  [Schedule!Next]_Schedule!vars
<1>1. ASSUME NEW s \in Anchors PROVE {s} \X air'[s] = {s} \X air[s]
  OBVIOUS
<1>2. SlotsOnAir(air') = SlotsOnAir(air)
  <2>1. ASSUME NEW j PROVE j \in SlotsOnAir(air') <=> j \in SlotsOnAir(air)
    <3>1. j \in SlotsOnAir(air') <=> \E t \in Anchors : \E f \in air'[t] : j = 2 * t + f.parity
      BY SlotsOnAirAre
    <3>2. j \in SlotsOnAir(air) <=> \E t \in Anchors : \E f \in air[t] : j = 2 * t + f.parity
      BY SlotsOnAirAre
    <3> QED
      BY <3>1, <3>2
  <2> QED
    BY <2>1
<1> QED
  BY <1>2 DEF Schedule!vars, SlotsOnAir

\* A frame ends within the slot it began with.
LEMMA Ends ==
    ASSUME OrderlyNetwork, IInv, NetInv, Land
    PROVE  [Schedule!Next]_Schedule!vars
<1>1. counter'[0] = counter[0] /\ (\A m \in Anchors : air'[m] = {})
  BY LandKeeps
<1>a. PICK s \in Anchors : \E f \in air[s] : f.left = 0
  BY LandKeeps
<1>2. PICK f \in air[s] : f.left = 0
  BY <1>a
<1>3. PICK p \in 0..1 : p = f.parity
  BY AirTime
<1>4. Now = SlotOf(s, p) + PREFIX /\ Now \in Nat /\ Now < SF
  <2>1. Now = SlotOf(s, p) + PREFIX - f.left /\ Now \in Nat /\ Now <= SecondSlot(s) + PREFIX
    BY <1>3, AirTime
  <2>2. SlotOf(s, p) \in Nat
    BY Slots DEF SlotOf
  <2> QED
    BY <1>2, <2>1, <2>2, Slots
<1>5. counter[0] % SF = SlotOf(s, p) + PREFIX
  BY <1>4, PhaseOf, Slots DEF Now
<1>6. (SlotOf(s, p) + PREFIX) % SLOT = PREFIX /\ PREFIX # 0
  BY Slots, WithinSlot
<1>7. SlotsOnAir(air') = {} /\ SlotsOnAir(air) # {}
  BY <1>1, <1>2, NobodyOnAir
<1> QED
  BY <1>1, <1>5, <1>6, <1>7 DEF Schedule!Next, Schedule!End, SlotsOnAir

LEMMA Passes ==
    ASSUME OrderlyNetwork, IInv, NetInv, Tick
    PROVE  [Schedule!Next]_Schedule!vars
<1>1. /\ Now \in Nat /\ Now < SF /\ Now' = Now + 1 /\ 0 \in Anchors /\ SF \in Nat
  BY TickKeeps, ZeroClock, Slots
<1>2. counter[0] % SF = counter[0] /\ counter[0] \in Nat /\ counter'[0] = counter[0] + 1
  BY <1>1, PhaseOf DEF Now
<1>3. SF = 2 * N * SLOT
  BY DEF SF
<1>4. SlotsOnAir(air') = SlotsOnAir(air)
  <2>1. ASSUME NEW j PROVE j \in SlotsOnAir(air') <=> j \in SlotsOnAir(air)
    <3>1. j \in SlotsOnAir(air') <=> \E t \in Anchors : \E f \in air'[t] : j = 2 * t + f.parity
      BY SlotsOnAirAre
    <3>2. j \in SlotsOnAir(air) <=> \E t \in Anchors : \E f \in air[t] : j = 2 * t + f.parity
      BY SlotsOnAirAre
    <3>3. \A t \in Anchors : \A f \in air[t] : \E g \in air'[t] : g.parity = f.parity
      BY TickKeeps
    <3>4. \A t \in Anchors : \A g \in air'[t] : \E f \in air[t] : g.parity = f.parity
      BY TickKeeps
    <3> QED
      BY <3>1, <3>2, <3>3, <3>4
  <2> QED
    BY <2>1
<1>5. ASSUME NEW s \in Anchors, NEW f \in air[s] PROVE ((counter[0] + 1) % SF) % SLOT # 0
  <2>1. PICK p \in 0..1 : p = f.parity
    BY AirTime
  <2>2. /\ Now = SlotOf(s, p) + PREFIX - f.left /\ Now <= SecondSlot(s) + PREFIX
        /\ f.left \in 0..PREFIX /\ f.left > 0
    BY <2>1, AirTime, TickKeeps
  <2>3. SlotOf(s, p) \in Nat
    BY Slots DEF SlotOf
  <2>4. PICK r : r = PREFIX - f.left + 1
    OBVIOUS
  <2>5. r \in Nat /\ r > 0 /\ r < SLOT /\ counter[0] + 1 = SlotOf(s, p) + r /\ counter[0] + 1 < SF
    <3>1. Now + 1 < SF \/ f.left = PREFIX + 1
      <4>1. SlotOf(s, p) <= SecondSlot(s)
        BY Slots DEF SlotOf
      <4> QED
        BY <1>1, <2>2, <2>3, <4>1, Slots
    <3> QED
      BY <1>1, <2>2, <2>3, <2>4, <3>1, Slots DEF Now
  <2>6. (counter[0] + 1) % SF = SlotOf(s, p) + r
    <3>1. PICK x \in Nat : x = counter[0] + 1
      BY <1>2
    <3>2. x < SF /\ x <= SF
      BY <1>1, <2>5, <3>1
    <3>3. x % SF = x
      BY <3>2, PhaseOf
    <3> QED
      BY <2>5, <3>1, <3>3
  <2>7. (SlotOf(s, p) + r) % SLOT = r
    BY <2>5, WithinSlot
  <2> QED
    BY <2>5, <2>6, <2>7
<1>6. ((counter[0] + 1) % SF) % SLOT = 0 => SlotsOnAir(air) = {}
  BY <1>5, NobodyOnAir
<1>7. Schedule!Tick
  <2>1. (counter[0] % SF)' = ((counter[0] % SF) + 1) % (2 * N * SLOT)
    BY <1>2, <1>3
  <2>2. ((counter[0] % SF)' % SLOT = 0) => SlotsOnAir(air) = {}
    BY <1>2, <1>6
  <2> QED
    BY <1>4, <2>1, <2>2 DEF Schedule!Tick, SlotsOnAir
<1> QED
  BY <1>7 DEF Schedule!Next

\* Every step of an orderly network is a step of the schedule or none.
LEMMA StepsOnSchedule ==
    ASSUME OrderlyNetwork, IInv, NetInv, [Next]_vars
    PROVE  [Schedule!Next]_Schedule!vars
<1>1. CASE Tick
  BY <1>1, Passes
<1>2. CASE Land
  BY <1>2, Ends
<1>3. ASSUME NEW n \in Anchors, Boot(n) PROVE [Schedule!Next]_Schedule!vars
  BY <1>3, Stutters DEF Boot
<1>4. ASSUME NEW n \in Anchors, PowerOff(n) PROVE [Schedule!Next]_Schedule!vars
  <2>1. n # 0 /\ air[n] = {} /\ 0 \in Anchors
    BY <1>4, ZeroClock DEF PowerOff, OrderlyNetwork
  <2>2. counter'[0] = counter[0] /\ \A m \in Anchors : air'[m] = air[m]
    BY <1>4, <2>1 DEF PowerOff, IInv, TypeOK
  <2> QED
    BY <2>2, Stutters
<1>5. ASSUME NEW n \in Anchors, TimerFirst(n) PROVE [Schedule!Next]_Schedule!vars
  <2>1. n # 0 /\ Now = FirstSlot(n) /\ (\A m \in Anchors : air[m] = {}) /\ counter'[0] = counter[0]
    BY <1>5, TimerFirstKeeps
  <2>2. counter[0] % SF = SlotOf(n, 0)
    <3>1. FirstSlot(n) \in Nat /\ FirstSlot(n) < SF /\ FirstSlot(n) <= SF
      BY Slots
    <3>2. FirstSlot(n) % SF = FirstSlot(n)
      BY <3>1, PhaseOf
    <3>3. SlotOf(n, 0) = FirstSlot(n)
      BY DEF SlotOf
    <3> QED
      BY <2>1, <3>2, <3>3 DEF Now
  <2>3. (\A m \in Anchors \ {n} : air'[m] = air[m]) /\ \A f \in air'[n] : f.parity = 0
    BY <1>5, Sends, 0 \in 0..1 DEF TimerFirst
  <2> QED
    BY <2>1, <2>2, <2>3, 0 \in 0..1, Begins
<1>6. ASSUME NEW n \in Anchors, TimerSecond(n) PROVE [Schedule!Next]_Schedule!vars
  <2>1. Now = SecondSlot(n) /\ (\A m \in Anchors : air[m] = {}) /\ counter'[0] = counter[0]
    BY <1>6, TimerSecondKeeps
  <2>2. counter[0] % SF = SlotOf(n, 1)
    <3>1. SecondSlot(n) \in Nat /\ SecondSlot(n) < SF /\ SecondSlot(n) <= SF
      BY Slots
    <3>2. SecondSlot(n) % SF = SecondSlot(n)
      BY <3>1, PhaseOf
    <3>3. SlotOf(n, 1) = SecondSlot(n)
      BY DEF SlotOf
    <3> QED
      BY <2>1, <3>2, <3>3 DEF Now
  <2>3. (\A m \in Anchors \ {n} : air'[m] = air[m]) /\ \A f \in air'[n] : f.parity = 1
    BY <1>6, Sends, 1 \in 0..1 DEF TimerSecond
  <2> QED
    BY <2>1, <2>2, <2>3, 1 \in 0..1, Begins
<1>7. ASSUME NEW n \in Anchors, SfDiscovery(n) PROVE [Schedule!Next]_Schedule!vars
  <2>1. Now' % SF = Now % SF
    <3>1. 0 % SF = 0 /\ SF % SF = 0
      BY ZeroClock, Slots, PhaseOf
    <3> QED
      BY <1>7, <3>1, SfDiscoveryKeeps
  <2>2. air' = air
    BY <1>7, SfDiscoveryKeeps
  <2> QED
    BY <2>1, <2>2, Stutters DEF Now
<1>8. ASSUME NEW n \in Anchors, SfNext(n) PROVE [Schedule!Next]_Schedule!vars
  <2>1. CASE n # 0
    <3>1. Now' = Now /\ air' = air
      BY <1>8, <2>1, SfNextFollower
    <3> QED
      BY <3>1, Stutters DEF Now
  <2>2. CASE n = 0
    <3>1. /\ Now = SF /\ Now' = 0 /\ (\A m \in Anchors : air[m] = {}) /\ \A m \in Anchors \ {0} : air'[m] = {}
      BY <1>8, <2>2, SfNextZero
    <3>2. 0 \in Anchors /\ SF \in Nat
      BY ZeroClock, Slots
    <3>3. Now % SF = 0 /\ Now' % SF = 0 /\ SlotOf(0, 0) = 0
      BY <3>1, <3>2, PhaseOf, Slots DEF SlotOf
    <3>4. \A f \in air'[0] : f.parity = 0
      BY <1>8, <2>2, <3>2, Sends, 0 \in 0..1 DEF SfNext
    <3> QED
      BY <3>1, <3>2, <3>3, <3>4, 0 \in 0..1, Begins DEF Now
  <2> QED
    BY <2>1, <2>2
<1>9. ASSUME NEW n \in Anchors, SfUnfinished(n) PROVE FALSE
  BY <1>9, SfUnfinishedNever
<1>10. ASSUME NEW n \in Anchors, RxIsr(n) PROVE [Schedule!Next]_Schedule!vars
  <2>1. counter' = counter /\ air' = air
    BY <1>10 DEF RxIsr, RxJoin, RxSync, RxIgnored, RxCapture, RxCompensate, RxProgram,
          RxAdopt, RxRecord, RxStamp, RxGoto, RxDone
  <2> QED
    BY <2>1, Stutters
<1>11. CASE UNCHANGED vars
  BY <1>11, Stutters DEF vars
<1> QED
  BY <1>1, <1>2, <1>3, <1>4, <1>5, <1>6, <1>7, <1>8, <1>9, <1>10, <1>11 DEF Next, TimerIsr

\* An orderly network keeps to the schedule: every frame of every anchor in the
\* anchor's own slot, no two at once, although every anchor but anchor 0 keeps
\* correcting its frame timer (compensate_frame_timer) and each first message,
\* taken for a second one, makes it wrong by a slot for a while.
THEOREM NetworkKeepsSchedule == ASSUME OrderlyNetwork PROVE Spec => KeepsSchedule
<1>1. Init => Schedule!Init
  <2> SUFFICES ASSUME Init PROVE Schedule!Init
    OBVIOUS
  <2>1. 0 \in Anchors
    BY SizesAssumption DEF Anchors
  <2>2. counter[0] % SF = 0
    BY <2>1, PhaseOf, Slots DEF Init
  <2>3. SlotsOnAir(air) = {}
    BY NobodyOnAir DEF Init
  <2> QED
    BY <2>2, <2>3 DEF Schedule!Init, SlotsOnAir
<1>2. IInv /\ NetInv /\ [Next]_vars => [Schedule!Next]_Schedule!vars
  BY StepsOnSchedule
<1> QED
  BY <1>1, <1>2, Invariant, NetInvariant, PTL DEF Spec, KeepsSchedule, Schedule!Spec

-----------------------------------------------------------------------------
(* The records of the receive time stamps.  Every message arrives.         *)

AllHeard == OrderlyNetwork /\ Unreliable = {}

Clean(info) == \A p \in 0..1 : info.ts[p] \in {Zeroed, info.src}

\* The record of the last sender, and the other one.
Current(n) == infos[n][src_parity[n]]
Other(n) == infos[n][1 - src_parity[n]]

\* A message not yet recorded; a second message still to be recorded.
Handles(n, s, p) == rxPc[n] \notin {"idle", "stamp"} /\ rxMsg[n].src = s /\ rxMsg[n].parity = p
Awaits(n, s) == Middle(s) \/ Handles(n, s, 1)

\* The record may hold a predecessor's second time stamp until its owner's
\* second message replaces it.
HalfDone(n) ==
    \E s \in Anchors \ {n} :
        /\ n \in on /\ Awaits(n, s)
        /\ old_src_id[n] = s /\ Current(n).src = s /\ Current(n).ts[0] \in {Zeroed, s}

Recorded(n) ==
    /\ rxPc[n] = "stamp" =>
         /\ old_src_id[n] = rxMsg[n].src /\ Current(n).src = rxMsg[n].src
         /\ rxMsg[n].parity = 1 => Current(n).ts[0] \in {Zeroed, rxMsg[n].src}
    /\ rxPc[n] # "stamp" => Clean(Current(n)) \/ HalfDone(n)

\* The first message of a pair has chosen the record for the second one.
Member(n) == n \in on /\ state[n] \in {"WAITING_NEXT_SF", "WAITING_FIRST"} /\ ~rxJoin[n]
Chosen(n) ==
    Member(n) =>
        \A s \in Anchors \ {n} :
            Awaits(n, s) /\ ~Handles(n, s, 0) => old_src_id[n] = s /\ Current(n).src = s

\* A discovering anchor has recorded nothing.
Unused(n) == state[n] = "DISCOVERY" \/ rxJoin[n] => Clean(Current(n))

StampInv(n) ==
    /\ Clean(Other(n)) /\ Recorded(n) /\ Chosen(n) /\ Unused(n)
    /\ \A f \in air[n] : \A k \in 0..1 : Clean(f.anchors[k])

StampsInv == \A n \in Anchors : StampInv(n)

LEMMA MiddleTime ==
    ASSUME IInv, NetInv, NEW s \in Anchors, Middle(s)
    PROVE  /\ Now \in Nat /\ FirstSlot(s) <= Now /\ Now <= SecondSlot(s) + PREFIX
           /\ \/ state[s] = "WAITING_SECOND" /\ air[s] = {} /\ Now <= SecondSlot(s)
              \/ (\E f \in air[s] : f.parity = 1) /\ SecondSlot(s) <= Now
           /\ \A t \in Anchors : FirstSlot(t) <= Now /\ Now <= SecondSlot(t) + PREFIX => t = s
<1>1. OrderInv(s) /\ s \in on
  BY DEF NetInv, Middle
<1>2. CASE state[s] = "WAITING_SECOND" /\ air[s] = {}
  <2>1. Now \in Nat /\ FirstSlot(s) <= Now /\ Now <= SecondSlot(s)
    BY <1>1, <1>2, ZeroClock DEF OrderInv, InSecond
  <2> QED
    BY <1>2, <2>1, Slots, OneOwner
<1>3. ASSUME NEW f \in air[s], f.parity = 1
      PROVE  /\ Now \in Nat /\ FirstSlot(s) <= Now /\ Now <= SecondSlot(s) + PREFIX /\ SecondSlot(s) <= Now
  <2>1. Now \in Nat /\ Now = SlotOf(s, f.parity) + PREFIX - f.left /\ f.left \in 0..PREFIX
    BY AirTime
  <2>2. Now = SecondSlot(s) + PREFIX - f.left
    BY <1>3, <2>1 DEF SlotOf
  <2> QED
    BY <2>1, <2>2, Slots
<1>4. CASE \E f \in air[s] : f.parity = 1
  <2>1. /\ Now \in Nat /\ FirstSlot(s) <= Now /\ Now <= SecondSlot(s) + PREFIX /\ SecondSlot(s) <= Now
    BY <1>3, <1>4
  <2> QED
    BY <1>4, <2>1, Slots, OneOwner
<1> QED
  BY <1>2, <1>4 DEF Middle

\* Nobody waits for a second message where a pair begins, or where it is over.
LEMMA MiddleSteps ==
    ASSUME AllHeard, IInv, NetInv, Next, ~Land, NEW s \in Anchors
    PROVE  Middle(s)' <=> Middle(s)
<1> USE DEF AllHeard
<1>1. CASE Tick
  <2>1. (\E f \in air[s] : f.parity = 1) <=> (\E g \in air'[s] : g.parity = 1)
    BY <1>1, TickKeeps
  <2>2. air[s] = {} <=> air'[s] = {}
    BY <1>1, TickKeeps
  <2> QED
    BY <1>1, <2>1, <2>2 DEF Tick, Middle
<1>2. ASSUME NEW n \in Anchors, Boot(n) PROVE Middle(s)' <=> Middle(s)
  <2>1. n \notin on /\ state[n] = "DISCOVERY" /\ air[n] = {} /\ on' = on \cup {n} /\ state' = state /\ air' = air
    BY <1>2 DEF Boot, IInv, AnchorInv, OffIdle, NetInv, OrderInv
  <2> QED
    BY <2>1 DEF Middle
<1>3. ASSUME NEW n \in Anchors, PowerOff(n) PROVE Middle(s)' <=> Middle(s)
  BY <1>3 DEF PowerOff, OrderlyNetwork, IInv, TypeOK, Middle
<1>4. ASSUME NEW n \in Anchors, TimerFirst(n) PROVE Middle(s)' <=> Middle(s)
  <2>1. /\ state[n] = "WAITING_FIRST" /\ air[n] = {}
        /\ on' = on /\ state' = [state EXCEPT ![n] = "WAITING_SECOND"]
        /\ \A m \in Anchors \ {n} : air'[m] = air[m]
        /\ air'[n] # {} /\ \A f \in air'[n] : f.parity = 0
    <3>1. TransmitAnchorMsg(n, 0, superframe_id[n])
      BY <1>4 DEF TimerFirst
    <3>2. /\ \A m \in Anchors \ {n} : air'[m] = air[m]
          /\ air'[n] # {} /\ \A f \in air'[n] : f.parity = 0
      BY <3>1, Sends, 0 \in 0..1
    <3>3. air[n] = {}
      BY <1>4, TimerFirstKeeps
    <3> QED
      BY <1>4, <3>2, <3>3 DEF TimerFirst
  <2> QED
    BY <2>1 DEF Middle, IInv, TypeOK
<1>5. ASSUME NEW n \in Anchors, TimerSecond(n) PROVE Middle(s)' <=> Middle(s)
  <2>1. /\ state[n] = "WAITING_SECOND" /\ air[n] = {} /\ n \in on
        /\ on' = on /\ state' = [state EXCEPT ![n] = "WAITING_NEXT_SF"]
        /\ \A m \in Anchors \ {n} : air'[m] = air[m]
        /\ air'[n] # {} /\ \A f \in air'[n] : f.parity = 1
    <3>1. TransmitAnchorMsg(n, 1, superframe_id[n])
      BY <1>5 DEF TimerSecond
    <3>2. /\ \A m \in Anchors \ {n} : air'[m] = air[m]
          /\ air'[n] # {} /\ \A f \in air'[n] : f.parity = 1
      BY <3>1, Sends, 1 \in 0..1
    <3>3. air[n] = {}
      BY <1>5, TimerSecondKeeps
    <3> QED
      BY <1>5, <3>2, <3>3 DEF TimerSecond, IInv, AnchorInv, OffIdle
  <2> QED
    BY <2>1 DEF Middle, IInv, TypeOK
<1>6. ASSUME NEW n \in Anchors, SfDiscovery(n) PROVE Middle(s)' <=> Middle(s)
  <2>1. state[n] = "DISCOVERY" /\ air[n] = {} /\ air' = air /\ on' = on
        /\ state'[n] # "WAITING_SECOND" /\ \A m \in Anchors \ {n} : state'[m] = state[m]
    BY <1>6, EndsTogether DEF SfDiscovery, IInv, TypeOK
  <2> QED
    BY <2>1 DEF Middle
<1>7. ASSUME NEW n \in Anchors, SfNext(n) PROVE Middle(s)' <=> Middle(s)
  <2>1. state[n] = "WAITING_NEXT_SF" /\ air[n] = {} /\ on' = on /\ \A m \in Anchors \ {n} : state'[m] = state[m]
    BY <1>7, EndsTogether DEF SfNext, IInv, TypeOK
  <2>2. CASE n # 0
    BY <1>7, <2>1, <2>2, SfNextFollower DEF SfNext, Middle, IInv, TypeOK
  <2>3. CASE n = 0
    <3>1. /\ \A m \in Anchors \ {n} : air'[m] = air[m]
          /\ air'[n] # {} /\ \A f \in air'[n] : f.parity = 0
      BY <1>7, <2>3, Sends, 0 \in 0..1 DEF SfNext
    <3> QED
      BY <2>1, <3>1 DEF Middle
  <2> QED
    BY <2>2, <2>3
<1>8. ASSUME NEW n \in Anchors, RxIsr(n) PROVE Middle(s)' <=> Middle(s)
  <2>1. air' = air /\ on' = on /\ (state' = state \/ RxJoin(n))
    BY <1>8 DEF RxIsr, RxJoin, RxSync, RxIgnored, RxCapture, RxCompensate, RxProgram,
          RxAdopt, RxRecord, RxStamp, RxGoto, RxDone
  <2>2. CASE RxJoin(n)
    <3>1. air[n] = {}
      BY <2>2, RxTime DEF RxJoin
    <3> QED
      BY <2>1, <2>2, <3>1 DEF RxJoin, Middle, IInv, TypeOK
  <2> QED
    BY <2>1, <2>2 DEF Middle
<1> QED
  BY <1>1, <1>2, <1>3, <1>4, <1>5, <1>6, <1>7, <1>8, SfUnfinishedNever DEF Next, TimerIsr

\* A step that does not touch an anchor's records.
SameRecords(n) ==
    /\ infos'[n] = infos[n] /\ src_parity'[n] = src_parity[n] /\ old_src_id'[n] = old_src_id[n]

LEMMA StampsKept ==
    ASSUME IInv, NEW n \in Anchors, StampInv(n), SameRecords(n),
           \A s \in Anchors : Middle(s)' <=> Middle(s),
           rxMsg'[n] = rxMsg[n], rxPc'[n] = "stamp" <=> rxPc[n] = "stamp", rxPc'[n] = "idle" <=> rxPc[n] = "idle",
           n \in on => n \in on',
           Member(n)' => Member(n) \/ \A s \in Anchors \ {n} : ~Awaits(n, s),
           state'[n] = "DISCOVERY" \/ rxJoin'[n] => state[n] = "DISCOVERY" \/ rxJoin[n] \/ Clean(Current(n)),
           \A f \in air'[n] : \A k \in 0..1 : Clean(f.anchors[k])
    PROVE  StampInv(n)'
<1>1. Current(n)' = Current(n) /\ Other(n)' = Other(n) /\ old_src_id'[n] = old_src_id[n]
  BY DEF SameRecords, Current, Other
<1>2. Clean(Current(n)') <=> Clean(Current(n))
  BY <1>1
<1>3. Clean(Other(n)') <=> Clean(Other(n))
  BY <1>1
<1>4. ASSUME NEW s \in Anchors
      PROVE  /\ Awaits(n, s)' <=> Awaits(n, s)
             /\ Handles(n, s, 0)' <=> Handles(n, s, 0)
  BY DEF Awaits, Handles
<1>5. HalfDone(n) => HalfDone(n)'
  BY <1>1, <1>4 DEF HalfDone
<1>6. Recorded(n)'
  BY <1>1, <1>2, <1>5 DEF StampInv, Recorded
<1>7. Chosen(n)'
  BY <1>1, <1>4 DEF StampInv, Chosen
<1>8. Unused(n)'
  BY <1>2 DEF StampInv, Unused
<1> QED
  BY <1>3, <1>6, <1>7, <1>8 DEF StampInv

\* It is enough to look at the anchor that moved.
LEMMA StampsOthers ==
    ASSUME AllHeard, IInv, NetInv, StampsInv, Next, ~Land, NEW n \in Anchors,
           \A m \in Anchors \ {n} : Kept(m) /\ SameRecords(m),
           StampInv(n)'
    PROVE  StampsInv'
<1>1. \A s \in Anchors : Middle(s)' <=> Middle(s)
  BY MiddleSteps
<1>2. ASSUME NEW m \in Anchors \ {n} PROVE StampInv(m)'
  <2>1. Kept(m) /\ SameRecords(m) /\ StampInv(m)
    BY DEF StampsInv
  <2>2. /\ rxMsg'[m] = rxMsg[m] /\ rxPc'[m] = rxPc[m] /\ rxJoin'[m] = rxJoin[m] /\ state'[m] = state[m]
        /\ air'[m] = air[m] /\ (m \in on <=> m \in on')
    BY <2>1 DEF Kept, Untouched
  <2>3. Member(m)' => Member(m)
    BY <2>2 DEF Member
  <2>4. \A f \in air'[m] : \A k \in 0..1 : Clean(f.anchors[k])
    BY <2>1, <2>2 DEF StampInv
  <2> QED
    BY <1>1, <2>1, <2>2, <2>3, <2>4, StampsKept
<1> QED
  BY <1>2 DEF StampsInv

\* Between the pairs of the others all the records are clean: an anchor sends
\* what it has heard, never half of it.
LEMMA BeforeSend ==
    ASSUME IInv, NEW n \in Anchors, StampInv(n), rxPc[n] = "idle", \A s \in Anchors \ {n} : ~Middle(s)
    PROVE  \A k \in 0..1 : Clean(infos[n][k])
<1>1. src_parity[n] \in 0..1
  BY DEF IInv, TypeOK
<1>2. ~HalfDone(n)
  BY DEF HalfDone, Awaits, Handles
<1>3. Clean(Current(n)) /\ Clean(Other(n))
  BY <1>2 DEF StampInv, Recorded
<1>4. ASSUME NEW k \in 0..1 PROVE k = src_parity[n] \/ k = 1 - src_parity[n]
  BY <1>1
<1> QED
  BY <1>3, <1>4 DEF Current, Other

LEMMA ZeroClean ==
    ASSUME NEW k \in 0..1 PROVE Clean(ZeroInfos[k])
BY DEF ZeroInfos, Clean

LEMMA StampsPower ==
    ASSUME AllHeard, IInv, NetInv, StampsInv, NEW n \in Anchors, Boot(n) \/ PowerOff(n)
    PROVE  StampsInv'
<1>1. Next /\ ~Land /\ StampInv(n)
  <2>1. Land => \E s \in Anchors : air[s] # {} /\ s \in on
    BY LandKeeps, AirTime DEF AllHeard
  <2>2. Land => on' = on
    BY DEF Land
  <2>3. ~Land
    BY <2>2 DEF Boot, PowerOff, IInv, TypeOK
  <2> QED
    BY <2>3 DEF Next, StampsInv
<1>2. \A s \in Anchors : Middle(s)' <=> Middle(s)
  BY <1>1, MiddleSteps
<1>3. CASE Boot(n)
  <2>1. /\ n \notin on /\ rxPc[n] = "idle" /\ state[n] = "DISCOVERY" /\ air[n] = {} /\ ~rxJoin[n]
        /\ UNCHANGED <<state, superframe_id, infos, src_parity, old_src_id, rxOn, air, rxPc, rxMsg, rxCap, rxJoin,
                       counter, cc0, cc1, compensation, due>>
        /\ on' = on \cup {n}
    BY <1>3 DEF Boot, IInv, AnchorInv, OffIdle, Joining, NetInv, OrderInv
  <2>2. \A m \in Anchors \ {n} : Kept(m) /\ SameRecords(m)
    BY <2>1 DEF Kept, Untouched, SameRecords
  <2>3. SameRecords(n) /\ ~Member(n)'
    BY <2>1 DEF SameRecords, Member
  <2>4. StampInv(n)'
    BY <1>1, <1>2, <2>1, <2>3, StampsKept
  <2> QED
    BY <1>1, <2>2, <2>4, StampsOthers
<1>4. CASE PowerOff(n)
  <2>1. /\ n \notin on' /\ infos'[n] = ZeroInfos /\ src_parity'[n] = 1 /\ rxPc'[n] = "idle" /\ air'[n] = {}
        /\ \A m \in Anchors \ {n} : Kept(m) /\ SameRecords(m)
    BY <1>4 DEF PowerOff, Kept, Untouched, SameRecords, IInv, TypeOK
  <2>2. Current(n)' = ZeroInfos[1] /\ Other(n)' = ZeroInfos[0]
    BY <2>1 DEF Current, Other
  <2>3. Clean(Current(n)') /\ Clean(Other(n)')
    BY <2>2, ZeroClean, 0 \in 0..1, 1 \in 0..1
  <2>4. StampInv(n)'
    BY <2>1, <2>3 DEF StampInv, Recorded, Chosen, Unused, Member
  <2> QED
    BY <1>1, <2>1, <2>4, StampsOthers
<1> QED
  BY <1>3, <1>4

LEMMA StampsTick ==
    ASSUME AllHeard, IInv, NetInv, StampsInv, Tick
    PROVE  StampsInv'
<1>1. Next /\ ~Land
  BY DEF Next, Tick, Land
<1>2. \A s \in Anchors : Middle(s)' <=> Middle(s)
  BY <1>1, MiddleSteps
<1>3. ASSUME NEW n \in Anchors PROVE StampInv(n)'
  <2>1. /\ UNCHANGED <<on, state, infos, src_parity, old_src_id, rxPc, rxMsg, rxJoin>>
        /\ air'[n] = {[f EXCEPT !.left = @ - 1] : f \in air[n]}
    BY DEF Tick
  <2>2. SameRecords(n) /\ (Member(n)' => Member(n)) /\ StampInv(n)
    BY <2>1 DEF SameRecords, Member, StampsInv
  <2>3. \A g \in air'[n] : \A k \in 0..1 : Clean(g.anchors[k])
    <3> SUFFICES ASSUME NEW f \in air[n], NEW g, g = [f EXCEPT !.left = @ - 1]
                 PROVE  \A k \in 0..1 : Clean(g.anchors[k])
      BY <2>1
    <3>1. g.anchors = f.anchors
      BY DEF IInv, TypeOK, Frame
    <3> QED
      BY <2>2, <3>1 DEF StampInv
  <2> QED
    BY <1>2, <2>1, <2>2, <2>3, StampsKept
<1> QED
  BY <1>3 DEF StampsInv

\* Nobody else is between its two messages when a slot begins.
LEMMA NoneBetween ==
    ASSUME IInv, NetInv, NEW n \in Anchors, NEW p \in 0..1, Now = SlotOf(n, p)
    PROVE  \A s \in Anchors \ {n} : ~Middle(s)
<1>1. FirstSlot(n) <= Now /\ Now <= SecondSlot(n) + PREFIX
  BY Slots DEF SlotOf
<1> QED
  BY <1>1, MiddleTime

\* The interrupts of one anchor are no step of the channel.
LEMMA NoLand ==
    ASSUME OrderlyNetwork, IInv, NetInv, NEW n \in Anchors, TimerIsr(n) \/ RxIsr(n)
    PROVE  Next /\ ~Land
<1>1. CASE TimerFirst(n) \/ TimerSecond(n) \/ SfNext(n)
  <2>1. state'[n] # state[n]
    BY <1>1 DEF TimerFirst, TimerSecond, SfNext, IInv, TypeOK
  <2> QED
    BY <2>1 DEF Land, Next
<1>2. CASE SfDiscovery(n)
  <2>1. counter[n] = SF /\ SF > 0
    BY <1>2, EndsTogether DEF SfDiscovery
  <2>2. counter'[n] = 0
    BY <1>2 DEF SfDiscovery, RestartFrameTimer, IInv, TypeOK
  <2>3. counter'[n] # counter[n]
    BY <2>1, <2>2, Slots
  <2> QED
    BY <2>3 DEF Land, Next
<1>3. CASE RxIsr(n)
  <2>1. rxPc[n] # "idle"
    BY <1>3 DEF RxIsr, RxJoin, RxSync, RxIgnored, RxCapture, RxCompensate, RxProgram, RxAdopt, RxRecord, RxStamp
  <2>2. \A m \in Anchors : air[m] = {}
    BY <2>1, RxTime
  <2> QED
    BY <2>2 DEF Land, Landing, Next
<1> QED
  BY <1>1, <1>2, <1>3, SfUnfinishedNever DEF TimerIsr, Next

LEMMA StampsTimerFirst ==
    ASSUME AllHeard, IInv, NetInv, StampsInv, NEW n \in Anchors, TimerFirst(n)
    PROVE  StampsInv'
<1>1. OrderlyNetwork /\ Next /\ ~Land /\ StampInv(n)
  BY NoLand DEF AllHeard, TimerIsr, StampsInv
<1>2. /\ Now = FirstSlot(n) /\ Now = SlotOf(n, 0) /\ rxPc[n] = "idle"
      /\ \A s \in Anchors \ {n} : ~Middle(s)
  <2>1. Now = FirstSlot(n) /\ Now = SlotOf(n, 0)
    BY <1>1, TimerFirstKeeps DEF SlotOf
  <2> QED
    BY <2>1, SlotBegins, NoneBetween, 0 \in 0..1
<1>3. /\ infos' = infos /\ UNCHANGED <<on, src_parity, old_src_id, superframe_id, rxPc, rxMsg, rxCap, rxJoin>>
      /\ state[n] = "WAITING_FIRST" /\ state' = [state EXCEPT ![n] = "WAITING_SECOND"]
      /\ UNCHANGED <<counter, cc1, compensation>>
      /\ TransmitAnchorMsg(n, 0, superframe_id[n])
      /\ SetFrameTimer(n, SecondSlot(n), compensation[n], counter[n], due[n] \ {"timer"})
  BY DEF TimerFirst, TransmitAnchorMsg
<1>4. /\ \A m \in Anchors \ {n} : air'[m] = air[m] /\ rxOn'[m] = rxOn[m]
      /\ \A f \in air'[n] : f.anchors = infos[n]
  BY <1>3, Sends, 0 \in 0..1
<1>5. /\ \A m \in Anchors \ {n} : cc0'[m] = cc0[m] /\ due'[m] = due[m]
  BY <1>3 DEF SetFrameTimer
<1>6. \A m \in Anchors \ {n} : Kept(m) /\ SameRecords(m)
  BY <1>3, <1>4, <1>5 DEF Kept, Untouched, SameRecords, IInv, TypeOK
<1>7. SameRecords(n) /\ ~Member(n)' /\ state'[n] # "DISCOVERY"
  BY <1>3 DEF SameRecords, Member, IInv, TypeOK
<1>8. \A f \in air'[n] : \A k \in 0..1 : Clean(f.anchors[k])
  BY <1>1, <1>2, <1>4, BeforeSend
<1>9. \A s \in Anchors : Middle(s)' <=> Middle(s)
  BY <1>1, MiddleSteps
<1>10. StampInv(n)'
  BY <1>1, <1>3, <1>7, <1>8, <1>9, StampsKept
<1> QED
  BY <1>1, <1>6, <1>10, StampsOthers

LEMMA StampsTimerSecond ==
    ASSUME AllHeard, IInv, NetInv, StampsInv, NEW n \in Anchors, TimerSecond(n)
    PROVE  StampsInv'
<1>1. OrderlyNetwork /\ Next /\ ~Land /\ StampInv(n)
  BY NoLand DEF AllHeard, TimerIsr, StampsInv
<1>2. /\ Now = SlotOf(n, 1) /\ rxPc[n] = "idle"
      /\ \A s \in Anchors \ {n} : ~Middle(s)
  <2>1. Now = SlotOf(n, 1)
    BY <1>1, TimerSecondKeeps DEF SlotOf
  <2> QED
    BY <2>1, SlotBegins, NoneBetween, 1 \in 0..1
<1>3. /\ infos' = [infos EXCEPT ![n] = ZeroInfos]
      /\ UNCHANGED <<on, src_parity, old_src_id, superframe_id, rxPc, rxMsg, rxCap, rxJoin>>
      /\ state[n] = "WAITING_SECOND" /\ state' = [state EXCEPT ![n] = "WAITING_NEXT_SF"]
      /\ UNCHANGED <<counter, cc0, cc1, compensation>>
      /\ \A m \in Anchors \ {n} : due'[m] = due[m]
      /\ TransmitAnchorMsg(n, 1, superframe_id[n])
  BY DEF TimerSecond, TransmitAnchorMsg
<1>4. /\ \A m \in Anchors \ {n} : air'[m] = air[m] /\ rxOn'[m] = rxOn[m]
      /\ \A f \in air'[n] : f.anchors = infos[n]
  BY <1>3, Sends, 1 \in 0..1
<1>5. infos'[n] = ZeroInfos /\ \A m \in Anchors \ {n} : infos'[m] = infos[m]
  BY <1>3 DEF IInv, TypeOK
<1>6. \A m \in Anchors \ {n} : Kept(m) /\ SameRecords(m)
  BY <1>3, <1>4, <1>5 DEF Kept, Untouched, SameRecords, IInv, TypeOK
<1>7. \A f \in air'[n] : \A k \in 0..1 : Clean(f.anchors[k])
  BY <1>1, <1>2, <1>4, BeforeSend
<1>8. \A s \in Anchors : Middle(s)' <=> Middle(s)
  BY <1>1, MiddleSteps
<1>9. Clean(Current(n)') /\ Clean(Other(n)')
  <2>1. src_parity'[n] \in 0..1 /\ 1 - src_parity'[n] \in 0..1
    BY <1>3 DEF IInv, TypeOK
  <2> QED
    BY <1>5, <2>1, ZeroClean DEF Current, Other
<1>10. \A s \in Anchors \ {n} : ~Awaits(n, s)'
  BY <1>2, <1>3, <1>8 DEF Awaits, Handles
<1>11. StampInv(n)'
  BY <1>2, <1>3, <1>7, <1>9, <1>10 DEF StampInv, Recorded, Chosen, Unused
<1> QED
  BY <1>1, <1>6, <1>11, StampsOthers

LEMMA StampsSuperframe ==
    ASSUME AllHeard, IInv, NetInv, StampsInv, NEW n \in Anchors,
           SfDiscovery(n) \/ (n # 0 /\ SfNext(n))
    PROVE  StampsInv'
<1>1. OrderlyNetwork /\ Next /\ ~Land /\ StampInv(n)
  BY NoLand DEF AllHeard, TimerIsr, StampsInv
<1>2. /\ air' = air /\ rxOn' = rxOn
      /\ UNCHANGED <<on, infos, src_parity, old_src_id, rxPc, rxMsg, rxCap, rxJoin>>
      /\ \A m \in Anchors \ {n} :
           /\ state'[m] = state[m] /\ superframe_id'[m] = superframe_id[m] /\ counter'[m] = counter[m]
           /\ cc0'[m] = cc0[m] /\ cc1'[m] = cc1[m] /\ compensation'[m] = compensation[m] /\ due'[m] = due[m]
      /\ state'[n] = "DISCOVERY" => state[n] = "DISCOVERY"
      /\ Member(n)' => Member(n) \/ SfDiscovery(n)
  <2>1. CASE SfDiscovery(n)
    BY <2>1 DEF SfDiscovery, RestartFrameTimer, IInv, TypeOK
  <2>2. CASE n # 0 /\ SfNext(n)
    BY <2>2 DEF SfNext, RestartFrameTimer, SetFrameTimer, IInv, TypeOK, Member
  <2> QED
    BY <2>1, <2>2
<1>3. \A m \in Anchors \ {n} : Kept(m) /\ SameRecords(m)
  BY <1>2 DEF Kept, Untouched, SameRecords
<1>4. SfDiscovery(n) => \A s \in Anchors \ {n} : ~Awaits(n, s)
  <2> SUFFICES ASSUME SfDiscovery(n) PROVE \A s \in Anchors \ {n} : ~Awaits(n, s)
    OBVIOUS
  <2>1. /\ Now \in {0, SF} /\ state[n] = "DISCOVERY" /\ Founds(n) /\ SF > 0
        /\ state[0] \in {"DISCOVERY", "WAITING_NEXT_SF"} /\ rxPc[n] = "idle"
    BY EndsTogether DEF SfDiscovery, Founds
  <2>2. \A m \in Anchors : air[m] = {}
    <3>1. SF \in Nat /\ PREFIX \in Nat
      BY Slots
    <3>2. \A m \in Anchors \ {0} : air[m] = {}
      BY <2>1, ZeroClock
    <3>3. air[0] = {}
      <4> SUFFICES ASSUME NEW f \in air[0] PROVE FALSE
        BY Slots
      <4>1. /\ f.parity \in 0..1 /\ f.left \in 0..PREFIX /\ Now = SlotOf(0, f.parity) + PREFIX - f.left
            /\ SlotOf(0, f.parity) + PREFIX < SF
        BY AirTime, Slots DEF SlotOf
      <4>2. state[0] = IF f.parity = 0 THEN "WAITING_SECOND" ELSE "WAITING_NEXT_SF"
        BY Slots DEF NetInv, OrderInv, OnAir
      <4>3. f.parity = 1
        BY <2>1, <4>1, <4>2
      <4> QED
        BY <2>1, <4>1, <4>3, Slots DEF SlotOf
    <3> QED
      BY <3>2, <3>3
  <2>3. ASSUME NEW s \in Anchors, Middle(s) PROVE FALSE
    <3>1. Now \in Nat /\ FirstSlot(s) <= Now /\ Now <= SecondSlot(s) /\ state[s] = "WAITING_SECOND"
      BY <2>2, <2>3, MiddleTime
    <3>2. FirstSlot(s) \in Nat /\ SecondSlot(s) \in Nat /\ SF \in Nat /\ SecondSlot(s) < SF /\ (s # 0 => FirstSlot(s) > 0)
      BY Slots
    <3> QED
      BY <2>1, <3>1, <3>2
  <2> QED
    BY <2>1, <2>3 DEF Awaits, Handles
<1>5. \A s \in Anchors : Middle(s)' <=> Middle(s)
  BY <1>1, MiddleSteps
<1>6. StampInv(n)'
  <2>1. SameRecords(n)
    BY <1>2 DEF SameRecords
  <2>2. \A f \in air'[n] : \A k \in 0..1 : Clean(f.anchors[k])
    BY <1>1, <1>2 DEF StampInv
  <2> QED
    BY <1>1, <1>2, <1>4, <1>5, <2>1, <2>2, StampsKept
<1> QED
  BY <1>1, <1>3, <1>6, StampsOthers

LEMMA StampsSuperframeZero ==
    ASSUME AllHeard, IInv, NetInv, StampsInv, SfNext(0)
    PROVE  StampsInv'
<1>1. OrderlyNetwork /\ Next /\ ~Land /\ StampInv(0) /\ 0 \in Anchors
  <2>1. OrderlyNetwork /\ 0 \in Anchors
    BY ZeroClock DEF AllHeard
  <2> QED
    BY <2>1, NoLand DEF TimerIsr, StampsInv
<1>2. /\ Now = SF /\ SF \in Nat /\ rxPc[0] = "idle"
      /\ \A s \in Anchors : air[s] = {}
  BY <1>1, SfNextZero, ZeroClock, Slots
<1>3. \A s \in Anchors : ~Middle(s)
  <2> SUFFICES ASSUME NEW s \in Anchors, Middle(s) PROVE FALSE
    OBVIOUS
  <2> QED
    BY <1>2, MiddleTime, Slots
<1>4. /\ infos' = infos /\ UNCHANGED <<on, src_parity, old_src_id, rxPc, rxMsg, rxCap, rxJoin>>
      /\ state[0] = "WAITING_NEXT_SF" /\ state' = [state EXCEPT ![0] = "WAITING_SECOND"]
      /\ counter' = [counter EXCEPT ![0] = 0] /\ cc1' = [cc1 EXCEPT ![0] = SF]
      /\ compensation' = [compensation EXCEPT ![0] = 0]
      /\ superframe_id' = [superframe_id EXCEPT ![0] = NextId(@)]
      /\ TransmitAnchorMsg(0, 0, NextId(superframe_id[0]))
      /\ \A m \in Anchors \ {0} : cc0'[m] = cc0[m] /\ due'[m] = due[m]
  <2>1. /\ UNCHANGED <<on, rxPc, rxMsg, rxCap, rxJoin>>
        /\ state[0] = "WAITING_NEXT_SF" /\ state' = [state EXCEPT ![0] = "WAITING_SECOND"]
        /\ counter' = [counter EXCEPT ![0] = 0] /\ cc1' = [cc1 EXCEPT ![0] = SF]
        /\ compensation' = [compensation EXCEPT ![0] = 0]
        /\ superframe_id' = [superframe_id EXCEPT ![0] = NextId(@)]
        /\ TransmitAnchorMsg(0, 0, NextId(superframe_id[0]))
        /\ SetFrameTimer(0, SLOT, 0, 0, {})
    BY DEF SfNext, RestartFrameTimer
  <2>2. infos' = infos /\ UNCHANGED <<src_parity, old_src_id>>
    BY <2>1 DEF TransmitAnchorMsg
  <2>3. \A m \in Anchors \ {0} : cc0'[m] = cc0[m] /\ due'[m] = due[m]
    BY <2>1 DEF SetFrameTimer
  <2> QED
    BY <2>1, <2>2, <2>3
<1>5. /\ \A m \in Anchors \ {0} : air'[m] = air[m] /\ rxOn'[m] = rxOn[m]
      /\ \A f \in air'[0] : f.anchors = infos[0]
  BY <1>1, <1>4, Sends, 0 \in 0..1
<1>6. \A m \in Anchors \ {0} : Kept(m) /\ SameRecords(m)
  BY <1>4, <1>5 DEF Kept, Untouched, SameRecords, IInv, TypeOK
<1>7. SameRecords(0) /\ ~Member(0)' /\ state'[0] # "DISCOVERY"
  BY <1>1, <1>4 DEF SameRecords, Member, IInv, TypeOK
<1>8. \A f \in air'[0] : \A k \in 0..1 : Clean(f.anchors[k])
  BY <1>1, <1>2, <1>3, <1>5, BeforeSend
<1>9. \A s \in Anchors : Middle(s)' <=> Middle(s)
  BY <1>1, MiddleSteps
<1>10. StampInv(0)'
  BY <1>1, <1>4, <1>7, <1>8, <1>9, StampsKept
<1> QED
  BY <1>1, <1>6, <1>10, StampsOthers

\* While a message is handled the only pair that can be half over is its
\* sender's, after the first message.
LEMMA RxMiddle ==
    ASSUME IInv, NetInv, NEW n \in Anchors, rxPc[n] # "idle", NEW s \in Anchors
    PROVE  Middle(s) <=> s = rxMsg[n].src /\ rxMsg[n].parity = 0
<1>1. /\ rxMsg[n].src \in Anchors /\ rxMsg[n].parity \in 0..1 /\ Receives(n)
      /\ Now \in Nat /\ FirstSlot(rxMsg[n].src) <= Now /\ Now <= SecondSlot(rxMsg[n].src) + PREFIX
      /\ Now = SlotOf(rxMsg[n].src, rxMsg[n].parity) + PREFIX /\ 0 < PREFIX /\ PREFIX \in Nat
      /\ \A m \in Anchors : air[m] = {}
  BY RxTime, Slots
<1>2. ASSUME Middle(s) PROVE s = rxMsg[n].src /\ rxMsg[n].parity = 0
  <2>1. s = rxMsg[n].src /\ Now <= SecondSlot(s)
    BY <1>1, <1>2, MiddleTime
  <2>2. rxMsg[n].parity # 1
    BY <1>1, <2>1, Slots DEF SlotOf
  <2> QED
    BY <1>1, <2>1, <2>2
<1>3. ASSUME s = rxMsg[n].src, rxMsg[n].parity = 0 PROVE Middle(s)
  BY <1>1, <1>3 DEF Receives, Middle
<1> QED
  BY <1>2, <1>3

\* What the steps of the radio's interrupt have in common here.
LEMMA RxAlone ==
    ASSUME AllHeard, IInv, NetInv, StampsInv, NEW n \in Anchors, RxIsr(n)
    PROVE  /\ OrderlyNetwork /\ Next /\ ~Land /\ StampInv(n) /\ rxPc[n] # "idle" /\ n \in on
           /\ rxMsg[n].src \in Anchors \ {n} /\ rxMsg[n].parity \in 0..1
           /\ air' = air /\ on' = on /\ \A m \in Anchors : air'[m] = {}
           /\ \A m \in Anchors \ {n} : Kept(m) /\ SameRecords(m)
           /\ \A s \in Anchors : Middle(s)' <=> s = rxMsg[n].src /\ rxMsg[n].parity = 0
<1>1. OrderlyNetwork /\ Next /\ ~Land /\ StampInv(n)
  BY NoLand DEF AllHeard, StampsInv
<1>2. rxPc[n] # "idle"
  BY DEF RxIsr, RxJoin, RxSync, RxIgnored, RxCapture, RxCompensate, RxProgram, RxAdopt, RxRecord, RxStamp
<1>3. n \in on /\ rxMsg[n].src \in Anchors \ {n} /\ rxMsg[n].parity \in 0..1 /\ \A m \in Anchors : air[m] = {}
  BY <1>2, RxTime
<1>4. air' = air /\ on' = on
  BY DEF RxIsr, RxJoin, RxSync, RxIgnored, RxCapture, RxCompensate, RxProgram, RxAdopt, RxRecord, RxStamp, RxGoto, RxDone
<1>5. \A m \in Anchors \ {n} : Kept(m) /\ SameRecords(m)
  <2>1. CASE RxJoin(n) \/ RxSync(n) \/ RxCapture(n) \/ RxRecord(n) \/ RxCompensate(n) \/ RxProgram(n)
    BY <2>1 DEF RxJoin, RxSync, RxCapture, RxRecord, RxCompensate, RxProgram, RxGoto, Kept, Untouched, SameRecords, IInv, TypeOK
  <2>2. CASE RxIgnored(n) \/ RxAdopt(n) \/ RxStamp(n)
    BY <2>2 DEF RxIgnored, RxAdopt, RxStamp, RxDone, Kept, Untouched, SameRecords, IInv, TypeOK
  <2> QED
    BY <2>1, <2>2 DEF RxIsr
<1>6. \A s \in Anchors : Middle(s)' <=> s = rxMsg[n].src /\ rxMsg[n].parity = 0
  BY <1>1, <1>2, MiddleSteps, RxMiddle
<1> QED
  BY <1>1, <1>2, <1>3, <1>4, <1>5, <1>6

LEMMA StampsRxQuiet ==
    ASSUME AllHeard, IInv, NetInv, StampsInv, NEW n \in Anchors,
           RxJoin(n) \/ RxSync(n) \/ RxCapture(n) \/ RxCompensate(n) \/ RxProgram(n)
    PROVE  StampsInv'
<1>1. RxIsr(n)
  BY DEF RxIsr
<1>2. /\ Next /\ ~Land /\ StampInv(n) /\ n \in on' /\ air'[n] = {}
      /\ \A m \in Anchors \ {n} : Kept(m) /\ SameRecords(m)
  BY <1>1, RxAlone
<1>3. /\ SameRecords(n) /\ rxMsg'[n] = rxMsg[n]
      /\ rxPc'[n] \notin {"idle", "stamp"} /\ rxPc[n] \notin {"idle", "stamp"}
  BY DEF RxJoin, RxSync, RxCapture, RxCompensate, RxProgram, RxGoto, SameRecords, IInv, TypeOK
<1>4. /\ Member(n)' => Member(n)
      /\ state'[n] = "DISCOVERY" \/ rxJoin'[n] => state[n] = "DISCOVERY" \/ rxJoin[n]
  <2>1. CASE RxJoin(n)
    BY <2>1 DEF RxJoin, Member, IInv, TypeOK
  <2>2. CASE RxSync(n) \/ RxCapture(n) \/ RxCompensate(n) \/ RxProgram(n)
    BY <2>2 DEF RxSync, RxCapture, RxCompensate, RxProgram, RxGoto, Member
  <2> QED
    BY <2>1, <2>2
<1>5. \A s \in Anchors : Middle(s)' <=> Middle(s)
  BY <1>2, MiddleSteps
<1>6. StampInv(n)'
  BY <1>2, <1>3, <1>4, <1>5, StampsKept
<1> QED
  BY <1>2, <1>6, StampsOthers

\* Who has joined on a second message finds the air quiet: nobody is between
\* its messages when it begins to listen.
LEMMA StampsRxAdopt ==
    ASSUME AllHeard, IInv, NetInv, StampsInv, NEW n \in Anchors, RxAdopt(n)
    PROVE  StampsInv'
<1>1. RxIsr(n)
  BY DEF RxIsr
<1>2. /\ Next /\ ~Land /\ StampInv(n) /\ rxPc[n] # "idle" /\ air'[n] = {}
      /\ \A m \in Anchors \ {n} : Kept(m) /\ SameRecords(m)
      /\ \A s \in Anchors : Middle(s)' <=> s = rxMsg[n].src /\ rxMsg[n].parity = 0
  BY <1>1, RxAlone
<1>3. rxJoin[n] /\ rxMsg[n].parity = 1
  BY <1>2, RxTime DEF RxAdopt, IInv, AnchorInv, Joining, Receives
<1>4. rxPc'[n] = "idle" /\ SameRecords(n)
  BY DEF RxAdopt, RxDone, SameRecords, IInv, TypeOK
<1>5. Current(n)' = Current(n) /\ Other(n)' = Other(n)
  BY <1>4 DEF SameRecords, Current, Other
<1>6. Clean(Current(n)) /\ Clean(Other(n))
  BY <1>2, <1>3 DEF StampInv, Unused
<1>7. Clean(Current(n)') /\ Clean(Other(n)')
  BY <1>5, <1>6
<1>8. \A s \in Anchors : ~Awaits(n, s)'
  BY <1>2, <1>3, <1>4 DEF Awaits, Handles
<1>9. StampInv(n)'
  BY <1>2, <1>4, <1>7, <1>8 DEF StampInv, Recorded, Chosen, Unused
<1> QED
  BY <1>2, <1>9, StampsOthers

\* The record for a message: the first one of a pair takes the other record
\* unless the last message was its sender's, the second one keeps it.
LEMMA StampsRxRecord ==
    ASSUME AllHeard, IInv, NetInv, StampsInv, NEW n \in Anchors, RxRecord(n)
    PROVE  StampsInv'
<1> DEFINE s == rxMsg[n].src
           p == rxMsg[n].parity
           q == src_parity[n]
<1>1. RxIsr(n)
  BY DEF RxIsr
<1>2. /\ Next /\ ~Land /\ StampInv(n) /\ rxPc[n] # "idle" /\ n \in on /\ s \in Anchors \ {n} /\ p \in 0..1
      /\ air'[n] = {} /\ \A m \in Anchors \ {n} : Kept(m) /\ SameRecords(m)
      /\ \A t \in Anchors : Middle(t)' <=> t = s /\ p = 0
  BY <1>1, RxAlone
<1>3. /\ rxPc[n] \in {"record", "event"} /\ ~rxJoin[n] /\ state[n] \in {"WAITING_NEXT_SF", "WAITING_FIRST"}
  BY <1>2, RxTime DEF RxRecord, Receives, IInv, AnchorInv, Joining
<1>4. Member(n) /\ Handles(n, s, p) /\ \A t \in Anchors : Awaits(n, t) => t = s
  BY <1>2, <1>3, RxMiddle DEF Member, Handles, Awaits
<1>5. p = 1 => old_src_id[n] = s /\ Current(n).src = s
  BY <1>2, <1>4 DEF StampInv, Chosen, Awaits, Handles
<1>6. /\ rxPc'[n] = "stamp" /\ rxMsg'[n] = rxMsg[n] /\ old_src_id'[n] = s
      /\ state'[n] = state[n] /\ rxJoin'[n] = rxJoin[n]
  BY DEF RxRecord, RxGoto, IInv, TypeOK
<1>7. q \in 0..1 /\ infos \in [Anchors -> [0..1 -> Info]] /\ src_parity \in [Anchors -> 0..1]
  BY DEF IInv, TypeOK
<1>8. Clean(Current(n)) \/ HalfDone(n)
  BY <1>2, <1>3 DEF StampInv, Recorded
<1>9. /\ Current(n)'.src = s /\ Clean(Other(n)')
      /\ p = 1 => Current(n)'.ts[0] \in {Zeroed, s}
  <2>1. CASE old_src_id[n] = s
    <3>1. src_parity'[n] = q /\ infos'[n] = [infos[n] EXCEPT ![q].src = s]
      BY <1>7, <2>1 DEF RxRecord
    <3>2. infos[n][q] \in Info /\ 1 - q \in 0..1 /\ 1 - q # q
      BY <1>7
    <3>3. infos'[n][q] = [infos[n][q] EXCEPT !.src = s] /\ infos'[n][1 - q] = infos[n][1 - q]
      BY <1>7, <3>1, <3>2
    <3>4. Current(n)' = [Current(n) EXCEPT !.src = s] /\ Other(n)' = Other(n) /\ Current(n) \in Info
      BY <3>1, <3>2, <3>3 DEF Current, Other
    <3>5. Current(n)'.src = s /\ Current(n)'.ts = Current(n).ts
      BY <3>4 DEF Info
    <3>6. p = 1 => Current(n).ts[0] \in {Zeroed, s}
      BY <1>5, <1>8, <2>1, 0 \in 0..1 DEF Clean, HalfDone
    <3> QED
      BY <1>2, <3>4, <3>5, <3>6 DEF StampInv
  <2>2. CASE old_src_id[n] # s
    <3>1. p = 0 /\ Clean(Current(n))
      BY <1>2, <1>4, <1>5, <1>8, <2>2 DEF HalfDone
    <3>2. src_parity'[n] = 1 - q /\ infos'[n] = [infos[n] EXCEPT ![1 - q].src = s]
      BY <1>7, <2>2 DEF RxRecord
    <3>3. infos[n][1 - q] \in Info /\ 1 - q \in 0..1 /\ 1 - q # q /\ 1 - (1 - q) = q
      BY <1>7
    <3>4. infos'[n][1 - q] = [infos[n][1 - q] EXCEPT !.src = s] /\ infos'[n][q] = infos[n][q]
      BY <1>7, <3>2, <3>3
    <3>5. Current(n)' = [Other(n) EXCEPT !.src = s] /\ Other(n)' = Current(n) /\ Other(n) \in Info
      BY <3>2, <3>3, <3>4 DEF Current, Other
    <3> QED
      BY <3>1, <3>5 DEF Info
  <2> QED
    BY <2>1, <2>2
<1>10. Recorded(n)'
  BY <1>6, <1>9 DEF Recorded
<1>11. Chosen(n)'
  <2>1. \A t \in Anchors : Awaits(n, t)' => t = s
    BY <1>2, <1>6 DEF Awaits, Handles
  <2> QED
    BY <1>6, <1>9, <2>1 DEF Chosen
<1>12. StampInv(n)'
  BY <1>2, <1>3, <1>6, <1>9, <1>10, <1>11 DEF StampInv, Unused
<1> QED
  BY <1>2, <1>12, StampsOthers

\* The stamp goes into the record that was chosen: complete after a second
\* message, half done after a first one.
LEMMA StampsRxStamp ==
    ASSUME AllHeard, IInv, NetInv, StampsInv, NEW n \in Anchors, RxStamp(n)
    PROVE  StampsInv'
<1> DEFINE s == rxMsg[n].src
           p == rxMsg[n].parity
           q == src_parity[n]
<1>1. RxIsr(n)
  BY DEF RxIsr
<1>2. /\ Next /\ ~Land /\ StampInv(n) /\ rxPc[n] # "idle" /\ n \in on /\ n \in on'
      /\ s \in Anchors \ {n} /\ p \in 0..1
      /\ air'[n] = {} /\ \A m \in Anchors \ {n} : Kept(m) /\ SameRecords(m)
      /\ \A t \in Anchors : Middle(t)' <=> t = s /\ p = 0
  BY <1>1, RxAlone
<1>3. /\ old_src_id[n] = s /\ Current(n).src = s
      /\ p = 1 => Current(n).ts[0] \in {Zeroed, s}
  BY <1>2 DEF RxStamp, StampInv, Recorded
<1>4. rxPc'[n] = "idle" /\ old_src_id'[n] = s /\ state'[n] = state[n] /\ ~rxJoin'[n] /\ state[n] # "DISCOVERY"
  BY <1>2, <1>3, RxClock DEF RxStamp, RxDone, IInv, TypeOK
<1>5. q \in 0..1 /\ infos \in [Anchors -> [0..1 -> Info]]
  BY DEF IInv, TypeOK
<1>6. src_parity'[n] = q /\ infos'[n] = [infos[n] EXCEPT ![q].ts[p] = s]
  BY <1>5 DEF RxStamp
<1>7. infos[n][q] \in Info /\ 1 - q \in 0..1 /\ 1 - q # q
  BY <1>5
<1>8. infos'[n][q] = [infos[n][q] EXCEPT !.ts[p] = s] /\ infos'[n][1 - q] = infos[n][1 - q]
  BY <1>5, <1>6, <1>7
<1>9. Current(n)' = [Current(n) EXCEPT !.ts[p] = s] /\ Other(n)' = Other(n) /\ Current(n) \in Info
  BY <1>6, <1>7, <1>8 DEF Current, Other
<1>10. /\ Current(n)'.src = s /\ Current(n)'.ts[p] = s
       /\ \A j \in 0..1 : j # p => Current(n)'.ts[j] = Current(n).ts[j]
  BY <1>2, <1>3, <1>9 DEF Info
<1>11. Recorded(n)'
  <2>1. CASE p = 0
    <3>1. PICK t \in Anchors \ {n} : t = s
      BY <1>2
    <3>2. Awaits(n, t)'
      BY <1>2, <2>1, <3>1 DEF Awaits
    <3>3. HalfDone(n)'
      BY <1>2, <1>4, <1>10, <2>1, <3>1, <3>2 DEF HalfDone
    <3> QED
      BY <1>4, <3>3 DEF Recorded
  <2>2. CASE p = 1
    <3>1. \A j \in 0..1 : Current(n)'.ts[j] \in {Zeroed, s}
      BY <1>3, <1>10, <2>2
    <3>2. Clean(Current(n)')
      BY <1>10, <3>1 DEF Clean
    <3> QED
      BY <1>4, <3>2 DEF Recorded
  <2> QED
    BY <1>2, <2>1, <2>2
<1>12. Chosen(n)'
  <2>1. \A t \in Anchors : Awaits(n, t)' => t = s
    BY <1>2, <1>4 DEF Awaits, Handles
  <2> QED
    BY <1>4, <1>10, <2>1 DEF Chosen
<1>13. Clean(Other(n)')
  BY <1>2, <1>9 DEF StampInv
<1>14. StampInv(n)'
  BY <1>2, <1>4, <1>11, <1>12, <1>13 DEF StampInv, Unused
<1> QED
  BY <1>2, <1>14, StampsOthers

\* How a frame lands when every message is heard.
LEMMA Lands ==
    ASSUME AllHeard, IInv, NetInv, Land
    PROVE  \E s \in Anchors, p \in 0..1 :
             /\ s \in on /\ Now \in Nat /\ Now = SlotOf(s, p) + PREFIX
             /\ Middle(s) <=> p = 1
             /\ \A m \in Anchors \ {s} : air[m] = {}
             /\ \A t \in Anchors : FirstSlot(t) <= Now /\ Now <= SecondSlot(t) + PREFIX => t = s
             /\ \A n \in Anchors : /\ rxPc[n] = "idle" /\ rxPc'[n] \in {"idle", "event"}
                                   /\ rxPc'[n] = "event" => rxMsg'[n].src = s /\ rxMsg'[n].parity = p
                                   /\ n # s /\ n \in on => rxPc'[n] = "event"
             /\ \A m \in Anchors : air'[m] = {}
             /\ UNCHANGED <<on, counter, state, infos, src_parity, old_src_id, rxJoin>>
<1>1. PICK s \in Anchors : \E f \in air[s] : f.left = 0
  BY DEF Land, Landing
<1>2. PICK f \in air[s] : f.left = 0
  BY <1>1
<1>3. /\ f.parity \in 0..1 /\ s \in on /\ Now \in Nat /\ Now = SlotOf(s, f.parity) + PREFIX
      /\ FirstSlot(s) <= Now /\ Now <= SecondSlot(s) + PREFIX
      /\ air[s] = {f} /\ FrameOf(s) = f
      /\ \A m \in Anchors \ {s} : air[m] = {}
      /\ \A m \in Anchors : rxPc[m] = "idle"
  <2>1. /\ f.parity \in 0..1 /\ s \in on /\ Now \in Nat /\ Now = SlotOf(s, f.parity) + PREFIX - f.left
        /\ FirstSlot(s) <= Now /\ Now <= SecondSlot(s) + PREFIX
        /\ air[s] = {f} /\ FrameOf(s) = f
        /\ \A m \in Anchors \ {s} : air[m] = {}
        /\ \A m \in Anchors : rxPc[m] = "idle"
    BY AirTime
  <2>2. SlotOf(s, f.parity) \in Nat /\ PREFIX \in Nat
    BY <2>1, Slots DEF SlotOf
  <2> QED
    BY <1>2, <2>1, <2>2
<1>4. Landing = {s}
  BY <1>1, <1>2, <1>3 DEF Landing
<1>5. PICK got \in [Listening -> Landing \cup {N}] :
         /\ \A n \in Listening : got[n] = N => \A t \in Landing : MayMiss(t)
         /\ rxPc' = [n \in Anchors |-> IF n \in Listening /\ got[n] # N THEN "event" ELSE rxPc[n]]
         /\ rxMsg' = [n \in Anchors |->
                        IF n \in Listening /\ got[n] # N
                        THEN [src |-> got[n], tr_id |-> FrameOf(got[n]).tr_id,
                              parity |-> FrameOf(got[n]).parity]
                        ELSE rxMsg[n]]
  BY DEF Land
<1>6. ~MayMiss(s)
  BY <1>3 DEF MayMiss, AllHeard
<1>7. ASSUME NEW t \in Anchors, FirstSlot(t) <= Now, Now <= SecondSlot(t) + PREFIX PROVE t = s
  BY <1>3, <1>7, Slots, OneOwner
<1>8. ASSUME NEW n \in Anchors, n # s, n \in on PROVE n \in Listening
  <2>1. state[n] # "WAITING_SECOND"
    <3> SUFFICES ASSUME state[n] = "WAITING_SECOND" PROVE FALSE
      OBVIOUS
    <3>1. FirstSlot(n) <= Now /\ Now <= SecondSlot(n)
      BY <1>8 DEF NetInv, OrderInv, InSecond
    <3> QED
      BY <1>3, <1>7, <1>8, <3>1, Slots
  <2> QED
    BY <1>3, <1>8, <2>1 DEF Listening, NetInv, OrderInv, Hears
<1>9. ASSUME NEW n \in Anchors
      PROVE  /\ rxPc'[n] \in {"idle", "event"}
             /\ rxPc'[n] = "event" => rxMsg'[n].src = s /\ rxMsg'[n].parity = f.parity
             /\ n # s /\ n \in on => rxPc'[n] = "event"
  <2>1. n \in Listening => got[n] = s
    BY <1>4, <1>5, <1>6
  <2>2. n \in Listening => s # N
    BY SizesAssumption DEF Anchors
  <2>3. n \in Listening => rxPc'[n] = "event" /\ rxMsg'[n] = [src |-> s, tr_id |-> f.tr_id, parity |-> f.parity]
    BY <1>3, <1>5, <2>1, <2>2
  <2>4. n \notin Listening => rxPc'[n] = "idle"
    BY <1>3, <1>5
  <2> QED
    BY <1>8, <2>3, <2>4
<1>10. Middle(s) <=> f.parity = 1
  BY <1>3 DEF Middle
<1>11. /\ \A m \in Anchors : air'[m] = {}
       /\ UNCHANGED <<on, counter, state, infos, src_parity, old_src_id, rxJoin>>
  BY <1>3, <1>4 DEF Land
<1> QED
  BY <1>3, <1>7, <1>9, <1>10, <1>11

LEMMA StampsLand ==
    ASSUME AllHeard, IInv, NetInv, StampsInv, Land
    PROVE  StampsInv'
<1>1. PICK s \in Anchors, p \in 0..1 :
             /\ s \in on /\ Now \in Nat /\ Now = SlotOf(s, p) + PREFIX
             /\ Middle(s) <=> p = 1
             /\ \A m \in Anchors \ {s} : air[m] = {}
             /\ \A t \in Anchors : FirstSlot(t) <= Now /\ Now <= SecondSlot(t) + PREFIX => t = s
             /\ \A n \in Anchors : /\ rxPc[n] = "idle" /\ rxPc'[n] \in {"idle", "event"}
                                   /\ rxPc'[n] = "event" => rxMsg'[n].src = s /\ rxMsg'[n].parity = p
                                   /\ n # s /\ n \in on => rxPc'[n] = "event"
             /\ \A m \in Anchors : air'[m] = {}
             /\ UNCHANGED <<on, counter, state, infos, src_parity, old_src_id, rxJoin>>
  BY Lands
<1>2. ASSUME NEW t \in Anchors, Middle(t) PROVE t = s /\ p = 1
  BY <1>1, <1>2, MiddleTime
<1>3. ASSUME NEW t \in Anchors, Middle(t)' PROVE t = s /\ p = 0
  <2>1. t \in on /\ state[t] = "WAITING_SECOND"
    BY <1>1, <1>3 DEF Middle
  <2>2. FirstSlot(t) <= Now /\ Now <= SecondSlot(t)
    BY <2>1 DEF NetInv, OrderInv, InSecond
  <2>3. t = s
    BY <1>1, <2>2, Slots
  <2> QED
    BY <1>1, <2>2, <2>3, Slots DEF SlotOf
<1>4. ASSUME NEW n \in Anchors PROVE StampInv(n)'
  <2>1. /\ Current(n)' = Current(n) /\ Other(n)' = Other(n) /\ old_src_id'[n] = old_src_id[n]
        /\ StampInv(n) /\ (n \in on' <=> n \in on) /\ (Member(n)' => Member(n))
    BY <1>1 DEF Current, Other, StampsInv, Member
  <2>2. HalfDone(n) => HalfDone(n)'
    <3> SUFFICES ASSUME NEW t \in Anchors \ {n}, n \in on, Awaits(n, t),
                        old_src_id[n] = t, Current(n).src = t, Current(n).ts[0] \in {Zeroed, t}
                 PROVE  HalfDone(n)'
      BY DEF HalfDone
    <3>1. t = s /\ p = 1
      BY <1>1, <1>2 DEF Awaits, Handles
    <3>2. Awaits(n, t)'
      BY <1>1, <3>1 DEF Awaits, Handles
    <3> QED
      BY <2>1, <3>2 DEF HalfDone
  <2>3. Clean(Current(n)) => Clean(Current(n)')
    BY <2>1
  <2>4. Recorded(n)'
    BY <1>1, <2>1, <2>2, <2>3 DEF StampInv, Recorded
  <2>5. Chosen(n)'
    <3> SUFFICES ASSUME Member(n)', NEW t \in Anchors \ {n}, Awaits(n, t)', ~Handles(n, t, 0)'
                 PROVE  old_src_id[n] = t /\ Current(n).src = t
      BY <2>1 DEF Chosen
    <3>1. ~Middle(t)'
      <4> SUFFICES ASSUME Middle(t)' PROVE FALSE
        OBVIOUS
      <4>1. t = s /\ p = 0
        BY <1>3
      <4>2. Handles(n, t, 0)'
        BY <1>1, <2>1, <4>1 DEF Handles, Member
      <4> QED
        BY <4>2
    <3>2. t = s /\ p = 1
      BY <1>1, <3>1 DEF Awaits, Handles
    <3>3. Awaits(n, t) /\ ~Handles(n, t, 0)
      BY <1>1, <3>2 DEF Awaits, Handles
    <3> QED
      BY <2>1, <3>3 DEF StampInv, Chosen
  <2>6. Unused(n)'
    BY <1>1, <2>1, <2>3 DEF StampInv, Unused
  <2> QED
    BY <1>1, <2>1, <2>4, <2>5, <2>6 DEF StampInv
<1> QED
  BY <1>4 DEF StampsInv

LEMMA StampsInit == ASSUME Init PROVE StampsInv
<1>1. ASSUME NEW n \in Anchors PROVE StampInv(n)
  <2>1. infos[n] = ZeroInfos /\ src_parity[n] = 1 /\ state[n] = "DISCOVERY" /\ rxPc[n] = "idle" /\ air[n] = {}
    BY DEF Init
  <2>2. Clean(Current(n)) /\ Clean(Other(n))
    <3>1. Current(n) = ZeroInfos[1] /\ Other(n) = ZeroInfos[0]
      BY <2>1 DEF Current, Other
    <3> QED
      BY <3>1, ZeroClean, 0 \in 0..1, 1 \in 0..1
  <2> QED
    BY <2>1, <2>2 DEF StampInv, Recorded, Chosen, Member, Unused
<1> QED
  BY <1>1 DEF StampsInv

LEMMA StampsNext ==
    ASSUME AllHeard, IInv, NetInv, StampsInv, [Next]_vars
    PROVE  StampsInv'
<1>1. CASE UNCHANGED vars
  BY <1>1 DEF vars, StampsInv, StampInv, Recorded, Chosen, Unused, HalfDone, Awaits, Handles, Middle, Member, Current, Other
<1>2. ASSUME NEW n \in Anchors, TimerIsr(n) PROVE StampsInv'
  <2>1. ~SfUnfinished(n)
    BY SfUnfinishedNever DEF AllHeard
  <2> QED
    BY <1>2, <2>1, StampsTimerFirst, StampsTimerSecond, StampsSuperframe, StampsSuperframeZero DEF TimerIsr
<1>3. ASSUME NEW n \in Anchors, RxIsr(n) PROVE StampsInv'
  <2>1. ~RxIgnored(n)
    BY RxClock DEF RxIgnored
  <2> QED
    BY <1>3, <2>1, StampsRxQuiet, StampsRxAdopt, StampsRxRecord, StampsRxStamp DEF RxIsr
<1> QED
  BY <1>1, <1>2, <1>3, StampsPower, StampsTick, StampsLand DEF Next

\* Where every message arrives, no anchor of an orderly network ever sends a
\* receive time stamp beside the id of another sender (the two records of
\* m_anchor_infos, chosen by parity in event_handler), in a network of any size.
THEOREM StampsBelong == ASSUME AllHeard PROVE Spec => []StampsAttributed
<1>1. Init => StampsInv
  BY StampsInit
<1>2. IInv /\ NetInv /\ StampsInv /\ [Next]_vars => StampsInv'
  BY StampsNext
<1>3. StampsInv => StampsAttributed
  BY DEF StampsInv, StampInv, Clean, StampsAttributed
<1>4. Spec => []IInv
  BY Invariant
<1>5. Spec => []NetInv
  BY NetInvariant DEF AllHeard
<1> QED
  BY <1>1, <1>2, <1>3, <1>4, <1>5, PTL DEF Spec

=============================================================================
