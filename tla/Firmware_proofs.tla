-------------------------- MODULE Firmware_proofs --------------------------
(***************************************************************************)
(* Proofs about the firmware's parts.  RadioDriver: no event of the chip   *)
(* is left without an interrupt, and only a message that was too late      *)
(* leaves an anchor deaf.  BleGap: however far the main loop is behind,    *)
(* the handle follows the link.  Observer: only a whole frame ends in a    *)
(* checksum.                                                               *)
(***************************************************************************)
EXTENDS Firmware, SequenceTheorems, TLAPS


\* What dwt_isr has copied tells where it is: there is one event at a time.
CopyTellsBranch ==
    /\ isr \in {"idle", "read"} => snap = {}
    /\ isr \in {"rx", "rxok"} => snap = {"RXFCG"}
    /\ isr \in {"tx", "txok"} => snap = {"TXFRS"}
    /\ isr \in {"err", "off", "rxerr"} => snap = {"ERR"}

\* A transceiver that works has no event set, and while a branch of dwt_isr
\* runs it receives and sends nothing.
OneEvent ==
    /\ status \in {{}, {"RXFCG"}, {"TXFRS"}, {"ERR"}}
    /\ radio # "idle" => status = {}
    /\ isr \notin {"idle", "read"} => radio \in {"idle", "delay"}

\* An event that is set has an interrupt to come, or the branch that clears it;
\* no other event comes before it has been cleared.
ServedBy ==
    /\ status # {} => \/ edge
                      \/ isr = "read"
                      \/ isr \in {"rx", "tx", "err"}
    /\ isr \in {"rx", "tx", "err"} => status \subseteq snap
    /\ isr \in {"rxok", "txok", "off", "rxerr"} => status = {}

\* What the idle transceiver waits for.
IdleWaits == radio = "idle" /\ ~refused => status # {} \/ isr \notin {"idle", "read"}

IInv == TypeOK /\ CopyTellsBranch /\ OneEvent /\ ServedBy /\ IdleWaits

LEMMA InitIInv == Init => IInv
<1> SUFFICES ASSUME Init PROVE IInv  OBVIOUS
<1>1. TypeOK
  <2>1. late \in 0..MaxRefused  BY ConstantsAssumption DEF Init
  <2>2. edge \in BOOLEAN /\ refused \in BOOLEAN  BY Zenon DEF Init
  <2> QED BY <2>1, <2>2, Zenon DEF Init, TypeOK
<1>2. CopyTellsBranch /\ OneEvent  BY DEF Init, CopyTellsBranch, OneEvent
<1>3. ServedBy /\ IdleWaits  BY DEF Init, ServedBy, IdleWaits
<1> QED BY <1>1, <1>2, <1>3 DEF IInv

LEMMA ChipKeepsIInv ==
    ASSUME IInv, ChipReceives \/ ChipStartsTx \/ ChipSent PROVE IInv'
<1>1. CASE ChipReceives
  BY <1>1 DEF ChipReceives, Raise, IInv, TypeOK, Events, CopyTellsBranch, OneEvent, ServedBy, IdleWaits
<1>2. CASE ChipStartsTx
  BY <1>2 DEF ChipStartsTx, IInv, TypeOK, Events, CopyTellsBranch, OneEvent, ServedBy, IdleWaits
<1>3. CASE ChipSent
  BY <1>3 DEF ChipSent, Raise, IInv, TypeOK, Events, CopyTellsBranch, OneEvent, ServedBy, IdleWaits
<1> QED BY <1>1, <1>2, <1>3

\* The frame timer may interrupt any branch.
LEMMA TimerKeepsIInv ==
    ASSUME IInv, Transmit \/ TransmitLate PROVE IInv'
<1>1. CASE Transmit
  BY <1>1 DEF Transmit, InTransmission, IInv, TypeOK, Events, CopyTellsBranch, OneEvent, ServedBy, IdleWaits
<1>2. CASE TransmitLate
  BY <1>2, ConstantsAssumption
  DEF TransmitLate, InTransmission, ForceTrxOff, IInv, TypeOK, Events, CopyTellsBranch,
      OneEvent, ServedBy, IdleWaits
<1> QED BY <1>1, <1>2

\* Where dwt_isr goes for each of the copies there are.
LEMMA Branches ==
    /\ Branch({}) = "idle"
    /\ Branch({"RXFCG"}) = "rx"
    /\ Branch({"TXFRS"}) = "tx"
    /\ Branch({"ERR"}) = "err"
<1>1. {} \cap {"RXFCG", "TXFRS"} # {"TXFRS"}  OBVIOUS
<1>2. {"TXFRS"} \cap {"RXFCG", "TXFRS"} = {"TXFRS"}  OBVIOUS
<1>3. {"ERR"} \cap {"RXFCG", "TXFRS"} # {"TXFRS"}  OBVIOUS
<1> QED BY <1>1, <1>2, <1>3 DEF Branch

LEMMA ClearKeepsIInv ==
    ASSUME IInv,
           \/ Clear("rx", "RXFCG", "rxok")
           \/ Clear("tx", "TXFRS", "txok")
           \/ Clear("err", "ERR", "off")
    PROVE  IInv'
<1>1. status' = {}
  <2>1. CASE Clear("rx", "RXFCG", "rxok")
    <3>1. status' = status \ {"RXFCG"} /\ isr = "rx" /\ snap = {"RXFCG"}
      BY <2>1 DEF Clear, IInv, CopyTellsBranch
    <3> QED BY <3>1 DEF IInv, ServedBy
  <2>2. CASE Clear("tx", "TXFRS", "txok")
    <3>1. status' = status \ {"TXFRS"} /\ isr = "tx" /\ snap = {"TXFRS"}
      BY <2>2 DEF Clear, IInv, CopyTellsBranch
    <3> QED BY <3>1 DEF IInv, ServedBy
  <2>3. CASE Clear("err", "ERR", "off")
    <3>1. status' = status \ {"ERR"} /\ isr = "err" /\ snap = {"ERR"}
      BY <2>3 DEF Clear, IInv, CopyTellsBranch
    <3> QED BY <3>1 DEF IInv, ServedBy
  <2> QED BY <2>1, <2>2, <2>3
<1>2. /\ isr \in {"rx", "tx", "err"}
      /\ UNCHANGED <<radio, edge, snap, refused, late>>
      /\ \/ isr' = "rxok" /\ snap = {"RXFCG"}
         \/ isr' = "txok" /\ snap = {"TXFRS"}
         \/ isr' = "off" /\ snap = {"ERR"}
  BY DEF Clear, IInv, CopyTellsBranch
<1> QED BY <1>1, <1>2 DEF IInv, TypeOK, Events, CopyTellsBranch, OneEvent, ServedBy, IdleWaits

LEMMA CallbackKeepsIInv ==
    ASSUME IInv,
           \/ Callback("RXFCG", "rxok")
           \/ Callback("TXFRS", "txok")
           \/ Callback("ERR", "rxerr")
    PROVE  IInv'
<1>1. isr \in {"rxok", "txok", "rxerr"} /\ status = {} /\ radio \in {"idle", "delay"}
  BY DEF Callback, IInv, OneEvent, ServedBy
<1>2. isr' = "idle" /\ snap' = {}
  <2>1. snap' = {} /\ isr' = Branch(snap')
    BY DEF Callback, Goto, IInv, CopyTellsBranch
  <2> QED BY <2>1, Branches
<1>3. radio' \in {"rx", "delay"}
  BY <1>1 DEF Callback, RxEnable
<1>4. status' = {} /\ edge' = edge /\ late' = late /\ refused' = FALSE
  BY <1>1 DEF Callback
<1> QED BY <1>2, <1>3, <1>4 DEF IInv, TypeOK, Events, CopyTellsBranch, OneEvent, ServedBy, IdleWaits

LEMMA IsrKeepsIInv == ASSUME IInv, IsrStep PROVE IInv'
<1>1. CASE IsrEnter
  BY <1>1 DEF IsrEnter, IInv, TypeOK, Events, CopyTellsBranch, OneEvent, ServedBy, IdleWaits
<1>2. CASE IsrRead
  <2>1. snap' = status /\ isr' = Branch(status) /\ UNCHANGED <<radio, status, edge, refused, late>>
    BY <1>2 DEF IsrRead, Goto
  <2>2. isr = "read" /\ status \in {{}, {"RXFCG"}, {"TXFRS"}, {"ERR"}}
    BY <1>2 DEF IsrRead, IInv, OneEvent
  <2> QED BY <2>1, <2>2, Branches
          DEF IInv, TypeOK, Events, CopyTellsBranch, OneEvent, ServedBy, IdleWaits
<1>3. CASE IsrOff
  BY <1>3 DEF IsrOff, ForceTrxOff, IInv, TypeOK, Events, CopyTellsBranch, OneEvent, ServedBy, IdleWaits
<1> QED BY <1>1, <1>2, <1>3, ClearKeepsIInv, CallbackKeepsIInv
        DEF IsrStep, IsrRxOk, IsrTxOk, IsrRxErr

LEMMA StutterKeepsIInv == ASSUME IInv, UNCHANGED vars PROVE IInv'
BY DEF vars, IInv, TypeOK, Events, CopyTellsBranch, OneEvent, ServedBy, IdleWaits

THEOREM InductiveInvariant == Spec => []IInv
<1>1. IInv /\ [Next]_vars => IInv'
  BY ChipKeepsIInv, TimerKeepsIInv, IsrKeepsIInv, StutterKeepsIInv DEF Next
<1> QED BY InitIInv, <1>1, PTL DEF Spec

\* Every variable keeps its type.
THEOREM TypeCorrect == Spec => []TypeOK
<1>1. IInv => TypeOK  BY DEF IInv
<1> QED BY <1>1, InductiveInvariant, PTL

\* No event waits behind a line that is high with nobody to serve it, although
\* the pin's interrupt sees edges only and is itself interrupted.
THEOREM EventsAreServed == Spec => []EventsServed
<1>1. IInv => EventsServed  BY DEF IInv, ServedBy, EventsServed
<1> QED BY <1>1, InductiveInvariant, PTL

\* Only a message that was too late leaves an anchor deaf.
THEOREM NeverDeaf == Spec => []NotDeaf
<1>1. IInv => NotDeaf  BY DEF IInv, ServedBy, IdleWaits, NotDeaf
<1> QED BY <1>1, InductiveInvariant, PTL

\* dwt_isr loses nothing to the messages that interrupt it.
THEOREM DriverAlwaysServes == Spec => []DriverServes
<1>1. TypeOK /\ EventsServed /\ NotDeaf => DriverServes  BY DEF DriverServes
<1> QED BY <1>1, TypeCorrect, EventsAreServed, NeverDeaf, PTL

\* One step: an accepted transmission goes on, is confirmed, or is aborted by
\* what may abort it.  On the air it is safe because no branch of dwt_isr runs
\* then, and from dwt_isr's end on no message starts before the last is sent.
LEMMA AcceptedGoesOn ==
    ASSUME IInv, [Next]_vars
    PROVE  /\ radio = "tx" => radio' = "tx" \/ "TXFRS" \in status'
           /\ radio = "delay" => radio' \in {"delay", "tx"} \/ AbortedBefore
<1>1. CASE ChipReceives \/ ChipStartsTx \/ ChipSent
  BY <1>1 DEF ChipReceives, ChipStartsTx, ChipSent, Raise
<1>2. CASE Transmit \/ TransmitLate
  BY <1>2 DEF Transmit, TransmitLate, InTransmission
<1>3. CASE IsrStep
  <2>1. CASE IsrEnter \/ IsrRead
    BY <2>1 DEF IsrEnter, IsrRead
  <2>2. CASE isr \in {"rx", "tx", "err"}
    <3>1. radio' = radio
      BY <1>3, <2>2 DEF IsrStep, IsrEnter, IsrRead, IsrRxOk, IsrTxOk, IsrRxErr, IsrOff, Clear, Callback
    <3> QED BY <3>1
  <2>3. CASE isr = "off"
    BY <2>3 DEF IInv, CopyTellsBranch, OneEvent, AbortedBefore
  <2>4. CASE isr \in {"rxok", "txok", "rxerr"}
    <3>1. RxEnable
      BY <1>3, <2>4 DEF IsrStep, IsrEnter, IsrRead, IsrRxOk, IsrTxOk, IsrRxErr, IsrOff, Clear, Callback
    <3>2. radio # "tx"
      BY <2>4 DEF IInv, OneEvent
    <3> QED BY <3>1, <3>2 DEF RxEnable, AbortedBefore
  <2> QED
    BY <1>3, <2>1, <2>2, <2>3, <2>4
    DEF IsrStep, IsrRxOk, IsrTxOk, IsrRxErr, IsrOff, Clear, Callback
<1>4. CASE UNCHANGED vars
  BY <1>4 DEF vars
<1> QED BY <1>1, <1>2, <1>3, <1>4 DEF Next

\* An accepted transmission is sent, unless an error read before it, or the
\* chip, ends it before it is on the air.
THEOREM AcceptedIsSent == Spec => OnlyErrorsAbort
<1>1. Spec => [][Next]_vars
  BY PTL DEF Spec
<1>2. IInv /\ [Next]_vars =>
        [/\ radio = "tx" => radio' = "tx" \/ "TXFRS" \in status'
         /\ radio = "delay" => radio' \in {"delay", "tx"} \/ AbortedBefore]_vars
  BY AcceptedGoesOn
<1> QED BY <1>1, <1>2, InductiveInvariant, PTL DEF OnlyErrorsAbort

-----------------------------------------------------------------------------
(* A tag's connection (BleGap). *)

\* The two ends of a link are the first and the last of the events it leaves, and
\* the handle tells whether the first has been handled.
EndsInOrder ==
    \A i \in 1..Len(events) :
        /\ events[i] = "connected" <=> i = 1 /\ ~conn
        /\ events[i] = "disconnected" <=> i = Len(events) /\ link = "off"

\* A link that nobody has handled yet, or whose end nobody has, has left events;
\* parameters are negotiated on a link that is known.
NotCaughtUp ==
    /\ link # "adv" /\ ~conn => events # <<>>
    /\ link = "off" => events # <<>>
    /\ params => conn

GapInv ==
    /\ Gap!TypeOK /\ EndsInOrder /\ NotCaughtUp
    /\ Len(events) <= MaxEvents + (IF link = "off" THEN 1 ELSE 0)
    /\ Gap!StopsOnlyLate

Kinds == {"connected", "disconnected"} \cup Requests

LEMMA GapSizes ==
    /\ MaxEvents \in Nat /\ MaxEvents >= 1
    /\ Requests \subseteq {"sec", "phy", "attr", "timeout"}
BY PartsAssumption DEF Gap!ConstantsAssumption

LEMMA GapStarts == Gap!Init => GapInv
<1> SUFFICES ASSUME Gap!Init PROVE GapInv
  OBVIOUS
<1>1. events = <<>> /\ Len(events) = 0 /\ events \in Seq(Kinds)
  BY EmptySeq DEF Gap!Init
<1>2. EndsInOrder
  BY <1>1 DEF EndsInOrder
<1>3. NotCaughtUp /\ Gap!StopsOnlyLate
  BY DEF Gap!Init, NotCaughtUp, Gap!StopsOnlyLate
<1>4. Gap!TypeOK
  <2>1. Len(events) <= MaxEvents + 2
    BY <1>1, GapSizes
  <2> QED
    BY <1>1, <2>1, Zenon DEF Gap!Init, Gap!TypeOK, Kinds
<1> QED
  BY <1>1, <1>2, <1>3, <1>4, GapSizes DEF Gap!Init, GapInv

\* What the SoftDevice adds comes last.
LEMMA EventComes ==
    ASSUME GapInv, NEW kind \in Kinds, Gap!Event(kind)
    PROVE  /\ events' \in Seq(Kinds) /\ events' # <<>> /\ Len(events') = Len(events) + 1
           /\ \A i \in 1..Len(events') : events'[i] = IF i = Len(events') THEN kind ELSE events[i]
           /\ ~fault /\ UNCHANGED <<conn, params, fault>>
<1>1. events \in Seq(Kinds) /\ events' = Append(events, kind)
  BY DEF GapInv, Gap!TypeOK, Kinds, Gap!Event
<1> QED
  BY <1>1, AppendProperties, EmptySeq DEF Gap!Event

\* What the main loop handles is what came first.
LEMMA EventGoes ==
    ASSUME GapInv, NEW kind, Gap!Handling(kind)
    PROVE  /\ events' \in Seq(Kinds) /\ Len(events) \in Nat \ {0} /\ Len(events') = Len(events) - 1
           /\ \A i \in 1..Len(events') : events'[i] = events[i + 1]
           /\ events[1] = kind /\ ~fault /\ kind \in Kinds
<1>1. events \in Seq(Kinds) /\ events' = Tail(events) /\ events # <<>> /\ Head(events) = kind
  BY DEF GapInv, Gap!TypeOK, Kinds, Gap!Handling
<1>2. events[1] = Head(events)
  BY <1>1
<1> QED
  BY <1>1, <1>2, HeadTailProperties, EmptySeq, LenProperties DEF Gap!Handling

LEMMA ConnectKeeps ==
    ASSUME GapInv, Gap!Connect
    PROVE  GapInv'
<1>1. /\ link = "adv" /\ link' = "up" /\ Gap!Event("connected") /\ "connected" \in Kinds
      /\ events = <<>> /\ ~conn /\ ~params /\ Len(events) = 0
  BY EmptySeq DEF Gap!Connect, Kinds, GapInv, Gap!TypeOK
<1>2. /\ events' \in Seq(Kinds) /\ events' # <<>> /\ Len(events') = 1 /\ events'[1] = "connected"
      /\ ~fault /\ UNCHANGED <<conn, params, fault>>
  BY <1>1, EventComes
<1> QED
  BY <1>1, <1>2, GapSizes
  DEF GapInv, Gap!TypeOK, EndsInOrder, NotCaughtUp, Gap!StopsOnlyLate, Kinds

LEMMA LoseKeeps ==
    ASSUME GapInv, Gap!Lose
    PROVE  GapInv'
<1>1. link \in {"up", "closing"} /\ link' = "off" /\ Gap!Event("disconnected") /\ "disconnected" \in Kinds
  BY DEF Gap!Lose, Kinds
<1>2. /\ events' \in Seq(Kinds) /\ events' # <<>> /\ Len(events') = Len(events) + 1
      /\ \A i \in 1..Len(events') :
            events'[i] = IF i = Len(events') THEN "disconnected" ELSE events[i]
      /\ ~fault /\ UNCHANGED <<conn, params, fault>>
  BY <1>1, EventComes
<1>3. Len(events) \in Nat /\ (~conn => Len(events) # 0)
  BY <1>1, EmptySeq, LenProperties DEF GapInv, Gap!TypeOK, NotCaughtUp
<1>4. EndsInOrder'
  BY <1>1, <1>2, <1>3 DEF GapInv, EndsInOrder
<1> QED
  BY <1>1, <1>2, <1>3, <1>4, GapSizes
  DEF GapInv, Gap!TypeOK, NotCaughtUp, Gap!StopsOnlyLate, Kinds

LEMMA AskKeeps ==
    ASSUME GapInv, Gap!Ask
    PROVE  GapInv'
<1>1. PICK kind \in Requests : Gap!Event(kind)
  BY DEF Gap!Ask
<1>2. /\ link = "up" /\ link' = "up" /\ kind \in Kinds
      /\ kind # "connected" /\ kind # "disconnected" /\ Len(events) < MaxEvents
  BY GapSizes DEF Gap!Ask, Kinds
<1>3. /\ events' \in Seq(Kinds) /\ events' # <<>> /\ Len(events') = Len(events) + 1
      /\ \A i \in 1..Len(events') : events'[i] = IF i = Len(events') THEN kind ELSE events[i]
      /\ ~fault /\ UNCHANGED <<conn, params, fault>>
  BY <1>1, <1>2, EventComes
<1>4. Len(events) \in Nat /\ (~conn => Len(events) # 0)
  BY <1>2, EmptySeq, LenProperties DEF GapInv, Gap!TypeOK, NotCaughtUp
<1>5. EndsInOrder'
  BY <1>2, <1>3, <1>4 DEF GapInv, EndsInOrder
<1> QED
  BY <1>2, <1>3, <1>4, <1>5, GapSizes
  DEF GapInv, Gap!TypeOK, NotCaughtUp, Gap!StopsOnlyLate, Kinds

LEMMA ConnectedKeeps ==
    ASSUME GapInv, Gap!OnConnected
    PROVE  GapInv'
<1>1. /\ Gap!Handling("connected") /\ conn' = TRUE /\ params' = TRUE /\ UNCHANGED <<link, fault>>
  BY DEF Gap!OnConnected
<1>2. /\ events' \in Seq(Kinds) /\ Len(events) \in Nat \ {0} /\ Len(events') = Len(events) - 1
      /\ \A i \in 1..Len(events') : events'[i] = events[i + 1]
      /\ events[1] = "connected" /\ ~fault
  BY <1>1, EventGoes
<1>3. ~conn /\ link # "adv"
  BY <1>2, EmptySeq DEF GapInv, EndsInOrder, Gap!TypeOK
<1>4. EndsInOrder'
  BY <1>1, <1>2, <1>3 DEF GapInv, EndsInOrder
<1>5. link = "off" => Len(events) # 1
  BY <1>2, <1>3 DEF GapInv, EndsInOrder
<1>6. link = "off" => events' # <<>>
  BY <1>2, <1>5, EmptySeq
<1> QED
  BY <1>1, <1>2, <1>3, <1>4, <1>6, GapSizes
  DEF GapInv, Gap!TypeOK, NotCaughtUp, Gap!StopsOnlyLate, Kinds

LEMMA DisconnectedKeeps ==
    ASSUME GapInv, Gap!OnDisconnected
    PROVE  GapInv'
<1>1. /\ Gap!Handling("disconnected") /\ conn' = FALSE /\ params' = FALSE /\ link' = "adv"
      /\ UNCHANGED fault
  BY DEF Gap!OnDisconnected
<1>2. /\ events' \in Seq(Kinds) /\ Len(events) \in Nat \ {0} /\ Len(events') = Len(events) - 1
      /\ events[1] = "disconnected" /\ ~fault
  BY <1>1, EventGoes
<1>3. Len(events) = 1
  BY <1>2 DEF GapInv, EndsInOrder
<1>4. events' = <<>> /\ Len(events') = 0
  BY <1>2, <1>3, EmptySeq
<1>5. EndsInOrder'
  BY <1>4 DEF EndsInOrder
<1>6. NotCaughtUp' /\ Gap!StopsOnlyLate'
  BY <1>1, <1>2 DEF NotCaughtUp, Gap!StopsOnlyLate
<1>7. Gap!TypeOK'
  <2>1. Len(events') <= MaxEvents + 2
    BY <1>4, GapSizes
  <2>2. conn' \in BOOLEAN /\ params' \in BOOLEAN /\ fault' \in BOOLEAN
    BY <1>1 DEF GapInv, Gap!TypeOK
  <2>3. link' \in {"adv", "up", "closing", "off"} /\ ~conn' /\ ~params'
    BY <1>1
  <2> QED
    BY <1>2, <1>4, <2>1, <2>2, <2>3, Zenon DEF Gap!TypeOK, Kinds
<1> QED
  BY <1>1, <1>4, <1>5, <1>6, <1>7, GapSizes DEF GapInv

\* Until the end of a link has been handled it waits, and it waits last.
LEMMA EndWaits ==
    ASSUME GapInv, link = "off"
    PROVE  "disconnected" \in {events[i] : i \in 1..Len(events)}
<1>1. Len(events) \in 1..Len(events)
  BY EmptySeq, LenProperties DEF GapInv, Gap!TypeOK, NotCaughtUp
<1>2. events[Len(events)] = "disconnected"
  BY <1>1 DEF GapInv, EndsInOrder
<1> QED
  BY <1>1, <1>2

\* An answer to a request, or the disconnection for a timeout.
LEMMA RequestKeeps ==
    ASSUME GapInv, NEW kind \in {"sec", "phy", "attr", "timeout"}, Gap!Handling(kind),
           Gap!Answer \/ Gap!Disconnect, UNCHANGED <<conn, params>>
    PROVE  GapInv'
<1>1. /\ events' \in Seq(Kinds) /\ Len(events) \in Nat \ {0} /\ Len(events') = Len(events) - 1
      /\ \A i \in 1..Len(events') : events'[i] = events[i + 1]
      /\ events[1] = kind /\ ~fault
  BY EventGoes
<1>2. link # "adv"
  BY <1>1, EmptySeq DEF GapInv, Gap!TypeOK
<1>3. /\ conn /\ conn'
      /\ link = "off" => Len(events) # 1
  BY <1>1 DEF GapInv, EndsInOrder
<1>4. /\ link' \in {"up", "closing", "off"} /\ (link' = "off" <=> link = "off") /\ fault' \in BOOLEAN
      /\ fault' => link' \in {"closing", "off"}
  BY <1>1, <1>2 DEF Gap!Answer, Gap!Disconnect, GapInv, Gap!TypeOK
<1>5. EndsInOrder'
  BY <1>1, <1>3, <1>4 DEF GapInv, EndsInOrder
<1>6. link' = "off" => events' # <<>>
  BY <1>1, <1>3, <1>4, EmptySeq
<1>7. link' = "off" => "disconnected" \in {events'[i] : i \in 1..Len(events')}
  <2> SUFFICES ASSUME link' = "off" PROVE "disconnected" \in {events'[i] : i \in 1..Len(events')}
    OBVIOUS
  <2>1. Len(events') \in 1..Len(events')
    BY <1>1, <1>3, <1>4
  <2>2. events'[Len(events')] = "disconnected"
    BY <1>5, <2>1 DEF EndsInOrder
  <2> QED
    BY <2>1, <2>2
<1> QED
  BY <1>1, <1>3, <1>4, <1>5, <1>6, <1>7, GapSizes
  DEF GapInv, Gap!TypeOK, NotCaughtUp, Gap!StopsOnlyLate, Kinds

LEMMA ParamsKeeps ==
    ASSUME GapInv, Gap!OnParamsFailed
    PROVE  GapInv'
<1>1. ~fault /\ params /\ params' = FALSE /\ Gap!Disconnect /\ UNCHANGED <<events, conn>>
  BY DEF Gap!OnParamsFailed
<1>2. conn /\ link # "adv"
  BY <1>1 DEF GapInv, Gap!TypeOK, NotCaughtUp
<1>3. /\ link' \in {"up", "closing", "off"} /\ (link' = "off" <=> link = "off") /\ fault' \in BOOLEAN
      /\ fault' => link' \in {"closing", "off"}
  BY <1>1, <1>2 DEF Gap!Disconnect, GapInv, Gap!TypeOK
<1>4. link' = "off" => "disconnected" \in {events'[i] : i \in 1..Len(events')}
  BY <1>1, <1>3, EndWaits
<1> QED
  BY <1>1, <1>2, <1>3, <1>4
  DEF GapInv, Gap!TypeOK, EndsInOrder, NotCaughtUp, Gap!StopsOnlyLate, Kinds

LEMMA GapKeeps == GapInv /\ [Gap!Next]_Gap!vars => GapInv'
<1> SUFFICES ASSUME GapInv, [Gap!Next]_Gap!vars PROVE GapInv'
  OBVIOUS
<1>1. CASE Gap!OnRequest
  BY <1>1, RequestKeeps DEF Gap!OnRequest
<1>2. CASE Gap!OnTimeout
  BY <1>2, RequestKeeps DEF Gap!OnTimeout
<1>3. CASE UNCHANGED Gap!vars
  BY <1>3
  DEF Gap!vars, GapInv, Gap!TypeOK, EndsInOrder, NotCaughtUp, Gap!StopsOnlyLate
<1> QED
  BY <1>1, <1>2, <1>3, ConnectKeeps, LoseKeeps, AskKeeps, ConnectedKeeps, DisconnectedKeeps,
     ParamsKeeps
  DEF Gap!Next, Gap!Handler

\* However far the main loop is behind, the events of a link wait in order between
\* its two ends: when all are handled the handle is valid exactly for a link, and a
\* call is refused only for a link that is going or whose end waits.
THEOREM HandleFollows == Gap!Spec => []LinkKept
<1>1. GapInv => LinkKept
  <2>1. GapInv => Gap!HandleFollowsLink
    BY DEF GapInv, Gap!TypeOK, NotCaughtUp, Gap!HandleFollowsLink
  <2> QED
    BY <2>1 DEF GapInv, LinkKept
<1> QED
  BY <1>1, GapStarts, GapKeeps, PTL DEF Gap!Spec

-----------------------------------------------------------------------------
(* An observer's line (Observer): what has been sent, what is in the buffer. *)

Line == wire \o fifo
Units == [of : Nat, name : {"x", "length", "rxts", "data", "crc"}, i : Nat]

\* Every unit on the line belongs to a reception.
LineBelongs ==
    /\ wire \in Seq(Units) /\ fifo \in Seq(Units)
    /\ \A i \in 1..Len(Line) : Line[i].of \in 1..Len(received)

UartInv == Uart!TypeOK /\ LineBelongs /\ Uart!CrcMeansWhole

LEMMA UartSizes == Capacity \in Nat /\ MaxLength \in Nat /\ MaxReceptions \in Nat
BY PartsAssumption DEF Uart!SizesAssumption

LEMMA UnitType ==
    ASSUME NEW k \in Nat, NEW name \in {"x", "length", "rxts", "data", "crc"}, NEW i \in Nat
    PROVE  /\ Uart!Unit(k, name, i) \in Units
           /\ Uart!Unit(k, name, i).of = k /\ Uart!Unit(k, name, i).name = name
BY DEF Uart!Unit, Units

\* A frame's units are of its reception, and the checksum is the last of them.
LEMMA FrameUnits ==
    ASSUME NEW k \in Nat, NEW length \in Nat
    PROVE  /\ Uart!Frame(k, length) \in Seq(Units) /\ Len(Uart!Frame(k, length)) = length + 4
           /\ \A i \in 1..(length + 4) :
                /\ Uart!Frame(k, length)[i].of = k
                /\ Uart!Frame(k, length)[i].name = "crc" => i = length + 4
<1> DEFINE head == <<Uart!Unit(k, "x", 0), Uart!Unit(k, "length", 0), Uart!Unit(k, "rxts", 0)>>
           data == [i \in 1..length |-> Uart!Unit(k, "data", i)]
           end == <<Uart!Unit(k, "crc", 0)>>
<1>1. /\ head \in Seq(Units) /\ Len(head) = 3
      /\ \A i \in 1..3 : head[i].of = k /\ head[i].name # "crc"
  <2>1. Uart!Unit(k, "x", 0) \in Units /\ Uart!Unit(k, "length", 0) \in Units /\ Uart!Unit(k, "rxts", 0) \in Units
    BY UnitType
  <2>2. \A i \in 1..3 : head[i].of = k /\ head[i].name # "crc"
    BY UnitType
  <2> QED
    BY <2>1, <2>2
<1>2. /\ data \in Seq(Units) /\ Len(data) = length
      /\ \A i \in 1..length : data[i].of = k /\ data[i].name # "crc"
  <2>1. \A i \in 1..length : /\ Uart!Unit(k, "data", i) \in Units
                             /\ Uart!Unit(k, "data", i).of = k
                             /\ Uart!Unit(k, "data", i).name # "crc"
    BY UnitType
  <2>2. data \in [1..length -> Units]
    BY <2>1
  <2> QED
    BY <2>1, <2>2, SeqDef, LenProperties
<1>3. end \in Seq(Units) /\ Len(end) = 1 /\ end[1].of = k
  BY UnitType
<1>4. /\ head \o data \in Seq(Units) /\ Len(head \o data) = length + 3
      /\ \A i \in 1..(length + 3) : (head \o data)[i] = IF i <= 3 THEN head[i] ELSE data[i - 3]
  BY <1>1, <1>2, ConcatProperties
<1>5. \A i \in 1..(length + 3) : (head \o data)[i].of = k /\ (head \o data)[i].name # "crc"
  BY <1>1, <1>2, <1>4
<1>6. /\ (head \o data) \o end \in Seq(Units) /\ Len((head \o data) \o end) = length + 4
      /\ \A i \in 1..(length + 4) :
            ((head \o data) \o end)[i] = IF i <= length + 3 THEN (head \o data)[i] ELSE end[i - (length + 3)]
  BY <1>3, <1>4, ConcatProperties
<1>7. Uart!Frame(k, length) = (head \o data) \o end
  BY DEF Uart!Frame
<1> HIDE DEF head, data, end
<1>8. /\ Uart!Frame(k, length) \in Seq(Units) /\ Len(Uart!Frame(k, length)) = length + 4
      /\ \A i \in 1..(length + 4) :
            Uart!Frame(k, length)[i] = IF i <= length + 3 THEN (head \o data)[i] ELSE end[i - (length + 3)]
  BY <1>6, <1>7, Zenon
<1>9. ASSUME NEW i \in 1..(length + 4)
      PROVE  /\ Uart!Frame(k, length)[i].of = k
             /\ Uart!Frame(k, length)[i].name = "crc" => i = length + 4
  <2>1. CASE i <= length + 3
    <3>1. i \in 1..(length + 3)
      BY <2>1
    <3>2. Uart!Frame(k, length)[i] = (head \o data)[i]
      BY <1>8, <2>1, Zenon
    <3>3. ~((head \o data)[i].name = "crc")
      BY <1>5, <3>1
    <3> QED
      BY <1>5, <3>1, <3>2, <3>3, Zenon
  <2>2. CASE i = length + 4
    <3>1. i - (length + 3) = 1 /\ ~(i <= length + 3)
      BY <2>2
    <3>2. Uart!Frame(k, length)[i] = end[i - (length + 3)]
      BY <1>8, <3>1
    <3> QED
      BY <1>3, <2>2, <3>1, <3>2
  <2> QED
    BY <2>1, <2>2
<1> QED
  BY <1>8, <1>9

LEMMA ErrorUnits ==
    ASSUME NEW k \in Nat
    PROVE  /\ Uart!ErrorFrame(k) \in Seq(Units) /\ Len(Uart!ErrorFrame(k)) = 2
           /\ \A i \in 1..2 : Uart!ErrorFrame(k)[i].of = k /\ Uart!ErrorFrame(k)[i].name # "crc"
<1>1. Uart!Unit(k, "x", 0) \in Units /\ Uart!Unit(k, "length", 0) \in Units
  BY UnitType
<1>2. \A i \in 1..2 : Uart!ErrorFrame(k)[i].of = k /\ Uart!ErrorFrame(k)[i].name # "crc"
  BY UnitType DEF Uart!ErrorFrame
<1> QED
  BY <1>1, <1>2 DEF Uart!ErrorFrame

LEMMA Associative ==
    ASSUME NEW s \in Seq(Units), NEW t \in Seq(Units), NEW u \in Seq(Units)
    PROVE  (s \o t) \o u = s \o (t \o u)
BY ConcatAssociative

LEMMA Joined ==
    ASSUME NEW s \in Seq(Units), NEW t \in Seq(Units)
    PROVE  /\ s \o t \in Seq(Units) /\ Len(s \o t) = Len(s) + Len(t)
           /\ \A i \in 1..(Len(s) + Len(t)) :
                (s \o t)[i] = IF i <= Len(s) THEN s[i] ELSE t[i - Len(s)]
BY ConcatProperties

LEMMA Part ==
    ASSUME NEW s \in Seq(Units), NEW m \in 1..(Len(s) + 1), NEW n \in (m - 1)..Len(s)
    PROVE  /\ SubSeq(s, m, n) \in Seq(Units) /\ Len(SubSeq(s, m, n)) = n - m + 1
           /\ \A i \in 1..(n - m + 1) : SubSeq(s, m, n)[i] = s[m + i - 1]
<1>1. Len(s) \in Nat /\ \A i \in m..n : s[i] \in Units
  BY ElementOfSeq, LenProperties
<1>2. m \in Int /\ n \in Int
  BY <1>1
<1>3. /\ SubSeq(s, m, n) \in Seq(Units)
      /\ Len(SubSeq(s, m, n)) = IF m <= n THEN n - m + 1 ELSE 0
      /\ \A i \in 1..(n - m + 1) : SubSeq(s, m, n)[i] = s[m + i - 1]
  BY <1>1, <1>2, SubSeqProperties
<1> QED
  BY <1>1, <1>2, <1>3

LEMMA SamePart ==
    ASSUME NEW s \in Seq(Units), NEW t \in Seq(Units), NEW n \in 1..Len(s), NEW m \in 1..n,
           n <= Len(t), \A i \in 1..Len(s) : t[i] = s[i]
    PROVE  SubSeq(t, m, n) = SubSeq(s, m, n)
<1>1. /\ Len(s) \in Nat /\ Len(t) \in Nat /\ m \in 1..(Len(s) + 1) /\ n \in (m - 1)..Len(s)
      /\ m \in 1..(Len(t) + 1) /\ n \in (m - 1)..Len(t)
  BY LenProperties
<1>2. /\ SubSeq(s, m, n) \in Seq(Units) /\ Len(SubSeq(s, m, n)) = n - m + 1
      /\ \A i \in 1..(n - m + 1) : SubSeq(s, m, n)[i] = s[m + i - 1]
  BY <1>1, Part, Zenon
<1>3. /\ SubSeq(t, m, n) \in Seq(Units) /\ Len(SubSeq(t, m, n)) = n - m + 1
      /\ \A i \in 1..(n - m + 1) : SubSeq(t, m, n)[i] = t[m + i - 1]
  BY <1>1, Part, Zenon
<1>4. \A i \in 1..(n - m + 1) : m + i - 1 \in 1..Len(s)
  BY <1>1
<1>5. \A i \in 1..(n - m + 1) : SubSeq(t, m, n)[i] = SubSeq(s, m, n)[i]
  BY <1>2, <1>3, <1>4, Zenon
<1> QED
  BY <1>2, <1>3, <1>5, SeqEqual

LEMMA LastPart ==
    ASSUME NEW s \in Seq(Units), NEW t \in Seq(Units), t # <<>>, NEW n, n = Len(s) + Len(t)
    PROVE  SubSeq(s \o t, n - Len(t) + 1, n) = t
<1>1. Len(s) \in Nat /\ Len(t) \in Nat \ {0}
  BY LenProperties, EmptySeq
<1>2. /\ s \o t \in Seq(Units) /\ Len(s \o t) = Len(s) + Len(t)
      /\ \A i \in 1..(Len(s) + Len(t)) :
            (s \o t)[i] = IF i <= Len(s) THEN s[i] ELSE t[i - Len(s)]
  BY Joined, Zenon
<1> DEFINE m == n - Len(t) + 1
<1>3. m = Len(s) + 1 /\ m \in 1..(Len(s \o t) + 1) /\ n \in (m - 1)..Len(s \o t) /\ n - m + 1 = Len(t)
  BY <1>1, <1>2
<1> HIDE DEF m
<1>4. /\ SubSeq(s \o t, m, n) \in Seq(Units) /\ Len(SubSeq(s \o t, m, n)) = n - m + 1
      /\ \A i \in 1..(n - m + 1) : SubSeq(s \o t, m, n)[i] = (s \o t)[m + i - 1]
  BY <1>2, <1>3, Part, Zenon
<1>5. ASSUME NEW i \in 1..Len(t)
      PROVE  SubSeq(s \o t, m, n)[i] = t[i]
  <2>1. m + i - 1 \in 1..(Len(s) + Len(t)) /\ ~(m + i - 1 <= Len(s)) /\ (m + i - 1) - Len(s) = i
    BY <1>1, <1>3
  <2>2. (s \o t)[m + i - 1] = t[(m + i - 1) - Len(s)]
    BY <1>2, <2>1, Zenon
  <2>3. SubSeq(s \o t, m, n)[i] = (s \o t)[m + i - 1]
    BY <1>3, <1>4, Zenon
  <2> QED
    BY <2>1, <2>2, <2>3
<1>6. SubSeq(s \o t, m, n) = t
  BY <1>1, <1>3, <1>4, <1>5, SeqEqual
<1> QED
  BY <1>6, Zenon DEF m

LEMMA HeadAndTail ==
    ASSUME NEW s \in Seq(Units), s # <<>>
    PROVE  <<Head(s)>> \o Tail(s) = s
<1>1. /\ Head(s) \in Units /\ Tail(s) \in Seq(Units) /\ Len(Tail(s)) = Len(s) - 1
      /\ \A i \in 1..Len(Tail(s)) : Tail(s)[i] = s[i + 1]
  BY HeadTailProperties
<1>2. Len(s) \in Nat \ {0} /\ Head(s) = s[1]
  BY EmptySeq
<1> DEFINE one == <<Head(s)>>
<1>3. one \in Seq(Units) /\ Len(one) = 1 /\ one[1] = Head(s)
  BY <1>1
<1> HIDE DEF one
<1>4. /\ one \o Tail(s) \in Seq(Units) /\ Len(one \o Tail(s)) = Len(one) + Len(Tail(s))
      /\ \A i \in 1..(Len(one) + Len(Tail(s))) :
            (one \o Tail(s))[i] = IF i <= Len(one) THEN one[i] ELSE Tail(s)[i - Len(one)]
  BY <1>1, <1>3, Joined, Zenon
<1>5. Len(one \o Tail(s)) = Len(s) /\ Len(one) + Len(Tail(s)) = Len(s)
  BY <1>1, <1>2, <1>3, <1>4
<1>6. ASSUME NEW i \in 1..Len(s)
      PROVE  (one \o Tail(s))[i] = s[i]
  <2>1. CASE i = 1
    BY <1>2, <1>3, <1>4, <1>5, <2>1
  <2>2. CASE i # 1
    <3>1. ~(i <= Len(one)) /\ i - Len(one) = i - 1 /\ i - 1 \in 1..Len(Tail(s)) /\ (i - 1) + 1 = i
      BY <1>1, <1>2, <1>3, <2>2
    <3>2. (one \o Tail(s))[i] = Tail(s)[i - Len(one)]
      BY <1>4, <1>5, <3>1, Zenon
    <3>3. Tail(s)[i - 1] = s[(i - 1) + 1]
      BY <1>1, <3>1, Zenon
    <3> QED
      BY <3>1, <3>2, <3>3
  <2> QED
    BY <2>1, <2>2
<1>7. one \o Tail(s) = s
  BY <1>4, <1>5, <1>6, SeqEqual
<1> QED
  BY <1>7, Zenon DEF one

\* uart_put adds as many units as there is room for to the end of the line, the first
\* ones of what it is given.
LEMMA PutExtends ==
    ASSUME UartInv, NEW units \in Seq(Units), units # <<>>, Uart!Put(units)
    PROVE  /\ wire' \in Seq(Units) /\ fifo' \in Seq(Units)
           /\ sending' = TRUE /\ Len(fifo') <= Capacity
           /\ \E n \in 0..Len(units) : Line' = Line \o SubSeq(units, 1, n)
<1>1. /\ wire \in Seq(Units) /\ fifo \in Seq(Units) /\ Len(fifo) \in Nat /\ Len(fifo) <= Capacity
      /\ sending \in BOOLEAN /\ Len(units) \in Nat \ {0} /\ Capacity \in Nat
  BY UartSizes, EmptySeq, LenProperties DEF UartInv, LineBelongs, Uart!TypeOK
<1>2. CASE sending
  <2> DEFINE room == Capacity - Len(fifo)
             n == IF Len(units) < room THEN Len(units) ELSE room
  <2>1. n \in 0..Len(units) /\ n <= room
    BY <1>1
  <2>2. SubSeq(units, 1, n) \in Seq(Units) /\ Len(SubSeq(units, 1, n)) = n
    BY <1>1, <2>1, SubSeqProperties, ElementOfSeq
  <2>3. SubSeq(units, 1, Len(units)) = units /\ wire \o <<>> = wire
    BY <1>1, SubSeqFull, ConcatEmptySeq
  <2>4. wire' = wire /\ fifo' = fifo \o SubSeq(units, 1, n) /\ sending' = TRUE
    BY <1>1, <1>2, <2>3 DEF Uart!Put
  <2>5. fifo' \in Seq(Units) /\ Len(fifo') = Len(fifo) + n
    BY <1>1, <2>2, <2>4, ConcatProperties
  <2> HIDE DEF n, room
  <2>6. Line' = Line \o SubSeq(units, 1, n)
    <3>1. (wire \o fifo) \o SubSeq(units, 1, n) = wire \o (fifo \o SubSeq(units, 1, n))
      BY <1>1, <2>2, Associative, Zenon
    <3> QED
      BY <2>4, <3>1, Zenon DEF Line
  <2>7. Len(fifo') <= Capacity
    BY <1>1, <2>1, <2>5 DEF room
  <2>8. wire' \in Seq(Units)
    BY <1>1, <2>4
  <2> QED
    BY <2>1, <2>4, <2>5, <2>6, <2>7, <2>8, Zenon
<1>3. CASE ~sending
  <2> DEFINE first == SubSeq(units, 1, 1)
             rest == SubSeq(units, 2, Len(units))
             m == IF Len(rest) < Capacity THEN Len(rest) ELSE Capacity
  <2>1. /\ first \in Seq(Units) /\ Len(first) = 1 /\ first[1] = units[1]
        /\ rest \in Seq(Units) /\ Len(rest) = Len(units) - 1
        /\ \A i \in 1..(Len(units) - 1) : rest[i] = units[i + 1]
    <3>1. first \in Seq(Units) /\ Len(first) = 1 /\ first[1] = units[1]
      BY <1>1, Part
    <3>2. /\ rest \in Seq(Units) /\ Len(rest) = Len(units) - 2 + 1
          /\ \A i \in 1..(Len(units) - 2 + 1) : rest[i] = units[2 + i - 1]
      <4>1. 2 \in 1..(Len(units) + 1) /\ Len(units) \in (2 - 1)..Len(units)
        BY <1>1
      <4> QED
        BY <4>1, Part, Zenon
    <3>3. Len(units) - 2 + 1 = Len(units) - 1
      BY <1>1
    <3> HIDE DEF first, rest
    <3> QED
      BY <1>1, <3>1, <3>2, <3>3
  <2>2. m \in 0..Len(rest) /\ m <= Capacity
    BY <1>1, <2>1
  <2>3. fifo = <<>> /\ Len(fifo) = 0
    BY <1>3, EmptySeq DEF UartInv, Uart!TypeOK
  <2> HIDE DEF first, rest, m
  <2>4. wire' = wire \o first /\ fifo' = <<>> \o SubSeq(rest, 1, m) /\ sending' = TRUE
    BY <1>1, <1>3, <2>1, <2>3 DEF Uart!Put, first, rest, m
  <2>5. /\ SubSeq(rest, 1, m) \in Seq(Units) /\ Len(SubSeq(rest, 1, m)) = m
        /\ \A i \in 1..m : SubSeq(rest, 1, m)[i] = rest[i]
    BY <2>1, <2>2, Part
  <2>6. fifo' = SubSeq(rest, 1, m)
    BY <2>4, <2>5, ConcatEmptySeq
  <2>7. first \o SubSeq(rest, 1, m) = SubSeq(units, 1, 1 + m)
    <3>1. /\ first \o SubSeq(rest, 1, m) \in Seq(Units)
          /\ Len(first \o SubSeq(rest, 1, m)) = 1 + m
          /\ \A i \in 1..(1 + m) : (first \o SubSeq(rest, 1, m))[i]
                = IF i <= 1 THEN first[i] ELSE SubSeq(rest, 1, m)[i - 1]
      <4>1. /\ first \o SubSeq(rest, 1, m) \in Seq(Units)
            /\ Len(first \o SubSeq(rest, 1, m)) = Len(first) + Len(SubSeq(rest, 1, m))
            /\ \A i \in 1..(Len(first) + Len(SubSeq(rest, 1, m))) :
                  (first \o SubSeq(rest, 1, m))[i]
                    = IF i <= Len(first) THEN first[i] ELSE SubSeq(rest, 1, m)[i - Len(first)]
        BY <2>1, <2>5, Joined, Zenon
      <4> QED
        BY <2>1, <2>5, <4>1, Zenon
    <3>2. 1 + m \in 1..Len(units)
      BY <1>1, <2>1, <2>2
    <3>3. \A i \in 1..(1 + m) : units[i] \in Units
      BY <1>1, <3>2, ElementOfSeq
    <3>4. /\ SubSeq(units, 1, 1 + m) \in Seq(Units)
          /\ Len(SubSeq(units, 1, 1 + m)) = 1 + m
          /\ \A i \in 1..(1 + m) : SubSeq(units, 1, 1 + m)[i] = units[i]
      BY <3>2, <3>3, SubSeqProperties
    <3>5. \A i \in 1..(1 + m) : (first \o SubSeq(rest, 1, m))[i] = SubSeq(units, 1, 1 + m)[i]
      <4> SUFFICES ASSUME NEW i \in 1..(1 + m)
                   PROVE  (first \o SubSeq(rest, 1, m))[i] = SubSeq(units, 1, 1 + m)[i]
        OBVIOUS
      <4>1. SubSeq(units, 1, 1 + m)[i] = units[i]
        BY <3>4
      <4>2. CASE i = 1
        BY <2>1, <3>1, <4>1, <4>2
      <4>3. CASE i # 1
        <5>1. i - 1 \in 1..m /\ i - 1 \in 1..(Len(units) - 1) /\ (i - 1) + 1 = i /\ ~(i <= 1)
          BY <1>1, <2>1, <2>2, <4>3
        <5>2. (first \o SubSeq(rest, 1, m))[i] = SubSeq(rest, 1, m)[i - 1]
          BY <3>1, <5>1
        <5>3. SubSeq(rest, 1, m)[i - 1] = rest[i - 1]
          BY <2>5, <5>1
        <5>4. rest[i - 1] = units[(i - 1) + 1]
          BY <2>1, <5>1
        <5> QED
          BY <4>1, <5>1, <5>2, <5>3, <5>4
      <4> QED
        BY <4>2, <4>3
    <3> QED
      BY <3>1, <3>4, <3>5, SeqEqual
  <2>8. Line' = Line \o SubSeq(units, 1, 1 + m)
    <3>1. Line' = wire \o (first \o SubSeq(rest, 1, m))
      <4>1. (wire \o first) \o SubSeq(rest, 1, m) = wire \o (first \o SubSeq(rest, 1, m))
        BY <1>1, <2>1, <2>5, Associative, Zenon
      <4> QED
        BY <2>4, <2>6, <4>1, Zenon DEF Line
    <3>2. Line = wire
      BY <1>1, <2>3, ConcatEmptySeq DEF Line
    <3> QED
      BY <2>7, <3>1, <3>2
  <2>9. 1 + m \in 0..Len(units)
    BY <1>1, <2>1, <2>2
  <2>10. wire' \in Seq(Units)
    BY <1>1, <2>1, <2>4, ConcatProperties
  <2> QED
    BY <2>2, <2>4, <2>5, <2>6, <2>8, <2>9, <2>10
<1> QED
  BY <1>1, <1>2, <1>3

LEMMA UartStarts == Uart!Init => UartInv
<1> SUFFICES ASSUME Uart!Init PROVE UartInv
  OBVIOUS
<1>1. /\ received = <<>> /\ received \in Seq(0..Uart!Garbled) /\ Len(received) = 0
      /\ fifo = <<>> /\ fifo \in Seq(Units) /\ Len(fifo) = 0 /\ wire \in Seq(Units)
      /\ sending = FALSE
  BY EmptySeq DEF Uart!Init
<1>2. Line = <<>> /\ Len(Line) = 0
  <2>1. wire = <<>> /\ fifo = <<>> /\ <<>> \in Seq(Units)
    BY EmptySeq DEF Uart!Init
  <2>2. <<>> \o <<>> = <<>>
    BY <2>1, ConcatEmptySeq
  <2> QED
    BY <2>1, <2>2, EmptySeq DEF Line
<1>3. LineBelongs
  BY <1>1, <1>2 DEF LineBelongs
<1>4. Uart!CrcMeansWhole
  BY <1>2 DEF Uart!CrcMeansWhole, Line
<1>5. Uart!TypeOK
  <2>1. Len(received) <= MaxReceptions /\ Len(fifo) <= Capacity
    BY <1>1, UartSizes
  <2>2. sending \in BOOLEAN
    BY <1>1
  <2> QED
    BY <1>1, <2>1, <2>2, Zenon DEF Uart!TypeOK
<1> QED
  BY <1>3, <1>4, <1>5 DEF UartInv

\* A reception adds the first units of its frame, and only its last one is a checksum.
LEMMA ReceptionKeeps ==
    ASSUME UartInv, NEW r \in 0..Uart!Garbled, NEW units \in Seq(Units), units # <<>>,
           Len(received) < MaxReceptions, received' = Append(received, r), Uart!Put(units),
           \A i \in 1..Len(units) : units[i].of = Len(received) + 1,
           \A i \in 1..Len(units) : units[i].name = "crc" =>
                i = Len(units) /\ units = Uart!Frame(Len(received) + 1, r)
    PROVE  UartInv'
<1>1. /\ received \in Seq(0..Uart!Garbled) /\ Len(received) \in Nat
      /\ Len(units) \in Nat \ {0}
      /\ wire \in Seq(Units) /\ fifo \in Seq(Units) /\ MaxReceptions \in Nat
  BY UartSizes, LenProperties, EmptySeq DEF UartInv, Uart!TypeOK, LineBelongs
<1>2. /\ received' \in Seq(0..Uart!Garbled) /\ Len(received') = Len(received) + 1
      /\ \A k \in 1..Len(received) : received'[k] = received[k]
      /\ received'[Len(received) + 1] = r
  BY <1>1, AppendProperties
<1>3. /\ wire' \in Seq(Units) /\ fifo' \in Seq(Units)
      /\ sending' = TRUE /\ Len(fifo') <= Capacity
      /\ \E n \in 0..Len(units) : Line' = Line \o SubSeq(units, 1, n)
  BY PutExtends
<1>4. PICK n \in 0..Len(units) : Line' = Line \o SubSeq(units, 1, n)
  BY <1>3
<1>5. Line \in Seq(Units) /\ Len(Line) \in Nat
  BY <1>1, Joined, LenProperties DEF Line
<1>6. /\ SubSeq(units, 1, n) \in Seq(Units) /\ Len(SubSeq(units, 1, n)) = n
      /\ \A i \in 1..n : SubSeq(units, 1, n)[i] = units[i]
  BY <1>1, Part
<1>7. /\ Line' \in Seq(Units) /\ Len(Line') = Len(Line) + n
      /\ \A i \in 1..(Len(Line) + n) :
            Line'[i] = IF i <= Len(Line) THEN Line[i] ELSE SubSeq(units, 1, n)[i - Len(Line)]
  BY <1>4, <1>5, <1>6, Joined
<1>8. \A i \in 1..Len(Line) : Line'[i] = Line[i]
  BY <1>1, <1>5, <1>7
<1>9. \A j \in 1..n : Line'[Len(Line) + j] = units[j]
  <2> SUFFICES ASSUME NEW j \in 1..n PROVE Line'[Len(Line) + j] = units[j]
    OBVIOUS
  <2>1. Len(Line) + j \in 1..(Len(Line) + n) /\ ~(Len(Line) + j <= Len(Line)) /\ (Len(Line) + j) - Len(Line) = j
    BY <1>1, <1>5
  <2>2. Line'[Len(Line) + j] = SubSeq(units, 1, n)[(Len(Line) + j) - Len(Line)]
    BY <1>7, <2>1
  <2> QED
    BY <1>6, <2>1, <2>2
<1>10. \A i \in 1..Len(Line') : i \in 1..Len(Line) \/ \E j \in 1..n : i = Len(Line) + j
  <2> SUFFICES ASSUME NEW i \in 1..Len(Line'), i \notin 1..Len(Line)
               PROVE  \E j \in 1..n : i = Len(Line) + j
    OBVIOUS
  <2>1. i - Len(Line) \in 1..n /\ i = Len(Line) + (i - Len(Line))
    BY <1>1, <1>5, <1>7
  <2> QED
    BY <2>1
<1>11. LineBelongs'
  <2> SUFFICES ASSUME NEW i \in 1..Len(Line') PROVE Line'[i].of \in 1..Len(received')
    BY <1>3 DEF LineBelongs
  <2>1. CASE i \in 1..Len(Line)
    <3>1. Line'[i].of \in 1..Len(received)
      BY <1>8, <2>1 DEF UartInv, LineBelongs
    <3> QED
      BY <1>1, <1>2, <3>1
  <2>2. CASE \E j \in 1..n : i = Len(Line) + j
    <3>1. PICK j \in 1..n : i = Len(Line) + j
      BY <2>2
    <3>2. j \in 1..Len(units)
      BY <1>1
    <3>3. Line'[i].of = Len(received) + 1
      BY <1>9, <3>1, <3>2
    <3> QED
      BY <1>1, <1>2, <3>3
  <2> QED
    BY <1>10, <2>1, <2>2
<1>12. Uart!CrcMeansWhole'
  <2> SUFFICES ASSUME NEW i \in 1..Len(Line'), Line'[i].name = "crc"
               PROVE  LET frame == Uart!Frame(Line'[i].of, received'[Line'[i].of])
                      IN  i >= Len(frame) /\ SubSeq(Line', i - Len(frame) + 1, i) = frame
    BY Zenon DEF Uart!CrcMeansWhole, Line
  <2>1. CASE i \in 1..Len(Line)
    <3> DEFINE k == Line[i].of
               frame == Uart!Frame(k, received[k])
    <3>1. Line'[i] = Line[i] /\ k \in 1..Len(received) /\ received'[k] = received[k]
      BY <1>2, <1>8, <2>1 DEF UartInv, LineBelongs
    <3>2. i >= Len(frame) /\ SubSeq(Line, i - Len(frame) + 1, i) = frame
      BY <2>1, <3>1 DEF UartInv, Uart!CrcMeansWhole, Line
    <3>3. Len(frame) \in Nat /\ Len(frame) >= 4
      <4>1. received[k] \in 0..Uart!Garbled
        BY <1>1, <3>1, ElementOfSeq
      <4>2. received[k] \in Nat /\ k \in Nat
        BY <4>1, <3>1, UartSizes DEF Uart!Garbled
      <4>3. Len(Uart!Frame(k, received[k])) = received[k] + 4
        BY <4>2, FrameUnits, Zenon
      <4> QED
        BY <4>2, <4>3
    <3> HIDE DEF frame
    <3>4. i - Len(frame) + 1 \in 1..i
      BY <2>1, <3>2, <3>3
    <3>5. SubSeq(Line', i - Len(frame) + 1, i) = SubSeq(Line, i - Len(frame) + 1, i)
      <4>1. i <= Len(Line')
        BY <1>1, <1>5, <1>7, <2>1
      <4> QED
        BY <1>5, <1>7, <1>8, <2>1, <3>4, <4>1, SamePart, Zenon
    <3>6. i >= Len(frame) /\ SubSeq(Line', i - Len(frame) + 1, i) = frame
      BY <3>2, <3>5
    <3> QED
      BY <3>1, <3>6, Zenon DEF frame
  <2>2. CASE \E j \in 1..n : i = Len(Line) + j
    <3>1. PICK j \in 1..n : i = Len(Line) + j
      BY <2>2
    <3>2. j \in 1..Len(units) /\ Line'[i] = units[j]
      BY <1>1, <1>9, <3>1
    <3>3. j = Len(units) /\ units = Uart!Frame(Len(received) + 1, r) /\ Line'[i].of = Len(received) + 1
      BY <3>2
    <3>4. n = Len(units) /\ i = Len(Line) + Len(units)
      BY <1>1, <1>5, <3>1, <3>3
    <3>5. Line' = Line \o units /\ i = Len(Line) + Len(units)
      BY <1>4, <3>4, SubSeqFull
    <3>6. SubSeq(Line', i - Len(units) + 1, i) = units
      BY <1>5, <3>5, LastPart
    <3>7. i >= Len(units)
      BY <1>1, <1>5, <3>4
    <3> QED
      BY <1>2, <3>3, <3>6, <3>7, Zenon
  <2> QED
    BY <1>10, <2>1, <2>2
<1>13. Uart!TypeOK'
  <2>1. Len(received') <= MaxReceptions
    BY <1>1, <1>2
  <2> QED
    BY <1>2, <1>3, <2>1, Zenon DEF Uart!TypeOK, Uart!Garbled
<1> QED
  BY <1>11, <1>12, <1>13 DEF UartInv

\* The UART's own interrupt moves a unit on and leaves the line as it is.
LEMMA LineStays ==
    ASSUME UartInv, Line' = Line, received' = received, wire' \in Seq(Units), fifo' \in Seq(Units),
           Len(fifo') <= Len(fifo), sending' \in BOOLEAN, ~sending' => fifo' = <<>>
    PROVE  UartInv'
<1>1. LineBelongs'
  BY DEF UartInv, LineBelongs
<1>2. Uart!CrcMeansWhole'
  BY Zenon DEF UartInv, Uart!CrcMeansWhole, Line
<1>3. Uart!TypeOK'
  <2>1. Len(fifo) \in Nat /\ Len(fifo') \in Nat /\ Capacity \in Nat
    BY UartSizes, LenProperties DEF UartInv, LineBelongs
  <2>2. Len(fifo') <= Capacity
    BY <2>1 DEF UartInv, Uart!TypeOK
  <2> QED
    BY <2>2, Zenon DEF UartInv, Uart!TypeOK, Uart!Garbled
<1> QED
  BY <1>1, <1>2, <1>3 DEF UartInv

LEMMA UartKeeps == UartInv /\ [Uart!Next]_Uart!vars => UartInv'
<1> SUFFICES ASSUME UartInv, [Uart!Next]_Uart!vars PROVE UartInv'
  OBVIOUS
<1>1. /\ received \in Seq(0..Uart!Garbled) /\ Len(received) + 1 \in Nat
      /\ wire \in Seq(Units) /\ fifo \in Seq(Units) /\ Len(fifo) \in Nat
      /\ sending \in BOOLEAN
  BY LenProperties DEF UartInv, Uart!TypeOK, LineBelongs
<1>2. CASE Uart!RxOk
  <2>1. PICK length \in 0..MaxLength : /\ Uart!Put(Uart!Frame(Len(received) + 1, length))
                                       /\ received' = Append(received, length)
    BY <1>2 DEF Uart!RxOk
  <2>2. length \in Nat /\ length \in 0..Uart!Garbled
    BY UartSizes DEF Uart!Garbled
  <2> DEFINE units == Uart!Frame(Len(received) + 1, length)
  <2>3. /\ units \in Seq(Units) /\ Len(units) = length + 4
        /\ \A i \in 1..(length + 4) :
             units[i].of = Len(received) + 1 /\ (units[i].name = "crc" => i = length + 4)
    BY <1>1, <2>2, FrameUnits
  <2>4. units # <<>>
    BY <2>2, <2>3, EmptySeq
  <2>5. Len(received) < MaxReceptions
    BY <1>2 DEF Uart!RxOk
  <2> QED
    BY <2>1, <2>2, <2>3, <2>4, <2>5, ReceptionKeeps
<1>3. CASE Uart!RxErr
  <2> DEFINE units == Uart!ErrorFrame(Len(received) + 1)
  <2>1. /\ units \in Seq(Units) /\ Len(units) = 2
        /\ \A i \in 1..2 : units[i].of = Len(received) + 1 /\ units[i].name # "crc"
    BY <1>1, ErrorUnits
  <2>2. units # <<>>
    BY <2>1, EmptySeq
  <2>3. Uart!Put(units) /\ received' = Append(received, Uart!Garbled) /\ Len(received) < MaxReceptions
    BY <1>3 DEF Uart!RxErr
  <2>4. Uart!Garbled \in 0..Uart!Garbled
    BY UartSizes DEF Uart!Garbled
  <2> HIDE DEF units
  <2> QED
    BY <2>1, <2>2, <2>3, <2>4, ReceptionKeeps
<1>4. CASE Uart!TxReady
  <2>1. /\ wire' = Append(wire, Head(fifo)) /\ fifo' = Tail(fifo) /\ fifo # <<>>
        /\ received' = received /\ sending' = sending /\ sending
    BY <1>4 DEF Uart!TxReady
  <2>2. /\ Head(fifo) \in Units /\ fifo' \in Seq(Units) /\ Len(fifo') = Len(fifo) - 1
        /\ wire' \in Seq(Units)
    BY <1>1, <2>1, HeadTailProperties, AppendProperties
  <2>3. Line' = Line
    <3>1. <<Head(fifo)>> \in Seq(Units) /\ Append(wire, Head(fifo)) = wire \o <<Head(fifo)>>
      BY <1>1, <2>2, AppendIsConcat
    <3>2. (wire \o <<Head(fifo)>>) \o Tail(fifo) = wire \o (<<Head(fifo)>> \o Tail(fifo))
      BY <1>1, <2>1, <2>2, <3>1, Associative, Zenon
    <3>3. <<Head(fifo)>> \o Tail(fifo) = fifo
      BY <1>1, <2>1, HeadAndTail
    <3> QED
      BY <2>1, <3>1, <3>2, <3>3, Zenon DEF Line
  <2> QED
    BY <1>1, <2>1, <2>2, <2>3, LineStays
<1>5. CASE Uart!TxDone \/ UNCHANGED Uart!vars
  <2>1. /\ received' = received /\ fifo' = fifo /\ wire' = wire
        /\ sending' \in BOOLEAN /\ (~sending' => fifo' = <<>>)
    BY <1>1, <1>5 DEF Uart!TxDone, Uart!vars, UartInv, Uart!TypeOK
  <2>2. Line' = Line
    BY <2>1 DEF Line
  <2> QED
    BY <1>1, <2>1, <2>2, LineStays
<1> QED
  BY <1>2, <1>3, <1>4, <1>5 DEF Uart!Next

\* Whatever the buffer drops, a unit that ends with a checksum ends a whole frame of
\* one reception.
THEOREM OnlyWholeChecked == Uart!Spec => []LineKept
<1>1. UartInv => LineKept
  BY DEF UartInv, LineKept
<1> QED
  BY <1>1, UartStarts, UartKeeps, PTL DEF Uart!Spec
============================================================================
