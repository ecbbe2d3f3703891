---------------------------- MODULE RadioDriver ----------------------------
(***************************************************************************)
(* An anchor's DW1000 and the three that use it: the chip itself, the      *)
(* driver's interrupt dwt_isr with the callbacks of impl_anchor.c, and the *)
(* frame timer's interrupt, which sends.  The timer has priority 2 and the *)
(* pin's interrupt 6, so transmit_anchor_msg runs between any two SPI      *)
(* transfers of dwt_isr; one transfer is a critical region of its own.     *)
(*                                                                         *)
(* The pin interrupt is raised by the rising edge only, and the line is    *)
(* high as long as any event is set: an event that comes while another one *)
(* is set raises nothing.                                                  *)
(***************************************************************************)
EXTENDS Naturals

CONSTANTS
    MaxRefused,   \* bound: transmissions that dwt_starttx finds too late
    RxCancels     \* the chip may drop a delayed transmission when it is told to
                  \* receive meanwhile, which its interface leaves open

ASSUME ConstantsAssumption == MaxRefused \in Nat /\ RxCancels \in BOOLEAN

VARIABLES
    radio,     \* the transceiver: "idle", "rx", "delay" (before a delayed
               \* transmission), "tx"
    status,    \* the events of SYS_STATUS: "RXFCG", "TXFRS", "ERR"
    edge,      \* the GPIOTE channel has seen an edge that is not served
    isr,       \* where dwt_isr is, "idle" if it does not run
    snap,      \* the status it has read
    refused,   \* a message was too late to be sent, and nothing has happened since
    late       \* how many were
vars == <<radio, status, edge, isr, snap, refused, late>>

Events == {"RXFCG", "TXFRS", "ERR"}

\* dwm1000_irq_enable and the dwt_rxenable at the end of impl_anchor_init.
Init ==
    /\ radio = "rx" /\ status = {} /\ edge = FALSE
    /\ isr = "idle" /\ snap = {} /\ refused = FALSE /\ late = 0

----------------------------------------------------------------------------
(* The chip.  A reception, whole or not, ends with the receiver off.       *)

Raise(event) ==
    /\ status' = status \cup {event}
    /\ edge' = (edge \/ status = {})
    /\ UNCHANGED <<isr, snap, refused, late>>

ChipReceives == radio = "rx" /\ radio' = "idle" /\ \E event \in {"RXFCG", "ERR"} : Raise(event)

\* The delay is 1451us (TIMING_MESSAGE_TX_PREFIX_TIME_US): what is left of an
\* interrupted dwt_isr takes less.
ChipStartsTx ==
    /\ radio = "delay" /\ isr = "idle"
    /\ radio' = "tx" /\ UNCHANGED <<status, edge, isr, snap, refused, late>>

ChipSent == radio = "tx" /\ radio' = "idle" /\ Raise("TXFRS")

----------------------------------------------------------------------------
(* The driver's calls *)

\* dwt_rxenable(0).
RxEnable ==
    \/ radio \in {"idle", "rx"} /\ radio' = "rx"
    \/ radio \in {"delay", "tx"} /\ radio' = radio
    \/ radio = "delay" /\ RxCancels /\ radio' = "rx"

\* dwt_forcetrxoff: with interrupts off and the mask at zero, so that an event
\* that comes before the transceiver is off is cleared unseen.
ForceTrxOff == radio' = "idle" /\ status' = {}

\* Variant: a slot may begin while a delayed transmission waits.
OnAir == radio = "tx" \/ "TXFRS" \in status \cup snap

InTransmission ==
    \/ radio \in {"delay", "tx"}
    \/ "TXFRS" \in status \cup snap

\* transmit_anchor_msg, from dwt_forcetrxoff to dwt_starttx.  A slot is longer
\* than a transmission and its interrupt.
Transmit ==
    /\ ~InTransmission
    /\ status' = {}
    /\ radio' = "delay" /\ refused' = FALSE
    /\ UNCHANGED <<edge, isr, snap, late>>

\* dwt_starttx finds that the time has passed and turns the transceiver off;
\* the caller logs it.
TransmitLate ==
    /\ ~InTransmission
    /\ late < MaxRefused /\ late' = late + 1
    /\ ForceTrxOff
    /\ refused' = TRUE
    /\ UNCHANGED <<edge, isr, snap>>

----------------------------------------------------------------------------
(* dwt_isr *)

IsrEnter ==
    /\ edge /\ isr = "idle"
    /\ edge' = FALSE /\ isr' = "read"
    /\ UNCHANGED <<radio, status, snap, refused, late>>

\* The branch that follows, for the events of the copy that are left.
Branch(events) ==
    CASE "RXFCG" \in events                  -> "rx"
      [] events \cap {"RXFCG", "TXFRS"} = {"TXFRS"} -> "tx"
      [] events = {"ERR"}                    -> "err"
      [] OTHER                               -> "idle"

Goto(events) == isr' = Branch(events) /\ snap' = events

IsrRead ==
    /\ isr = "read"
    /\ Goto(status)
    /\ UNCHANGED <<radio, status, edge, refused, late>>

\* Variant: the events are left set.
ClearForgotten(branch, event, callback) ==
    /\ isr = branch
    /\ isr' = callback
    /\ UNCHANGED <<radio, status, edge, snap, refused, late>>

\* A branch first clears its events, then comes the callback.
Clear(branch, event, callback) ==
    /\ isr = branch
    /\ status' = status \ {event}
    /\ isr' = callback
    /\ UNCHANGED <<radio, edge, snap, refused, late>>

\* Variants: the callback of an error, or of a message sent, leaves the
\* receiver off.
CallbackErrDeaf(event, callback) ==
    /\ isr = callback
    /\ IF event = "ERR" THEN UNCHANGED radio ELSE RxEnable
    /\ Goto(snap \ {event})
    /\ UNCHANGED <<status, edge, refused, late>>
CallbackTxDeaf(event, callback) ==
    /\ isr = callback
    /\ IF event = "TXFRS" THEN UNCHANGED radio ELSE RxEnable
    /\ Goto(snap \ {event})
    /\ UNCHANGED <<status, edge, refused, late>>

\* mac_rxok_callback_impl, mac_txok_callback_impl and mac_rxerr_callback_impl
\* end with dwt_rxenable(0).
Callback(event, callback) ==
    /\ isr = callback
    /\ RxEnable
    /\ Goto(snap \ {event})
    /\ refused' = FALSE
    /\ UNCHANGED <<status, edge, late>>

\* After an error: dwt_forcetrxoff and dwt_rxreset.
IsrOff ==
    /\ isr = "off"
    /\ ForceTrxOff
    /\ isr' = "rxerr"
    /\ UNCHANGED <<edge, snap, refused, late>>

IsrRxOk == Clear("rx", "RXFCG", "rxok") \/ Callback("RXFCG", "rxok")
IsrTxOk == Clear("tx", "TXFRS", "txok") \/ Callback("TXFRS", "txok")
IsrRxErr == Clear("err", "ERR", "off") \/ IsrOff \/ Callback("ERR", "rxerr")
IsrStep == IsrEnter \/ IsrRead \/ IsrRxOk \/ IsrTxOk \/ IsrRxErr

Next == ChipReceives \/ ChipStartsTx \/ ChipSent \/ Transmit \/ TransmitLate \/ IsrStep

\* The chip finishes what it has begun, interrupts are served, and the frame
\* timer comes again in every superframe.
Fairness ==
    /\ WF_vars(ChipStartsTx) /\ WF_vars(ChipSent)
    /\ WF_vars(IsrStep) /\ WF_vars(Transmit)

Spec == Init /\ [][Next]_vars /\ Fairness

----------------------------------------------------------------------------
(* Properties *)

\* The state is of its type.
TypeOK ==
    /\ radio \in {"idle", "rx", "delay", "tx"}
    /\ status \subseteq Events /\ snap \subseteq Events
    /\ edge \in BOOLEAN /\ refused \in BOOLEAN
    /\ isr \in {"idle", "read", "rx", "rxok", "tx", "txok", "err", "off", "rxerr"}
    /\ late \in 0..MaxRefused

\* The line never stays high with nobody to serve it: an event that is set has
\* an edge that is not served, or dwt_isr is going to read or to clear it.
EventsServed ==
    status # {} => edge \/ isr = "read" \/ status \subseteq snap

\* The anchor is never left with its transceiver off and nothing under way
\* that turns it on, except by a message that was too late.
NotDeaf == radio = "idle" /\ ~edge /\ isr = "idle" => refused

\* dwt_isr loses nothing to the messages that interrupt it: no event without
\* somebody who serves it, no idle transceiver without somebody who turns it on.
DriverServes == TypeOK /\ EventsServed /\ NotDeaf

\* A receiver that was turned off is turned on again: at the latest by the end
\* of the anchor's next message.
ListensAgain == radio = "idle" ~> radio = "rx"

\* A transmission that dwt_starttx has accepted is sent and confirmed: nothing
\* cuts it on the air, and before it only the dwt_forcetrxoff of an error that
\* dwt_isr had read before the slot began, or the chip itself.
AbortedBefore == (isr = "off" /\ snap = {"ERR"}) \/ (RxCancels /\ radio' = "rx")
OnlyErrorsAbort ==
    [][/\ radio = "tx" => radio' = "tx" \/ "TXFRS" \in status'
       /\ radio = "delay" => radio' \in {"delay", "tx"} \/ AbortedBefore]_vars
=============================================================================
