------------------------------ MODULE Firmware ------------------------------
(***************************************************************************)
(* The firmware's parts that share nothing with the schedule or the modes: *)
(* an anchor's radio driver, a tag's connection and an observer.           *)
(***************************************************************************)
EXTENDS RadioDriver, Sequences

CONSTANTS
    Requests, MaxEvents,                   \* of BleGap
    Capacity, MaxLength, MaxReceptions     \* of Observer

VARIABLES
    link, events, conn, params, fault,
    received, sending, fifo, wire

gapVars == <<link, events, conn, params, fault>>
observerVars == <<received, sending, fifo, wire>>

Gap == INSTANCE BleGap
Uart == INSTANCE Observer

ASSUME PartsAssumption == Gap!ConstantsAssumption /\ Uart!SizesAssumption

----------------------------------------------------------------------------
(* Properties: RadioDriver's own, and those of the other two. *)

\* The tag's connection under a main loop that is behind: when it has caught up,
\* the handle is valid exactly for a link, and a refused call stops the tag only
\* for a link that ends, or whose end waits.
LinkKept == Gap!TypeOK /\ Gap!HandleFollowsLink /\ Gap!StopsOnlyLate

\* The checksum on the observer's line ends a whole frame.
LineKept == Uart!TypeOK /\ Uart!CrcMeansWhole
=============================================================================
