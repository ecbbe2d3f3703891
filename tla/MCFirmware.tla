----------------------------- MODULE MCFirmware -----------------------------
(***************************************************************************)
(* The firmware's parts, and the checksum that the observer ends a frame   *)
(* with.  They share no state with each other, so what one does is the     *)
(* same whatever the others do: one of them, chosen at the start, runs,    *)
(* and the others keep their initial state.  One of them is an orderly     *)
(* network of TIMING_ANCHOR_COUNT anchors, so that three senders share the *)
(* two records of a receiver.                                              *)
(***************************************************************************)
EXTENDS Firmware

VARIABLES
    part,   \* the part that runs
    crc, division, bad, damaged, left,
    \* the variables of the four anchors
    on4, counter4, cc04, cc14, compensation4, due4, state4, superframe_id4, infos4, src_parity4,
    old_src_id4, rxOn4, air4, rxPc4, rxMsg4, rxCap4, rxJoin4

crcVars == <<crc, division, bad, damaged, left>>
fourVars == <<on4, counter4, cc04, cc14, compensation4, due4, state4, superframe_id4, infos4,
              src_parity4, old_src_id4, rxOn4, air4, rxPc4, rxMsg4, rxCap4, rxJoin4>>
firmwareVars == <<part, vars, gapVars, observerVars, crcVars, fourVars>>

\* Every byte after every byte; and every burst of up to 8 wrong bits, wherever
\* it begins in the first of two bytes.
Table == INSTANCE Crc WITH Bytes <- 0..255, Bursts <- {128}, MaxBytes <- 2
Burst == INSTANCE Crc WITH
    Bytes <- {0, 120, 255}, MaxBytes <- 3,
    Bursts <- {m * 2^shift : m \in 1..255, shift \in 0..8}

\* Anchors 0 and 2 begin together, 1 and 3 join; 3 may leave, between two superframes.
Four == INSTANCE AnchorTdma WITH
    N <- 4, SLOT <- 2, PREFIX <- 1, SYNC <- 0, DISCOVERY <- 1, IDS <- 3, WIDTH <- 64,
    Founders <- {0, 2}, Crashable <- {3}, Unreliable <- {}, Orderly <- TRUE,
    on <- on4, counter <- counter4, cc0 <- cc04, cc1 <- cc14, compensation <- compensation4,
    due <- due4, state <- state4, superframe_id <- superframe_id4, infos <- infos4,
    src_parity <- src_parity4, old_src_id <- old_src_id4, rxOn <- rxOn4, air <- air4,
    rxPc <- rxPc4, rxMsg <- rxMsg4, rxCap <- rxCap4, rxJoin <- rxJoin4

ASSUME InstancesAssumption ==
    /\ Table!ConstantsAssumption /\ Burst!ConstantsAssumption
    /\ Four!SizesAssumption /\ Four!ScenarioAssumption

FirmwareInit ==
    /\ part \in {"radio", "gap", "observer", "table", "burst", "four"}
    /\ Init /\ Gap!Init /\ Uart!Init /\ Four!Init
    /\ IF part = "burst" THEN Burst!Init ELSE Table!Init

FirmwareNext ==
    /\ UNCHANGED part
    /\ \/ /\ \/ part = "radio" /\ Next /\ UNCHANGED <<gapVars, observerVars, crcVars>>
             \/ part = "gap" /\ Gap!Next /\ UNCHANGED <<vars, observerVars, crcVars>>
             \/ part = "observer" /\ Uart!Next /\ UNCHANGED <<vars, gapVars, crcVars>>
             \/ part = "table" /\ Table!Next /\ UNCHANGED <<vars, gapVars, observerVars>>
             \/ part = "burst" /\ Burst!Next /\ UNCHANGED <<vars, gapVars, observerVars>>
          /\ UNCHANGED fourVars
       \/ /\ part = "four" /\ Four!Next
          /\ UNCHANGED <<vars, gapVars, observerVars, crcVars>>

\* The fairness of RadioDriver and BleGap, each for when it runs.
FirmwareFairness ==
    /\ WF_vars(part = "radio" /\ ChipStartsTx) /\ WF_vars(part = "radio" /\ ChipSent)
    /\ WF_vars(part = "radio" /\ IsrStep) /\ WF_vars(part = "radio" /\ Transmit)
    /\ WF_gapVars(part = "gap" /\ Gap!Handler)
    /\ WF_gapVars(part = "gap" /\ link = "closing" /\ Gap!Lose)

FirmwareSpec == FirmwareInit /\ [][FirmwareNext]_firmwareVars /\ FirmwareFairness

----------------------------------------------------------------------------
(* Properties that more than one part, or its fairness, is needed for. *)

\* What a reader of the observer's line relies on: the checksum ends a whole frame,
\* the table computes the division, and a burst of errors no longer than the
\* checksum is always noticed.
ChecksumMeans == LineKept /\ Table!TableDivides /\ Burst!BurstsNoticed

\* With four anchors up, every time stamp that is sent out stands in the record that
\* names the anchor it was taken of, though three senders share two records.
StampsOfFour == Four!StampsAttributed

\* An anchor and a tag come back: a receiver that was turned off is turned on
\* again, and however a connection ends, a tag that has not stopped advertises.
ComesBack == ListensAgain /\ Gap!FoundAgain
=============================================================================
