---------------------------- MODULE TagPosition ----------------------------
(***************************************************************************)
(* A tag's notifications become positions: TagLink hands each one that the *)
(* map wants to PositionCalc, whose task then runs on the same main        *)
(* thread.  The link knows how many anchors the tag's network has, the     *)
(* calculator how many the map's configuration lists; nothing compares the *)
(* two.                                                                    *)
(* One map, which has one calculator.                                      *)
(***************************************************************************)
EXTENDS Integers, Sequences

CONSTANTS
    NetworkAnchors, \* TIMING_ANCHOR_COUNT of the tag's firmware
    MapAnchors,     \* the anchors that the map's configuration lists
    MaxDrops, MaxAir, MaxPosted     \* bounds

VARIABLES
    \* TagLink
    link, modeCharacteristic, requests, anchorCount, map, dialog, tag, air, handed, missed,
    drops, maps, crashed,
    \* PositionCalc
    data, posted, pc, rows, q, qPrev, iter, window, used, results

tagLink == <<link, modeCharacteristic, requests, anchorCount, map, dialog, tag, air, handed, missed,
             drops, maps, crashed>>
calc == <<data, posted, pc, rows, q, qPrev, iter, window, used, results>>

\* The 38 bytes of tag_to_ble_msg_t, packed: two ids, then the stamps.
Message == <<"group_id", "src_id">> \o [i \in 1..17 |-> "stamps"]

\* What the calculator takes the fields after the first two for: any number may stand there.
Measurements == {[i \in 1..n |-> "range"] : n \in 0..Len(Message)}

Link == INSTANCE TagLink WITH
    AnchorCount <- NetworkAnchors, RequestsFail <- FALSE, MapOnly <- FALSE, MaxMaps <- 1
Calc == INSTANCE PositionCalc WITH Anchors <- MapAnchors, MAXITER <- 20, WINDOW_SIZE <- 6

vars == <<tagLink, calc>>
Init == Link!Init /\ Calc!Init

(* onBlePositionDataReceived of the map: whatever was parsed is calculated. *)
Handed == modeCharacteristic = "ranging" /\ map

Received ==
    /\ Link!Receive
    /\ IF Handed /\ ~crashed'
       THEN \E m \in Measurements : Len(m) = Len(handed'.ranges) - 1 /\ Calc!Calculate(m)
       ELSE UNCHANGED calc

Next ==
    /\ ~crashed /\ pc # "crashed"
    /\ \/ Received
       \/ /\ Link!Library \/ Link!Drop \/ Link!Notify \/ Link!OpenMap \/ Link!CloseMap
          /\ UNCHANGED calc
       \/ Calc!Task /\ UNCHANGED tagLink

Spec == Init /\ [][Next]_vars

----------------------------------------------------------------------------
(* Lines 15 and 16 of BlePositionData.kt call what is handed on "Raw data calculated by *)
(* tag, to be processed in algorithm": the algorithm can take it, and does not end the  *)
(* app.                                                                                 *)
Processed == pc # "crashed"
=============================================================================
