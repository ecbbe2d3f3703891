------------------------------ MODULE TagLink ------------------------------
(***************************************************************************)
(* The phone's side of a tag: BleServiceImpl, its queue of requests and    *)
(* its listeners, with the map as the one that wants positions.  The tag   *)
(* is taken at the word of TagNode: it ranges when it is told to, notifies *)
(* while it does, and rests after a disconnection.                         *)
(***************************************************************************)
EXTENDS Integers, Sequences

CONSTANTS
    AnchorCount,    \* what the tag tells in its info, TIMING_ANCHOR_COUNT
    Message,        \* the 16-bit fields of a notification, tag_to_ble_msg_t
    MaxDrops,       \* bound: lost connections
    MaxMaps,        \* bound: maps opened
    MaxAir,         \* bound: notifications on their way
    RequestsFail,   \* a read or a write may fail
    MapOnly         \* the map is there from the start, and shows the dialog

BoundsAssumption == {AnchorCount, MaxDrops, MaxMaps, MaxAir} \subseteq Nat
MessageAssumption == Message \in Seq({"group_id", "src_id", "stamps"})

VARIABLES
    link,           \* down, up, or ready when the notifications are enabled
    modeCharacteristic,     \* its cached value on this connection
    requests,       \* queued reads of the info and writes of the mode
    anchorCount,    \* bleNetworkInfo's
    map, dialog,    \* who listens: a MapActivity, a ConnectTagFragment
    tag,            \* the tag's mode
    air,            \* notifications on their way
    handed,         \* history: the last position data that the map got
    missed,         \* history: a read of the info has failed or was lost
    drops, maps, crashed

vars == <<link, modeCharacteristic, requests, anchorCount, map, dialog, tag, air, handed, missed,
          drops, maps, crashed>>

NoData == [ts |-> "none", ranges |-> <<>>]

(* A tag was chosen in the dialog, the map's or the dashboard's. *)
Init ==
    /\ link = "down" /\ modeCharacteristic = "unset" /\ requests = <<>> /\ anchorCount = 0
    /\ map = MapOnly /\ dialog = TRUE /\ tag = "off" /\ air = 0 /\ handed = NoData /\ missed = FALSE
    /\ drops = 0 /\ maps = 0 /\ crashed = FALSE

(* useAutoConnect: the library connects again whenever it can.  The services are *)
(* discovered anew, with characteristics that have no values.                    *)
Connect ==
    /\ link = "down" /\ link' = "up" /\ modeCharacteristic' = "unset"
    /\ UNCHANGED <<missed, requests, anchorCount, map, dialog, tag, air, handed, drops, maps, crashed>>

(* startPositionSending of the map's listener, and of the dialog that is shown on it. *)
Starts == IF map THEN IF dialog THEN <<"start", "start">> ELSE <<"start">> ELSE <<>>

(* Variants: the listeners come first; nobody starts the tag again. *)
OnReadyLate == Starts \o <<"info">>
OnReadyNone == <<"info">>

OnReady == <<"info">> \o Starts

(* MTU and notifications are set, then onDeviceReady; the dialog goes. *)
Ready ==
    /\ link = "up" /\ link' = "ready" /\ dialog' = FALSE
    /\ requests' = requests \o OnReady
    /\ UNCHANGED <<missed, modeCharacteristic, anchorCount, map, tag, air, handed, drops, maps, crashed>>

ReadInfo ==
    /\ link = "ready" /\ requests # <<>> /\ Head(requests) = "info" /\ requests' = Tail(requests)
    /\ \/ anchorCount' = AnchorCount /\ UNCHANGED missed
       \/ RequestsFail /\ missed' = TRUE /\ UNCHANGED anchorCount
    /\ UNCHANGED <<link, modeCharacteristic, map, dialog, tag, air, handed, drops, maps, crashed>>

(* Variant: a write leaves the value that was read. *)
CachedBefore == modeCharacteristic

Cached == "ranging"

(* The cached value is set by the write, also by one that fails. *)
WriteMode ==
    /\ link = "ready" /\ requests # <<>> /\ Head(requests) = "start" /\ requests' = Tail(requests)
    /\ modeCharacteristic' = Cached
    /\ (tag' = "ranging" \/ (RequestsFail /\ UNCHANGED tag))
    /\ UNCHANGED <<missed, link, anchorCount, map, dialog, air, handed, drops, maps, crashed>>

(* The queued requests fail, each with a toast. *)
Drop ==
    /\ link # "down" /\ drops < MaxDrops /\ drops' = drops + 1
    /\ link' = "down" /\ requests' = <<>> /\ tag' = "off" /\ air' = 0
    /\ missed' = (missed \/ \E i \in 1..Len(requests) : requests[i] = "info")
    /\ UNCHANGED <<modeCharacteristic, anchorCount, map, dialog, handed, maps, crashed>>

Notify ==
    /\ link = "ready" /\ tag = "ranging" /\ air < MaxAir /\ air' = air + 1
    /\ UNCHANGED <<missed, link, modeCharacteristic, requests, anchorCount, map, dialog, tag, handed, drops,
                   maps, crashed>>

Pairs(n) == (n * (n - 1)) \div 2

Parse(m, n) == [ts |-> m[1], ranges |-> SubSeq(m, 2, Pairs(n) + 2)]

(* A notification that is shorter than the ranges expected is an exception. *)
Receive ==
    /\ air > 0 /\ air' = air - 1
    /\ IF modeCharacteristic = "ranging" /\ Len(Message) < Pairs(anchorCount) + 2
       THEN crashed' = TRUE /\ UNCHANGED handed
       ELSE /\ handed' = IF modeCharacteristic = "ranging" /\ map THEN Parse(Message, anchorCount)
                         ELSE handed
            /\ UNCHANGED crashed
    /\ UNCHANGED <<missed, link, modeCharacteristic, requests, anchorCount, map, dialog, tag, drops, maps>>

(* Variant: a write overtakes what is queued. *)
QueuedFirst == <<"start">> \o requests

Queued == Append(requests, "start")

(* MapActivity.onCreate, in a game for which the dashboard waits until the tag is there; *)
(* a request without a connection fails at once.                                         *)
OpenMap ==
    /\ ~MapOnly /\ ~map /\ ~dialog /\ maps < MaxMaps /\ maps' = maps + 1 /\ map' = TRUE
    /\ requests' = IF link = "down" THEN requests ELSE Queued
    /\ UNCHANGED <<missed, link, modeCharacteristic, anchorCount, dialog, tag, air, handed, drops,
                   crashed>>

(* MapActivity.onDestroy: disconnect makes a request that is never enqueued. *)
CloseMap ==
    /\ map /\ map' = FALSE
    /\ UNCHANGED <<missed, link, modeCharacteristic, requests, anchorCount, dialog, tag, air, handed, drops,
                   maps, crashed>>

Library == Connect \/ Ready \/ ReadInfo \/ WriteMode
Next == ~crashed /\ (Library \/ Drop \/ Notify \/ Receive \/ OpenMap \/ CloseMap)

(* The library connects, and works its queue; connections may be lost. *)
Spec == Init /\ [][Next]_vars /\ WF_vars(~crashed /\ Library)

----------------------------------------------------------------------------
(* Properties *)

(* Every variable keeps its type, and no notification is too short. *)
TypeOK ==
    /\ link \in {"down", "up", "ready"} /\ modeCharacteristic \in {"unset", "ranging"}
    /\ requests \in Seq({"info", "start"}) /\ anchorCount \in {0, AnchorCount}
    /\ {map, dialog, missed} \subseteq BOOLEAN /\ tag \in {"off", "ranging"} /\ air \in 0..MaxAir
    /\ drops \in 0..MaxDrops /\ maps \in 0..MaxMaps /\ crashed = FALSE
    /\ (tag = "ranging" => link = "ready" /\ modeCharacteristic = "ranging")

(* Position data is cut to the tag's own number of anchors, unless a read was lost: the  *)
(* tag is not told to range before that number was read.  Only so many fields are cut    *)
(* out: what they hold is the message's ids and stamps (lines 10 to 18 of                *)
(* BlePositionData.kt speak of a timestamp and of ranges), and how many the map needs is *)
(* another matter, which TagPosition is about.                                           *)
CutToAnchors == handed # NoData /\ ~missed => Len(handed.ranges) = Pairs(AnchorCount) + 1

(* While a map is open its tag ranges in the end, also after lost connections.  *)
MapGetsPositions == map ~> tag = "ranging" \/ ~map
=============================================================================
