------------------------------ MODULE TagScan ------------------------------
(***************************************************************************)
(* ConnectTagFragment: scan results and a timer's checks reach the main    *)
(* thread as tasks; the first check that finds tags stops the scan and     *)
(* lists their names, and a tapped position of the list is looked up again *)
(* in the set of the tags.                                                 *)
(***************************************************************************)
EXTENDS Integers, Sequences, SequencesExt

CONSTANTS
    Order,      \* every tag around, as the hash set orders them
    MaxQueue    \* bound: tasks of the main thread when another one is posted

Tags == ToSet(Order)
None == "none"
Check == "check"

OrderAssumption == Order \in Seq(Tags) /\ IsInjective(Order) /\ MaxQueue \in Nat

VARIABLES
    dialog,     \* open, connecting to a tag, or closed
    scanning,   \* the scanner reports to this dialog
    timer,      \* it posts a check every BLE_SCAN_PERIOD
    queue,      \* tasks of the main thread: checks, and the tags of scan results
    foundTags,
    listAdapter,    \* the tags whose names are listed
    tapped, connected,  \* the tag whose name was tapped, and the one that connectDevice got
    crashed

vars == <<dialog, scanning, timer, queue, foundTags, listAdapter, tapped, connected, crashed>>

Init ==
    /\ dialog = "open" /\ scanning = TRUE /\ timer = TRUE /\ queue = <<>> /\ foundTags = {}
    /\ listAdapter = <<>> /\ tapped = None /\ connected = None /\ crashed = FALSE

Post(task) == Len(queue) < MaxQueue /\ queue' = Append(queue, task)

Result(t) ==
    /\ scanning /\ Post(t)
    /\ UNCHANGED <<dialog, scanning, timer, foundTags, listAdapter, tapped, connected, crashed>>

Period ==
    /\ timer /\ Post(Check)
    /\ UNCHANGED <<dialog, scanning, timer, foundTags, listAdapter, tapped, connected, crashed>>

(* elementAt of the set counts in its order. *)
Elements(tags) ==
    LET Earlier(t) == {u \in tags : \E k, l \in DOMAIN Order : k < l /\ Order[k] = u /\ Order[l] = t}
    IN  [i \in 1..Cardinality(tags) |-> CHOOSE t \in tags : Cardinality(Earlier(t)) = i - 1]

(* Variant: the scan goes on. *)
ScanStoppedNot == scanning

ScanStopped == FALSE

(* Variant: one tag is not enough. *)
IsNotEmptyTwo(tags) == \E a, b \in tags : a # b

IsNotEmpty(tags) == tags # {}

(* A task of the main thread: onScanResult, or the check.  The views of a closed *)
(* dialog are not found any more.                                                *)
Task ==
    /\ queue # <<>> /\ queue' = Tail(queue)
    /\ \/ /\ Head(queue) # Check /\ foundTags' = foundTags \union {Head(queue)}
          /\ UNCHANGED <<scanning, timer, listAdapter, crashed>>
       \/ /\ Head(queue) = Check /\ IsNotEmpty(foundTags)
          /\ scanning' = ScanStopped /\ timer' = FALSE
          /\ listAdapter' = listAdapter \o Elements(foundTags)
          /\ crashed' = (dialog = "closed") /\ UNCHANGED foundTags
       \/ /\ Head(queue) = Check /\ ~IsNotEmpty(foundTags)
          /\ UNCHANGED <<scanning, timer, foundTags, listAdapter, crashed>>
    /\ UNCHANGED <<dialog, tapped, connected>>

(* A tap on the list hides it; a position beyond the set's size throws. *)
TapTag(i) ==
    /\ dialog = "open" /\ tapped' = listAdapter[i]
    /\ IF i <= Len(Elements(foundTags))
       THEN dialog' = "connecting" /\ connected' = Elements(foundTags)[i] /\ UNCHANGED crashed
       ELSE crashed' = TRUE /\ UNCHANGED <<dialog, connected>>
    /\ UNCHANGED <<scanning, timer, queue, foundTags, listAdapter>>

(* onDetach ends the timer, but not the scan. *)
Detach ==
    /\ dialog # "closed" /\ dialog' = "closed" /\ timer' = FALSE
    /\ UNCHANGED <<scanning, queue, foundTags, listAdapter, tapped, connected, crashed>>

Next ==
    /\ ~crashed
    /\ \/ Period \/ Task \/ Detach
       \/ \E t \in Tags : Result(t)
       \/ \E i \in 1..Len(listAdapter) : TapTag(i)

(* The main thread runs its tasks and the timer goes on; a tag need not be near. *)
Spec == Init /\ [][Next]_vars /\ WF_vars(~crashed /\ Task) /\ SF_vars(~crashed /\ Period)

----------------------------------------------------------------------------
(* Properties *)

(* Every variable keeps its type; what is listed has been found, and the scan and the *)
(* timer have ended with it.                                                          *)
TypeOK ==
    /\ dialog \in {"open", "connecting", "closed"} /\ {scanning, timer, crashed} \subseteq BOOLEAN
    /\ queue \in Seq(Tags \union {Check}) /\ foundTags \subseteq Tags
    /\ ToSet(listAdapter) \subseteq foundTags /\ {tapped, connected} \subseteq Tags \union {None}
    /\ (listAdapter # <<>> => ~scanning /\ ~timer)

(* A tag that was found is listed in the end, unless the dialog is closed before. *)
TagsListed == foundTags # {} ~> listAdapter # <<>> \/ dialog = "closed"

(* "Connect your tag" (strings.xml:38), the title of the list: the tag that is connected *)
(* is the one whose name was tapped.  It is for a main thread that runs each task before *)
(* the next one is posted.                                                               *)
TappedIsConnected == connected # None => connected = tapped
=============================================================================
