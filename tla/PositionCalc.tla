---------------------------- MODULE PositionCalc ----------------------------
(***************************************************************************)
(* The phone's position from a tag's measurement: the control of           *)
(* PositionCalculatorImpl.  The damped least squares are abstracted to the *)
(* size of each step; what counts is when the iteration stops, which       *)
(* position is kept, which are averaged, and which measurement the task    *)
(* that was posted finds.  Everything runs on the main thread.             *)
(***************************************************************************)
EXTENDS Integers, Sequences, FiniteSets

CONSTANTS
    MAXITER, WINDOW_SIZE,
    Anchors,        \* how many the map's configuration lists
    Measurements,   \* the readings that arrive, a sequence each, without the first field
    MaxPosted       \* bound: tasks posted and not run

SizesAssumption ==
    MAXITER \in Nat \ {0, 1} /\ WINDOW_SIZE \in Nat \ {0, 1} /\ Anchors \in Nat \ {0, 1}
    /\ MaxPosted \in Nat

(* anchorCombinationNumber, which is not the number of readings that arrive. *)
Pairs == (Anchors * (Anchors - 1)) \div 2

(* A reading is a difference of distances, or -32768, -1 or 0 for none. *)
Readings == {"range", "none", "same", "zero"}
ReadingsAssumption == Measurements \subseteq Seq(Readings)

VARIABLES
    data,       \* the field that calculate writes
    posted,     \* tasks on the main looper
    pc,         \* where the task is; between its steps nothing else runs
    rows,       \* the equations of the measurement that is being computed
    q, qPrev,   \* the position that is moved, and the last one kept
    iter,
    window,     \* lastResultsX and lastResultsY, newest first
    used,       \* history: the measurement that was computed last
    results     \* history: results so far, up to WINDOW_SIZE

vars == <<data, posted, pc, rows, q, qPrev, iter, window, used, results>>

(* Where a position is, as seen from the field, and the step that led to it: *)
(* at most ERROR, at most 100 m, or more.                                    *)
Places == {"near", "far"}
Steps == {"small", "middle", "huge"}
Position == [place : Places, by : Steps \union {"start"}]
Start == [place |-> "near", by |-> "start"]
NoData == <<>>

Init ==
    /\ data = NoData /\ posted = 0 /\ pc = "idle" /\ rows = 0 /\ iter = 1
    /\ q = Start /\ qPrev = Start /\ window = <<>> /\ used = NoData /\ results = 0

(* onBlePositionDataReceived: the task that runs next takes what is there then. *)
Calculate(m) ==
    /\ pc = "idle" /\ posted < MaxPosted
    /\ data' = m /\ posted' = posted + 1
    /\ UNCHANGED <<pc, rows, q, qPrev, iter, window, used, results>>

----------------------------------------------------------------------------
(* Trailing readings of -32768 or 0 are cut off, but for the first. *)
Cut(m) == CHOOSE k \in 1..Pairs :
    /\ k = 1 \/ m[k] \notin {"none", "zero"}
    /\ \A i \in (k + 1)..Pairs : m[i] \in {"none", "zero"}

(* Those of -32768 or -1 before are skipped. *)
Rows(m) == Cardinality({i \in 1..Cut(m) : m[i] \notin {"none", "same"}})

(* Variant: the measurement is the one of the last task. *)
TaskDataOld == IF used = NoData THEN data ELSE used

TaskData == data

(* Variant: two equations are taken to be enough for two unknowns. *)
EnoughTwo(n) == n >= 2

(* Asked of what the cut left, and of the equations. *)
Enough(n) == n >= 3

(* The task: a measurement with too few fields is an exception that nobody catches. *)
Begin ==
    /\ pc = "idle" /\ posted > 0 /\ posted' = posted - 1
    /\ IF Len(TaskData) < Pairs
       THEN pc' = "crashed" /\ UNCHANGED <<rows, q, iter, used>>
       ELSE /\ used' = TaskData /\ rows' = Rows(TaskData) /\ q' = qPrev
            /\ iter' = IF Enough(Cut(TaskData)) THEN 1 ELSE MAXITER
            /\ pc' = IF Enough(Rows(TaskData)) THEN "iterate" ELSE "finish"
    /\ UNCHANGED <<data, qPrev, window, results>>

(* A small step stays where it is, be that far away: there the equations hardly *)
(* depend on the position.                                                      *)
Moved(p, s) ==
    [place : IF s = "huge" THEN {"far"} ELSE IF s = "small" THEN {p.place} ELSE {"near", p.place},
     by : {s}]

(* Variants: without the limit; one more round. *)
GoesOnUntilSmall(s, i) == s # "small"
GoesOnOneMore(s, i) == s # "small" /\ i <= MAXITER

GoesOn(s, i) == s # "small" /\ i < MAXITER

(* One round of the loop; a step of more than 100 m is meant to be the last. *)
Iterate ==
    /\ pc = "iterate"
    /\ \E s \in Steps : \E p \in Moved(q, s) :
        /\ q' = p
        /\ iter' = (IF s = "huge" THEN MAXITER ELSE iter) + 1
        /\ pc' = IF GoesOn(s, iter') THEN "iterate" ELSE "finish"
    /\ UNCHANGED <<data, posted, rows, qPrev, window, used, results>>

(* A singular matrix in some round: a toast and no result. *)
Singular ==
    /\ pc = "iterate" /\ pc' = "idle"
    /\ UNCHANGED <<data, posted, rows, q, qPrev, iter, window, used, results>>

(* Variant: the window is shortened after it was passed. *)
ShortenedLate(w) == IF Len(w) > WINDOW_SIZE THEN SubSeq(w, 1, WINDOW_SIZE) ELSE w

Shortened(w) == IF Len(w) = WINDOW_SIZE THEN SubSeq(w, 1, WINDOW_SIZE - 1) ELSE w

Finish ==
    LET result == IF iter = MAXITER THEN qPrev ELSE q
    IN  /\ pc = "finish" /\ pc' = "idle"
        /\ q' = result /\ qPrev' = result
        /\ window' = Shortened(<<result.place>> \o window)
        /\ results' = IF results < WINDOW_SIZE THEN results + 1 ELSE results
        /\ UNCHANGED <<data, posted, rows, iter, used>>

Task == Begin \/ Iterate \/ Singular \/ Finish
Next == (\E m \in Measurements : Calculate(m)) \/ Task
Spec == Init /\ [][Next]_vars

----------------------------------------------------------------------------
(* Properties *)

(* Every variable keeps its type: the iteration ends. *)
TypeOK ==
    /\ data \in Measurements \union {NoData} /\ used \in Measurements \union {NoData}
    /\ posted \in 0..MaxPosted /\ pc \in {"idle", "iterate", "finish", "crashed"}
    /\ rows \in 0..Pairs /\ iter \in 1..(MAXITER + 1) /\ results \in 0..WINDOW_SIZE
    /\ q \in Position /\ qPrev \in Position
    /\ window \in Seq(Places)

(* However many tasks a burst of notifications posts, the newest measurement is the *)
(* one that is computed last: once the looper is idle nothing newer was passed over.*)
NewestUsed == pc = "idle" /\ posted = 0 => used = data

(* What is kept was found by a step within the error limit, or else by one of more  *)
(* than 100 m.  The fallback to the previous position takes a test that meets         *)
(* MAXITER at exactly the round at which the loop ends: it covers every step between  *)
(* the two, and never the huge one, after which iter is MAXITER + 1: that position    *)
(* is kept, and the next measurement starts from there.                               *)
MiddleDropped == qPrev.by # "middle"

(* A measurement of fewer than three equations does not move the position.          *)
PoorDropped == [][pc = "finish" /\ rows < 3 => qPrev' = qPrev]_vars

(* The average is over the last results, the newest first: over all of the first        *)
(* WINDOW_SIZE - 1, and never over more, one less than lines 37 to 39 say.  A position  *)
(* far off that was kept leaves it after as many results.                               *)
WindowForgets ==
    /\ Len(window) = IF results < WINDOW_SIZE THEN results ELSE WINDOW_SIZE - 1
    /\ pc = "idle" /\ results > 0 => window[1] = qPrev.place
=============================================================================
