----------------------------- MODULE RenderLoop -----------------------------
(***************************************************************************)
(* The map's drawing threads.  The main thread starts one with every       *)
(* change of the surface, joins the last when the surface goes, and adds   *)
(* and removes anchors and players in lists that the threads iterate over. *)
(***************************************************************************)
EXTENDS Integers, Sequences

CONSTANTS
    Anchors,        \* Config.mapConfig.anchors that are displayed
    MaxLoops,       \* bound: changes of the surface
    MaxMovables,    \* bound: players in a renderer
    OneChange       \* the system changes a surface once only, when it is new

BoundsAssumption == {Anchors, MaxLoops, MaxMovables} \subseteq Nat

VARIABLES
    surface,    \* the surface can be drawn on
    main,       \* the main thread: idle, adding the anchors, or in surfaceDestroyed
    loops,      \* every RenderLoop so far; the last one is renderLoop
    canvas,     \* the loop that has the canvas, or 0
    failed, why \* the loop whose uncaught exception ended the app, or 0

vars == <<surface, main, loops, canvas, failed, why>>

Loops == 1..Len(loops)
Last == Len(loops)
Drawn == [anchors |-> 0, movables |-> 0]

(* sizes: its renderer's lists; at: where its thread is; cursor and torn: of the *)
(* iterator, torn when the list was changed since.                               *)
NewLoop == [running |-> TRUE, sizes |-> Drawn, at |-> "test", cursor |-> 0, torn |-> FALSE]

Init == surface = FALSE /\ main = "idle" /\ loops = <<>> /\ canvas = 0 /\ failed = 0 /\ why = "none"

----------------------------------------------------------------------------
(* The main thread *)

(* The previous loop is neither stopped nor joined, and its players are not taken over. *)
SurfaceChanged ==
    /\ main = "idle" /\ Len(loops) < MaxLoops /\ (OneChange => ~surface)
    /\ surface' = TRUE /\ main' = "anchors"
    /\ loops' = Append(loops, NewLoop)
    /\ UNCHANGED <<canvas, failed, why>>

(* An iterator over that list finds out with its next element. *)
Change(l, list, by) ==
    [l EXCEPT !.sizes[list] = @ + by, !.torn = @ \/ l.at = list]

(* mapViewCreated, when the loop is already running. *)
AddAnchor ==
    /\ main = "anchors"
    /\ IF loops[Last].sizes.anchors < Anchors
       THEN loops' = [loops EXCEPT ![Last] = Change(@, "anchors", 1)] /\ UNCHANGED main
       ELSE main' = "idle" /\ UNCHANGED loops
    /\ UNCHANGED <<surface, canvas, failed, why>>

AddPlayer ==
    /\ main = "idle" /\ loops # <<>> /\ loops[Last].sizes.movables < MaxMovables
    /\ loops' = [loops EXCEPT ![Last] = Change(@, "movables", 1)]
    /\ UNCHANGED <<surface, main, canvas, failed, why>>

RemovePlayer ==
    /\ main = "idle" /\ loops # <<>> /\ loops[Last].sizes.movables > 0
    /\ loops' = [loops EXCEPT ![Last] = Change(@, "movables", -1)]
    /\ UNCHANGED <<surface, main, canvas, failed, why>>

(* Variant: it is only waited for. *)
StoppedNot(l) == l

Stopped(l) == [l EXCEPT !.running = FALSE]

SurfaceDestroyed ==
    /\ main = "idle" /\ surface /\ main' = "joining"
    /\ loops' = [loops EXCEPT ![Last] = Stopped(@)]
    /\ UNCHANGED <<surface, canvas, failed, why>>

(* Variant: nobody waits for the loop. *)
JoinedAtOnce(l) == TRUE

Joined(l) == l.at = "over"

(* The surface goes when the callback has returned. *)
Return ==
    /\ main = "joining" /\ Joined(loops[Last])
    /\ main' = "idle" /\ surface' = FALSE
    /\ UNCHANGED <<loops, canvas, failed, why>>

----------------------------------------------------------------------------
(* A drawing thread *)

Fail(l, reason) == failed' = l /\ why' = reason

Test(l) ==
    /\ loops[l].at = "test"
    /\ loops' = [loops EXCEPT ![l].at = IF loops[l].running THEN "lock" ELSE "over"]
    /\ UNCHANGED <<surface, main, canvas, failed, why>>

(* Without a surface there is no canvas, and draw does not take its absence. *)
Lock(l) ==
    /\ loops[l].at = "lock" /\ canvas = 0
    /\ IF surface
       THEN /\ canvas' = l /\ UNCHANGED <<failed, why>>
            /\ loops' = [loops EXCEPT ![l].at = "anchors", ![l].cursor = 0, ![l].torn = FALSE]
       ELSE Fail(l, "no canvas") /\ loops' = [loops EXCEPT ![l].at = "over"] /\ UNCHANGED canvas
    /\ UNCHANGED <<surface, main>>

(* Variant: an element too many. *)
HasNextUpTo(l) == l.cursor <= l.sizes[l.at]

HasNext(l) == l.cursor # l.sizes[l.at]

(* One element of a list, or the way to the next list and the end of the frame. *)
Draw(l) ==
    /\ loops[l].at \in DOMAIN Drawn
    /\ IF HasNext(loops[l])
       THEN IF loops[l].torn
            THEN Fail(l, "modified") /\ canvas' = 0 /\ loops' = [loops EXCEPT ![l].at = "over"]
            ELSE loops' = [loops EXCEPT ![l].cursor = @ + 1] /\ UNCHANGED <<canvas, failed, why>>
       ELSE /\ loops' = [loops EXCEPT ![l].cursor = 0, ![l].torn = FALSE,
                            ![l].at = IF @ = "anchors" THEN "movables" ELSE "test"]
            /\ canvas' = IF loops[l].at = "anchors" THEN canvas ELSE 0
            /\ UNCHANGED <<failed, why>>
    /\ UNCHANGED <<surface, main>>

Thread(l) == Test(l) \/ Lock(l) \/ Draw(l)
Main == SurfaceChanged \/ AddAnchor \/ AddPlayer \/ RemovePlayer \/ SurfaceDestroyed \/ Return
Next == failed = 0 /\ (Main \/ \E l \in Loops : Thread(l))

(* Threads run; one that wants the canvas gets it between the frames of the others, *)
(* which sleep in between; callbacks return.                                        *)
LoopMay(A(_), l) == failed = 0 /\ l \in Loops /\ A(l)
Fairness ==
    /\ WF_vars(failed = 0 /\ (AddAnchor \/ Return))
    /\ \A l \in 1..MaxLoops : WF_vars(LoopMay(Test, l) \/ LoopMay(Draw, l)) /\ SF_vars(LoopMay(Lock, l))
Spec == Init /\ [][Next]_vars /\ Fairness

----------------------------------------------------------------------------
(* Properties *)

(* Every variable keeps its type; an iterator never passes the end of a list. *)
TypeOK ==
    /\ surface \in BOOLEAN /\ main \in {"idle", "anchors", "joining"}
    /\ loops \in Seq([running : BOOLEAN, at : {"test", "lock", "anchors", "movables", "over"},
                      sizes : [anchors : 0..Anchors, movables : 0..MaxMovables],
                      cursor : Nat, torn : BOOLEAN])
    /\ \A l \in Loops : loops[l].at \in DOMAIN Drawn /\ ~loops[l].torn =>
                            loops[l].cursor <= loops[l].sizes[loops[l].at]
    /\ canvas \in 0..Last /\ failed \in 0..Last /\ why \in {"none", "no canvas", "modified"}

(* The loop that surfaceDestroyed knows never draws on a surface that is gone: only one *)
(* that an earlier change of the same surface has left behind does.                     *)
OnlyForgottenFail == why = "no canvas" => failed # Last

(* When every surface is changed once, one thread at most draws, and none survives its  *)
(* surface.                                                                             *)
OneLoop ==
    /\ \A k, l \in Loops : loops[k].at # "over" /\ loops[l].at # "over" => k = l
    /\ ~surface => \A l \in Loops : loops[l].at = "over"

(* surfaceDestroyed returns: the thread that it waits for sees running and ends, also   *)
(* when others take the canvas, unless an exception ends the app.                       *)
DestroyedReturns == main = "joining" ~> main = "idle" \/ failed # 0
=============================================================================
