---------------------------- MODULE PositionFeed ----------------------------
(***************************************************************************)
(* The server's feed of test positions: TestServiceImpl keeps one Timer in *)
(* a field that every start replaces and reads again for every player, and *)
(* the Timer's thread publishes through a client that never reconnects.    *)
(* Start and stop are served by Tomcat's threads without a lock, while     *)
(* games are created and deleted.                                          *)
(***************************************************************************)
EXTENDS Integers, Sequences, FiniteSets

CONSTANTS
    Handlers,   \* Tomcat's threads
    Games,      \* the Game objects, in the order 1, 2, ... of their creation
    Roster,     \* the players that are not admins, by game and team, as lists; all of
                \* them empty outside the environment "test" (line 48)
    MaxTimers,  \* bound: starts
    Orderly     \* a start comes after the answer to a stop, and one request at a time

Teams == {"red", "blue"}
Timers == 1..MaxTimers
NoTimer == 0
NoGame == 0

RosterAssumption ==
    Games \subseteq Nat \ {0} /\ Roster \in [Games -> [Teams -> Seq(STRING)]]
BoundAssumption == MaxTimers \in Nat

VARIABLES
    game,       \* GameServiceImpl.game
    timer,      \* TestServiceImpl.timer; lateinit
    state,      \* each Timer object: unborn, live, or over (cancelled, or its thread ended)
    tasks,      \* each Timer's tasks: the players whose positions it publishes
    handler,    \* each thread's step, and the lists that it has read
    connected,  \* the MQTT client's connection
    beat,       \* history: flips with each position that is published
    overlapped  \* history: a start came while a feed was on or being started

vars == <<game, timer, state, tasks, handler, connected, beat, overlapped>>

Idle == [pc |-> "idle", red |-> <<>>, blue |-> <<>>]
List(g, t) == IF g = NoGame THEN <<>> ELSE Roster[g][t]
Members(g) == UNION {{List(g, t)[i] : i \in DOMAIN List(g, t)} : t \in Teams}
Names == UNION {Members(g) : g \in Games}

Init ==
    /\ game = NoGame /\ timer = NoTimer /\ connected = TRUE
    /\ state = [i \in Timers |-> "unborn"] /\ tasks = [i \in Timers |-> {}]
    /\ handler = [h \in Handlers |-> Idle]
    /\ beat = FALSE /\ overlapped = FALSE

At(h, step) == handler[h].pc = step
Goto(h, step) == handler' = [handler EXCEPT ![h].pc = step]
Answer(h) == handler' = [handler EXCEPT ![h] = Idle]
Serving == \E h \in Handlers : ~At(h, "idle")
Feeding == {i \in Timers : tasks[i] # {}}

(* Timer.cancel, and the end of a Timer's thread by an exception, both clear *)
(* the queue and make every later schedule throw.                            *)
Ends(i) == state' = [state EXCEPT ![i] = "over"] /\ tasks' = [tasks EXCEPT ![i] = {}]

----------------------------------------------------------------------------
(* sendPositionMessages *)

(* Variant: the new timer is only a local of the start. *)
AssignLocal(i) == UNCHANGED timer

Assign(i) == timer' = i

Stopped == IF timer = NoTimer THEN TRUE ELSE state[timer] = "over"

NewTimer(h) ==
    LET i == Cardinality({j \in Timers : state[j] # "unborn"}) + 1
    IN  /\ At(h, "idle") /\ Goto(h, "readRed") /\ i \in Timers
        /\ Orderly => ~Serving /\ Stopped
        /\ Assign(i) /\ state' = [state EXCEPT ![i] = "live"]
        /\ overlapped' = (overlapped \/ Feeding # {} \/ Serving)
        /\ UNCHANGED <<game, tasks, connected, beat>>

(* Lines 49 and 50: the game may have changed between the two reads. *)
ReadRed(h) ==
    /\ At(h, "readRed")
    /\ handler' = [handler EXCEPT ![h].pc = "readBlue", ![h].red = List(game, "red")]
    /\ UNCHANGED <<game, timer, state, tasks, connected, beat, overlapped>>

ReadBlue(h) ==
    /\ At(h, "readBlue")
    /\ handler' = [handler EXCEPT ![h].pc = "red", ![h].blue = List(game, "blue")]
    /\ UNCHANGED <<game, timer, state, tasks, connected, beat, overlapped>>

(* Variant: the blue team's loop leaves out its first player. *)
OnToBlueLate(h) ==
    handler' = [handler EXCEPT ![h].pc = "blue", ![h].blue = IF @ = <<>> THEN @ ELSE Tail(@)]

(* From the red team's loop to the blue team's. *)
OnToBlue(h) == Goto(h, "blue")

(* Variant: schedule never throws. *)
AcceptsAlways(i) == TRUE

Accepts(i) == state[i] = "live"

(* One round of a team's loop: the field is read again, and a Timer that is over *)
(* throws, which ends the request and leaves the tasks that were scheduled.      *)
Schedule(h, t) ==
    /\ At(h, t)
    /\ IF handler[h][t] = <<>>
       THEN /\ IF t = "red" THEN OnToBlue(h) ELSE Answer(h)
            /\ UNCHANGED tasks
       ELSE IF Accepts(timer)
       THEN /\ tasks' = [tasks EXCEPT ![timer] = @ \union {Head(handler[h][t])}]
            /\ handler' = [handler EXCEPT ![h][t] = Tail(@)]
       ELSE Answer(h) /\ UNCHANGED tasks
    /\ UNCHANGED <<game, timer, state, connected, beat, overlapped>>

(* filter meets a join that changes the list: ConcurrentModificationException. *)
FilterThrows(h) ==
    /\ ~Orderly /\ handler[h].pc \in Teams /\ Answer(h)
    /\ UNCHANGED <<game, timer, state, tasks, connected, beat, overlapped>>

(* stopPositionMessages; before the first start it throws. *)
Stop(h) ==
    /\ At(h, "idle") /\ Orderly => ~Serving
    /\ IF timer = NoTimer THEN UNCHANGED <<state, tasks>> ELSE Ends(timer)
    /\ UNCHANGED <<game, timer, handler, connected, beat, overlapped>>

----------------------------------------------------------------------------
(* A task's run, on its Timer's thread.  publish throws without a connection, *)
(* and nothing catches it.                                                     *)

(* Variants: the exception is caught in the task; the task is run once. *)
PublishCaught(i, p) ==
    /\ p \in tasks[i]
    /\ beat' = IF connected THEN ~beat ELSE beat
    /\ UNCHANGED <<game, timer, state, tasks, handler, connected, overlapped>>
PublishOnce(i, p) ==
    /\ p \in tasks[i]
    /\ IF connected
       THEN beat' = ~beat /\ tasks' = [tasks EXCEPT ![i] = @ \ {p}] /\ UNCHANGED state
       ELSE Ends(i) /\ UNCHANGED beat
    /\ UNCHANGED <<game, timer, handler, connected, overlapped>>

Publish(i, p) ==
    /\ p \in tasks[i]
    /\ IF connected
       THEN beat' = ~beat /\ UNCHANGED <<state, tasks>>
       ELSE Ends(i) /\ UNCHANGED beat
    /\ UNCHANGED <<game, timer, handler, connected, overlapped>>

(* MqttServiceImpl connects in its constructor only. *)
LoseBroker ==
    /\ connected /\ connected' = FALSE
    /\ UNCHANGED <<game, timer, state, tasks, handler, beat, overlapped>>

(* GameServiceImpl's createGame and deleteGame, whose steps GameServer models. *)
ChangeGame ==
    /\ \E g \in Games \union {NoGame} : g # game /\ (g = NoGame \/ g > game) /\ game' = g
    /\ UNCHANGED <<timer, state, tasks, handler, connected, beat, overlapped>>

Handle(h) == ReadRed(h) \/ ReadBlue(h) \/ \E t \in Teams : Schedule(h, t)

Next ==
    \/ \E h \in Handlers : NewTimer(h) \/ Handle(h) \/ FilterThrows(h) \/ Stop(h)
    \/ \E i \in Timers, p \in Names : Publish(i, p)
    \/ LoseBroker \/ ChangeGame

(* A handler's thread runs on; a Timer takes the task whose time is earliest,  *)
(* and each run moves its own next time ahead, so every task has its turn.     *)
Spec ==
    /\ Init /\ [][Next]_vars
    /\ \A h \in Handlers : WF_vars(Handle(h))
    /\ \A i \in Timers, p \in Names : WF_vars(Publish(i, p))

----------------------------------------------------------------------------
(* Properties *)

(* Every variable keeps its type, and a start that fills the field's timer has one: *)
(* the lateinit field is never read before its first assignment.                    *)
TypeOK ==
    /\ game \in Games \union {NoGame} /\ timer \in Timers \union {NoTimer}
    /\ state \in [Timers -> {"unborn", "live", "over"}]
    /\ tasks \in [Timers -> SUBSET Names]
    /\ handler \in [Handlers -> [pc : {"idle", "readRed", "readBlue"} \union Teams,
                                 red : Seq(Names), blue : Seq(Names)]]
    /\ {beat, connected, overlapped} \subseteq BOOLEAN
    /\ \A h \in Handlers : ~At(h, "idle") => timer # NoTimer

(* A feed goes on after a stop only if a start had come while another feed was on *)
(* or was being started.  Otherwise whatever publishes is the field's timer, which *)
(* is live and which stop cancels, and a start that a stop overtakes throws in its *)
(* loop instead of feeding on; games and the broker may change at any time.        *)
StopReachesFeed ==
    overlapped \/ (Feeding \subseteq {timer} /\ \A i \in Feeding : state[i] = "live")

(* Orderly use: once a start has read its lists (lines 49-50), each of their players is *)
(* published again and again, for good, unless the feed is over some day, by a stop or  *)
(* by the broker.  No end of the game or of its successors is an end of the feed.       *)
Started(p) ==
    \E h \in Handlers : \E t \in Teams :
        At(h, "red") /\ \E k \in DOMAIN handler[h][t] : handler[h][t][k] = p
Fed(p) == \E i \in Timers : Publish(i, p) /\ connected
PlayersFed ==
    \A p \in Names : (Started(p) ~> Stopped) \/ []<><<Fed(p)>>_vars

(* Without the broker every feed dies of its next publish: nothing is retried and *)
(* no Timer keeps a task.                                                         *)
FeedsDie == ~connected ~> Feeding = {}
=============================================================================
