----------------------------- MODULE MapSession -----------------------------
(***************************************************************************)
(* A phone on the map: the answer to its GET, the players the renderer     *)
(* knows, LEAVE messages, and its subscriptions, which the broker keeps    *)
(* over cuts, while the taps that change them are only carried out when    *)
(* connected.  Spying subscribes to the other team's positions for a time. *)
(* Taps, timers' tasks, answers and messages all run on the main thread.   *)
(***************************************************************************)
EXTENDS Integers, Sequences, FiniteSets

CONSTANTS
    Others,         \* the other players of the game, of both teams
    MapOnly,        \* configured to open the map without a game
    MaxGets,        \* bound: answers on their way; a second one is the lobby's last poll
    MaxCuts,        \* bound: cut connections
    MaxLeaves,      \* bound: LEAVE messages on their way
    MaxOrders,      \* bound: orders on their way when a button is tapped
    MaxRecreated,   \* bound: times that the system makes the activity anew
    Restarts        \* the server may have lost the game, the broker the session

BoundsAssumption == {MaxGets, MaxCuts, MaxLeaves, MaxOrders, MaxRecreated} \subseteq Nat

Topics == {"game", "chat", "positions", "enemyPositions"}
Orders == {"subscribe", "unsubscribe"} \X Topics

VARIABLES
    game, left, \* a game is known, and who has left it
    renderLoop, movables,   \* there is a loop, and how often its renderer has each player
    gets,       \* answers on their way
    link, told, \* the connection is up, and connectComplete was called for it
    session,    \* the topics that the broker sends to the phone
    orders,     \* subscriptions and their ends on their way to the broker
    leaves,     \* LEAVE messages on their way to the phone
    chatActivated,
    spyEnabled, \* fabSpying.isEnabled
    rounds,     \* spying rounds whose timer tasks are still due, oldest first
    cuts, recreated, crashed,
    answers,    \* history: how many answers have shown their players to that loop
    overdue     \* history: the end of a round did not reach the broker

screen == <<game, left, renderLoop, movables, answers>>
buttons == <<chatActivated, spyEnabled, rounds>>
net == <<link, told, session, orders, leaves, cuts>>
vars == <<screen, buttons, net, gets, recreated, crashed, overdue>>

Nobody == [p \in Others |-> 0]

TeamTopics == <<"chat", "positions">>
SubscribeTeam == [i \in 1..2 |-> <<"subscribe", TeamTopics[i]>>]

(* The activity opens from the lobby, connected and with a GET, or at once. *)
Init ==
    /\ game = FALSE /\ left = {} /\ renderLoop = FALSE /\ movables = Nobody /\ answers = 0
    /\ gets \in IF MapOnly THEN {0} ELSE 1..MaxGets
    /\ link = ~MapOnly /\ told = link /\ session = (IF MapOnly THEN {} ELSE {"game"})
    /\ orders = (IF MapOnly THEN <<>> ELSE SubscribeTeam) /\ leaves = <<>>
    /\ chatActivated = TRUE /\ spyEnabled = TRUE /\ rounds = <<>>
    /\ cuts = 0 /\ recreated = 0 /\ crashed = FALSE /\ overdue = FALSE

(* MqttServiceImpl: without a connection nothing is sent, and nothing kept. *)
Send(new) == orders' = IF link THEN orders \o new ELSE orders

----------------------------------------------------------------------------
(* The game and its players *)

(* addPlayer appends every other player, whoever is there already; without a loop it is *)
(* dropped.  The answer's Game takes the place of the last, and forgets who has left.    *)
Answer ==
    /\ gets > 0 /\ gets' = gets - 1
    /\ game' = TRUE /\ left' = {}
    /\ IF renderLoop
       THEN movables' = [p \in Others |-> movables[p] + 1] /\ answers' = answers + 1
       ELSE UNCHANGED <<movables, answers>>
    /\ UNCHANGED <<renderLoop, buttons, net, recreated, crashed, overdue>>

(* No game any more: its absence is handed to refresh, which does not take it. *)
AnswerNone ==
    /\ Restarts /\ gets > 0 /\ gets' = gets - 1
    /\ crashed' = TRUE
    /\ UNCHANGED <<screen, buttons, net, recreated, overdue>>

(* Variant: whoever left stays on the map. *)
WithoutNobody(s, p) == s

(* Renderer.removePlayer: the first of that name. *)
Without(s, p) == [s EXCEPT ![p] = IF @ = 0 THEN 0 ELSE @ - 1]

LeaveArrives ==
    LET p == Head(leaves)
    IN  /\ leaves # <<>> /\ leaves' = Tail(leaves)
        /\ IF game THEN left' = left \union {p} /\ movables' = Without(movables, p)
           ELSE UNCHANGED <<left, movables>>
        /\ UNCHANGED <<game, renderLoop, answers, buttons, link, told, session, orders, cuts, gets, recreated,
                       crashed, overdue>>

(* Each change of the surface makes a loop with a renderer that knows nobody. *)
SurfaceChanged ==
    /\ renderLoop' = TRUE /\ movables' = Nobody /\ answers' = 0
    /\ UNCHANGED <<game, left, buttons, net, gets, recreated, crashed, overdue>>

----------------------------------------------------------------------------
(* Buttons *)

ActivateChat ==
    /\ Len(orders) < MaxOrders
    /\ chatActivated' = ~chatActivated
    /\ Send(<< <<IF chatActivated THEN "unsubscribe" ELSE "subscribe", "chat">> >>)
    /\ UNCHANGED <<screen, spyEnabled, rounds, link, told, session, leaves, cuts, gets, recreated,
                   crashed, overdue>>

(* Variant: the button stays enabled. *)
AfterTapSame == spyEnabled

AfterTap == FALSE

Spy ==
    /\ spyEnabled /\ Len(orders) < MaxOrders /\ spyEnabled' = AfterTap
    /\ Send(<< <<"subscribe", "enemyPositions">> >>)
    /\ rounds' = Append(rounds, [spying |-> TRUE, here |-> TRUE])
    /\ UNCHANGED <<screen, chatActivated, link, told, session, leaves, cuts, gets, recreated,
                   crashed, overdue>>

(* Variants: the round only recharges; it ends the team's positions. *)
EndOfRoundNone == <<>>
EndOfRoundOwn == << <<"unsubscribe", "positions">> >>

EndOfRound == << <<"unsubscribe", "enemyPositions">> >>

(* The timers go off in the order in which they were set. *)
SpyingTimeOver(i) ==
    /\ rounds[i].spying /\ \A j \in 1..(i - 1) : ~rounds[j].spying
    /\ rounds' = [rounds EXCEPT ![i].spying = FALSE]
    /\ Send(EndOfRound) /\ overdue' = (overdue \/ ~link)
    /\ UNCHANGED <<screen, chatActivated, spyEnabled, link, told, session, leaves, cuts, gets,
                   recreated, crashed>>

(* The button of an activity that is gone is not found: nobody catches that. *)
Recharged ==
    /\ rounds # <<>> /\ ~Head(rounds).spying /\ rounds' = Tail(rounds)
    /\ IF Head(rounds).here THEN spyEnabled' = TRUE /\ UNCHANGED crashed
       ELSE crashed' = TRUE /\ UNCHANGED spyEnabled
    /\ UNCHANGED <<screen, chatActivated, net, gets, recreated, overdue>>

----------------------------------------------------------------------------
(* The connection and the broker *)

(* Variant: only a new client subscribes. *)
AgainNone == <<>>

Again == SubscribeTeam

ConnectComplete ==
    /\ link /\ ~told /\ told' = TRUE /\ Send(Again)
    /\ UNCHANGED <<screen, buttons, link, session, leaves, cuts, gets, recreated, crashed, overdue>>

Connect ==
    /\ ~link /\ link' = TRUE
    /\ UNCHANGED <<screen, buttons, told, session, orders, leaves, cuts, gets, recreated, crashed,
                   overdue>>

(* What was on its way is lost: the quality of service is 0, and orders are not repeated. *)
Lose ==
    /\ link' = FALSE /\ told' = FALSE /\ orders' = <<>> /\ leaves' = <<>>
    /\ overdue' = (overdue \/ \E i \in 1..Len(orders) : orders[i] = <<"unsubscribe", "enemyPositions">>)

Cut ==
    /\ link /\ cuts < MaxCuts /\ cuts' = cuts + 1 /\ Lose /\ UNCHANGED session
    /\ UNCHANGED <<screen, buttons, gets, recreated, crashed>>

(* A broker that restarts has forgotten the session. *)
BrokerRestart ==
    /\ Restarts /\ cuts < MaxCuts /\ cuts' = cuts + 1 /\ Lose /\ session' = {}
    /\ UNCHANGED <<screen, buttons, gets, recreated, crashed>>

BrokerTakes ==
    LET o == Head(orders)
    IN  /\ orders # <<>> /\ orders' = Tail(orders)
        /\ session' = IF o[1] = "subscribe" THEN session \union {o[2]} ELSE session \ {o[2]}
        /\ overdue' = (overdue /\ o # <<"unsubscribe", "enemyPositions">>)
        /\ UNCHANGED <<screen, buttons, link, told, leaves, cuts, gets, recreated, crashed>>

(* Somebody's LEAVE, as the server sends it for its test players. *)
PlayerLeaves(p) ==
    /\ link /\ "game" \in session /\ Len(leaves) < MaxLeaves /\ leaves' = Append(leaves, p)
    /\ UNCHANGED <<screen, buttons, link, told, session, orders, cuts, gets, recreated, crashed,
                   overdue>>

(* The system makes the activity anew; the timers and the clients go on. *)
Recreate ==
    /\ recreated < MaxRecreated /\ recreated' = recreated + 1
    /\ game' = FALSE /\ left' = {} /\ renderLoop' = FALSE /\ movables' = Nobody /\ answers' = 0
    /\ chatActivated' = TRUE /\ spyEnabled' = TRUE
    /\ rounds' = [i \in 1..Len(rounds) |-> [rounds[i] EXCEPT !.here = FALSE]]
    /\ IF MapOnly THEN UNCHANGED <<gets, orders>> ELSE gets' = gets + 1 /\ Send(SubscribeTeam)
    /\ UNCHANGED <<link, told, session, leaves, cuts, crashed, overdue>>

Timers == \E i \in 1..Len(rounds) : SpyingTimeOver(i)
Next ==
    /\ ~crashed
    /\ \/ Answer \/ LeaveArrives \/ Timers \/ Recharged \/ ConnectComplete \/ AnswerNone
       \/ SurfaceChanged \/ ActivateChat \/ Spy \/ Connect \/ Cut \/ BrokerRestart
       \/ BrokerTakes \/ Recreate \/ \E p \in Others : PlayerLeaves(p)

(* A timer goes off, and the broker takes what it is sent; nobody has to tap, to leave *)
(* or to be connected.                                                                 *)
Spec == Init /\ [][Next]_vars /\ WF_vars(~crashed /\ Timers) /\ WF_vars(~crashed /\ BrokerTakes)

----------------------------------------------------------------------------
(* Properties *)

Settled == link /\ told /\ orders = <<>> /\ ~crashed
Spying == \E i \in 1..Len(rounds) : rounds[i].spying

(* Every variable keeps its type; an activity has at most one round. *)
TypeOK ==
    /\ left \subseteq Others /\ movables \in [Others -> Nat] /\ answers \in Nat
    /\ gets \in 0..(MaxGets + MaxRecreated) /\ session \subseteq Topics
    /\ orders \in Seq(Orders) /\ leaves \in Seq(Others)
    /\ {game, renderLoop, link, told, chatActivated, spyEnabled, crashed, overdue} \subseteq BOOLEAN
    /\ rounds \in Seq([spying : BOOLEAN, here : BOOLEAN])
    /\ cuts \in 0..MaxCuts /\ recreated \in 0..MaxRecreated

(* Whatever was muted, unmuted, cut and made anew, in any order: once the phone is   *)
(* connected and its orders have arrived, it gets the positions of its team, and the *)
(* team's chat unless it is muted.                                                   *)
TeamHeard ==
    Settled => "positions" \in session /\ (chatActivated => "chat" \in session)

(* The other team's positions come while a round lasts and at no other time.  (For a *)
(* connection without cuts and an activity that lives.)                              *)
SpyingExact == Settled => ("enemyPositions" \in session <=> Spying)

(* The button works exactly when no round of this activity is due: rounds of earlier *)
(* activities, whose timers go on, do not enable it or count for it.                *)
RoundsShown ==
    ~crashed => Cardinality({i \in 1..Len(rounds) : rounds[i].here}) = (IF spyEnabled THEN 0 ELSE 1)

(* With cuts they come beyond a round only if its end was lost in one: nothing sends *)
(* it again, and they come until the end of another round.                           *)
SpyingEnds == Settled /\ ~Spying /\ "enemyPositions" \in session => overdue

(* Who spies stops: no tap keeps the other team's positions coming for good. *)
SpyingStops == "enemyPositions" \in session ~> "enemyPositions" \notin session

(* Whom the map shows follows the answers that found its loop, in any order with LEAVE *)
(* messages and surfaces: nobody before the first of them; then everybody who has not   *)
(* left since the last, and each at most once for every answer (the second, the lobby's *)
(* last poll in ordinary use, shows the others twice).  Who has left loses one place,   *)
(* so he is gone only where there was one answer; and an answer after his LEAVE shows   *)
(* him again, as the server's list still has him.                                       *)
ShownAsAnswered ==
    \A p \in Others :
        CASE answers = 0 -> movables[p] = 0
          [] answers > 0 /\ p \in left -> movables[p] < answers
          [] answers > 0 /\ p \notin left -> movables[p] \in 1..answers
=============================================================================
