------------------------------- MODULE Lobby -------------------------------
(***************************************************************************)
(* The phones before a game: the dashboard, the lobby and the hand-over to *)
(* the map.  All activities of a phone share a REST client with a single   *)
(* listener, an MQTT client with a single game listener, and the player.   *)
(* Calls overlap and overtake each other on their way to the server and    *)
(* back; the server is taken here at its word, one request after another   *)
(* (GameServer models what its threads do).  Configured without mapOnlyMode.*)
(***************************************************************************)
EXTENDS Integers, FiniteSets

CONSTANTS
    Phones,     \* the phones; each stands for the player name typed on it
    Creators,   \* those whose users create games
    MaxGames,   \* bound: games created
    Orderly,    \* nobody taps a team while his last tap is unanswered
    Lossy       \* calls and connections may fail

CreatorsAssumption == MaxGames \in Nat /\ Creators \subseteq Phones

Teams == {"red", "blue"}
None == "none"
NoGame == 0
Games == 1..MaxGames

VARIABLES
    top,        \* the visible activity
    listener,   \* RestServiceImpl.listener; "left" is a lobby that was closed
    hears,      \* MqttServiceImpl.gameListener, once there is a client
    admin,      \* PaintballApplication.player.isAdmin
    team,       \* PaintballApplication.player.team
    seen,       \* the open lobby's game
    off,        \* the team whose button is disabled in the open lobby
    link,       \* the MQTT client: not created, down, or up
    subscribed, \* the broker's session of the phone has the game topic
    game,       \* the server's game
    created,    \* games created so far
    members,    \* the team of the server's game that each phone's player is in
    calls,      \* REST calls on their way to the server or back
    starts,     \* the phones that a START message is on its way to
    joined,     \* history: the game in which the phone's last answered join was served
    unsure,     \* history: a join of the phone was lost, or START overtook its answer
    summoned    \* history: phones that had joined and were connected at a START

app == <<top, listener, hears, admin, team, seen, off>>
mqtt == <<link, subscribed, starts>>
server == <<game, created, members>>
history == <<joined, unsure, summoned>>
vars == <<app, mqtt, server, calls, history>>

Init ==
    /\ top = [p \in Phones |-> "dashboard"] /\ listener = [p \in Phones |-> "dashboard"]
    /\ hears = [p \in Phones |-> None] /\ admin = [p \in Phones |-> FALSE]
    /\ team = [p \in Phones |-> None] /\ off = [p \in Phones |-> None]
    /\ seen = [p \in Phones |-> NoGame]
    /\ link = [p \in Phones |-> None] /\ subscribed = {} /\ starts = {}
    /\ game = NoGame /\ created = 0 /\ members = [p \in Phones |-> None]
    /\ calls = {} /\ joined = [p \in Phones |-> NoGame] /\ unsure = {} /\ summoned = {}

----------------------------------------------------------------------------
(* REST calls.  at is the game that a call found at the server, or the one that *)
(* the phone's lobby showed when it sent a delete.                              *)

Call(p, op, t, g) == [from |-> p, op |-> op, team |-> t, at |-> g, answered |-> FALSE]

(* A GET is served when it is sent: one that is served later is one that the timer *)
(* sent later.                                                                     *)
Get(p) == [Call(p, "get", None, game) EXCEPT !.answered = TRUE]
Ops == {"get", "create", "join", "delete"}
Waiting(p, op) == \E c \in calls : c.from = p /\ c.op = op

Creating == Cardinality({c \in calls : c.op = "create" /\ ~c.answered})

(* JoinGameActivity.onCreate with the new player of onJoinGame or createGameSuccess: *)
(* the listeners are replaced and the MQTT client is made.                           *)
OpenLobby(p, isAdmin) ==
    /\ top' = [top EXCEPT ![p] = "lobby"] /\ listener' = [listener EXCEPT ![p] = "lobby"]
    /\ hears' = [hears EXCEPT ![p] = "lobby"]
    /\ admin' = [admin EXCEPT ![p] = isAdmin] /\ team' = [team EXCEPT ![p] = None]
    /\ seen' = [seen EXCEPT ![p] = NoGame] /\ off' = [off EXCEPT ![p] = None]
    /\ link' = [link EXCEPT ![p] = IF @ = None THEN "down" ELSE @]
    /\ summoned' = summoned \ {p}

TapJoinGame(p) ==
    /\ top[p] = "dashboard" /\ OpenLobby(p, FALSE)
    /\ UNCHANGED <<subscribed, starts, server, calls, joined, unsure>>

(* The dialog was filled in; one creation at a time. *)
TapCreate(p) ==
    /\ p \in Creators /\ top[p] = "dashboard" /\ ~Waiting(p, "create") /\ created + Creating < MaxGames
    /\ calls' = calls \union {Call(p, "create", None, NoGame)}
    /\ UNCHANGED <<app, mqtt, server, history>>

(* The refresh timer of an open lobby. *)
Poll(p) ==
    /\ top[p] = "lobby" /\ ~Waiting(p, "get")
    /\ calls' = calls \union {Get(p)}
    /\ UNCHANGED <<app, mqtt, server, history>>

(* The buttons work once a game was seen; the joined team's is disabled. *)
TapTeam(p, t) ==
    /\ top[p] = "lobby" /\ seen[p] # NoGame /\ off[p] # t
    /\ ~\E c \in calls : c.from = p /\ c.op = "join" /\ (Orderly \/ c.team = t)
    /\ calls' = calls \union {Call(p, "join", t, NoGame)}
    /\ UNCHANGED <<app, mqtt, server, history>>

(* onBackPressed: without a game, or as the admin, who deletes it.  The closed  *)
(* lobby stays registered; the dashboard below registers itself in onCreate only.*)
Back(p) ==
    /\ top[p] = "lobby" /\ (seen[p] = NoGame \/ admin[p])
    /\ top' = [top EXCEPT ![p] = "dashboard"]
    /\ listener' = [listener EXCEPT ![p] = "left"] /\ hears' = [hears EXCEPT ![p] = "left"]
    /\ calls' = IF seen[p] = NoGame THEN calls
                ELSE calls \union {Call(p, "delete", None, seen[p])}
    /\ UNCHANGED <<admin, team, seen, off, mqtt, server, history>>

(* The server takes any call that is under way; a game is made of no players, and *)
(* a join without a game does nothing and is answered all the same.               *)
Serve(c) ==
    LET p == c.from
        now == IF c.op = "create" THEN created + 1 ELSE IF c.op = "delete" THEN NoGame ELSE game
    IN  /\ ~c.answered /\ now \in Games \union {NoGame} /\ game' = now
        /\ created' = IF c.op = "create" THEN now ELSE created
        /\ members' = IF c.op \in {"create", "delete"} THEN [q \in Phones |-> None]
                      ELSE IF c.op = "join" /\ game # NoGame THEN [members EXCEPT ![p] = c.team]
                      ELSE members
        /\ calls' = (calls \ {c}) \union
                      IF c.op = "delete" THEN {}
                      ELSE {[c EXCEPT !.answered = TRUE, !.at = now]}
        /\ UNCHANGED <<app, mqtt, history>>

(* A call fails before or after the server has served it: a toast, no more. *)
Fail(c) ==
    /\ Lossy /\ calls' = calls \ {c}
    /\ unsure' = IF c.op = "join" THEN unsure \union {c.from} ELSE unsure
    /\ UNCHANGED <<app, mqtt, server, joined, summoned>>

(* The server keeps its game in memory only. *)
ServerRestart ==
    /\ Lossy /\ game' = NoGame /\ members' = [q \in Phones |-> None]
    /\ UNCHANGED <<app, mqtt, created, calls, history>>

----------------------------------------------------------------------------
(* Answers, of any status, go to the activity that is registered when they come. *)

Returned(c, op) == c \in calls /\ c.answered /\ c.op = op

(* Variant: the creator enters without being the admin. *)
CreatorJoins(p) == OpenLobby(p, FALSE)

Creator(p) == OpenLobby(p, TRUE)

CreateSuccess(c) ==
    /\ Returned(c, "create") /\ calls' = calls \ {c}
    /\ IF listener[c.from] = "dashboard" THEN Creator(c.from)
       ELSE UNCHANGED <<app, link, summoned>>
    /\ UNCHANGED <<subscribed, starts, server, joined, unsure>>

GetSuccess(c) ==
    /\ Returned(c, "get") /\ calls' = calls \ {c}
    /\ seen' = IF listener[c.from] = "lobby" /\ c.at # NoGame
               THEN [seen EXCEPT ![c.from] = c.at] ELSE seen
    /\ UNCHANGED <<top, listener, hears, admin, team, off, mqtt, server, history>>

(* Variant: only the buttons change. *)
TakeTeamOnce(p, t) == team' = [team EXCEPT ![p] = IF @ = None THEN t ELSE @]

TakeTeam(p, t) == team' = [team EXCEPT ![p] = t]

(* addRedPlayerSuccess and addBluePlayerSuccess: a closed lobby sets the player's *)
(* team too, the map does not.                                                    *)
JoinSuccess(c) ==
    LET p == c.from
        inLobby == listener[p] \in {"lobby", "left"}
    IN  /\ Returned(c, "join")
        /\ IF inLobby
           THEN TakeTeam(p, c.team) /\ calls' = (calls \ {c}) \union {Get(p)}
           ELSE UNCHANGED team /\ calls' = calls \ {c}
        /\ off' = IF listener[p] = "lobby" THEN [off EXCEPT ![p] = c.team] ELSE off
        /\ joined' = IF inLobby THEN [joined EXCEPT ![p] = c.at] ELSE joined
        /\ UNCHANGED <<top, listener, hears, admin, seen, mqtt, server, unsure, summoned>>

----------------------------------------------------------------------------
(* MQTT: the connection may come late or be cut; the session outlives it. *)

(* connectComplete goes to the game listener of the moment: the lobby subscribes *)
(* to the game, the map to positions and chat.                                   *)
Connect(p) ==
    /\ link[p] = "down" /\ link' = [link EXCEPT ![p] = "up"]
    /\ subscribed' = IF hears[p] = "map" THEN subscribed ELSE subscribed \union {p}
    /\ UNCHANGED <<app, starts, server, calls, history>>

Cut(p) ==
    /\ Lossy /\ link[p] = "up" /\ link' = [link EXCEPT ![p] = "down"]
    /\ starts' = starts \ {p} /\ summoned' = summoned \ {p}
    /\ UNCHANGED <<app, subscribed, server, calls, joined, unsure>>

Reachable == {p \in Phones : link[p] = "up" /\ p \in subscribed}

(* START is published at most once to every connected subscriber. *)
TapStart(p) ==
    /\ top[p] = "lobby" /\ admin[p] /\ seen[p] # NoGame /\ link[p] = "up"
    /\ starts' = starts \union Reachable
    /\ summoned' = summoned \union
                     {q \in Reachable : hears[q] \in {"lobby", "left"} /\ team[q] # None}
    /\ UNCHANGED <<app, link, subscribed, server, calls, joined, unsure>>

(* Variant: whoever hears START plays. *)
MayPlayAlways(p) == TRUE

(* Variant: START is ignored while a change of teams is outstanding. *)
MayPlayAtRest(p) == team[p] # None /\ ~Waiting(p, "join")

MayPlay(p) == team[p] # None

(* gameMessageArrived, and MapActivity.onCreate which replaces the listeners (what *)
(* it asks for then is MapSession's).  A closed lobby opens the map as well; on the *)
(* map START means nothing.                                                        *)
StartArrives(p) ==
    /\ p \in starts /\ starts' = starts \ {p}
    /\ IF hears[p] \in {"lobby", "left"} /\ MayPlay(p)
       THEN /\ top' = [top EXCEPT ![p] = "map"] /\ listener' = [listener EXCEPT ![p] = "map"]
            /\ hears' = [hears EXCEPT ![p] = "map"]
            /\ unsure' = IF Waiting(p, "join") THEN unsure \union {p} ELSE unsure
       ELSE UNCHANGED <<top, listener, hears, unsure>>
    /\ UNCHANGED <<admin, team, seen, off, link, subscribed, server, calls, joined, summoned>>

----------------------------------------------------------------------------

Answered(c) == CreateSuccess(c) \/ GetSuccess(c) \/ JoinSuccess(c)
Tap(p) ==
    TapJoinGame(p) \/ TapCreate(p) \/ (\E t \in Teams : TapTeam(p, t)) \/ Back(p) \/ TapStart(p)

Next ==
    \/ \E p \in Phones : Tap(p) \/ Poll(p) \/ Connect(p) \/ Cut(p) \/ StartArrives(p)
    \/ ServerRestart
    \/ \E c \in calls : Serve(c) \/ Fail(c) \/ Answered(c)

CallSet == [from : Phones, op : Ops, team : Teams \union {None}, at : Games \union {NoGame},
            answered : BOOLEAN]

(* Of a phone's calls of one kind, those that do not fail are served and answered *)
(* in time, and a message on an open connection arrives; users, timers and        *)
(* connections owe nothing.                                                       *)
Spec ==
    /\ Init /\ [][Next]_vars
    /\ \A p \in Phones : WF_vars(StartArrives(p))
    /\ \A p \in Phones, op \in Ops :
        WF_vars(\E c \in calls : c.from = p /\ c.op = op /\ (Serve(c) \/ Answered(c)))

----------------------------------------------------------------------------
(* Properties *)

(* Every variable keeps its type; the map is open only to a player with a team, *)
(* whose topics it takes (TopicsConfig.kt:11-15 would make him red).            *)
TypeOK ==
    /\ top \in [Phones -> {"dashboard", "lobby", "map"}]
    /\ listener \in [Phones -> {"dashboard", "lobby", "left", "map"}]
    /\ hears \in [Phones -> {None, "lobby", "left", "map"}]
    /\ admin \in [Phones -> BOOLEAN] /\ team \in [Phones -> Teams \union {None}]
    /\ seen \in [Phones -> Games \union {NoGame}] /\ off \in [Phones -> Teams \union {None}]
    /\ link \in [Phones -> {None, "down", "up"}] /\ subscribed \subseteq Phones
    /\ game \in Games \union {NoGame} /\ created \in 0..MaxGames
    /\ members \in [Phones -> Teams \union {None}] /\ calls \subseteq CallSet
    /\ starts \subseteq Phones /\ joined \in [Phones -> Games \union {NoGame}]
    /\ unsure \subseteq Phones /\ summoned \subseteq Phones
    /\ \A p \in Phones : top[p] = "map" => team[p] # None

(* With orderly taps: a phone that is not waiting for a join plays in the team that *)
(* the server has it in, as long as the game it joined is the server's: others see  *)
(* it there and its own topics are those.  The exceptions are a join that failed,   *)
(* and a START that arrived before the answer to a change of teams.                 *)
TeamAgrees ==
    Orderly => \A p \in Phones :
        team[p] # None /\ joined[p] = game /\ game # NoGame /\ ~Waiting(p, "join")
            /\ p \notin unsure => members[p] = team[p]

(* Whoever creates a game from the dashboard on which the application started gets *)
(* into the lobby as its admin, unless he joins by hand before the answer.         *)
CreatorEnters ==
    \A p \in Phones :
        (Waiting(p, "create") /\ listener[p] = "dashboard")
            ~> (listener[p] # "dashboard" /\ (admin[p] \/ Waiting(p, "create")))

(* START takes every phone to the map that had a team and a subscription when the  *)
(* admin pressed it, whichever of the phone's calls are outstanding when it comes:  *)
(* the message is under way or has done its work, unless the connection was cut.    *)
NobodyLeftBehind == \A p \in summoned : p \in starts \/ top[p] = "map"
=============================================================================
