------------------------------ MODULE MCPhone ------------------------------
(***************************************************************************)
(* The app, from the dashboard to the map.  Its parts meet at hand-overs   *)
(* that each part has as inputs or outputs of its own (the map begins with *)
(* what the lobby has left under way, a measurement is whatever the link   *)
(* parses); they share no variable here.  What a part does is therefore    *)
(* the same whatever the others do: one of them, on one of its instances,  *)
(* is chosen at the start and runs; the others keep an initial state.      *)
(***************************************************************************)
EXTENDS Integers, Sequences

CONSTANT Parts   \* the parts that may run

VARIABLES
    part,   \* the part that runs, and its instance
    \* Lobby
    top, listener, hears, admin, team, seen, off, lobbyLink, subscribed, lobbyGame, created,
    members, calls, starts, joined, unsure, summoned,
    \* TagScan
    scanDialog, scanning, timer, scanQueue, foundTags, listAdapter, tapped, connected, scanCrashed,
    \* TagLink
    tagLink, modeCharacteristic, requests, anchorCount, map, linkDialog, tag, air, handed, missed,
    drops, maps, linkCrashed,
    \* PositionCalc
    data, posted, pc, rows, q, qPrev, iter, window, used, results,
    \* MapSession
    mapGame, left, renderLoop, movables, gets, mapLink, told, session, orders, leaves,
    chatActivated, spyEnabled, rounds, cuts, recreated, mapCrashed, answers, overdue,
    \* RenderLoop
    surface, main, loops, canvas, failed, why,
    \* ChatRecorder
    chatQueue, recording, recorders, armed, fired, updates, progress, chatCrashed, late

lobby == <<top, listener, hears, admin, team, seen, off, lobbyLink, subscribed, lobbyGame, created,
           members, calls, starts, joined, unsure, summoned>>
scan == <<scanDialog, scanning, timer, scanQueue, foundTags, listAdapter, tapped, connected,
          scanCrashed>>
link == <<tagLink, modeCharacteristic, requests, anchorCount, map, linkDialog, tag, air, handed,
          missed, drops, maps, linkCrashed>>
calc == <<data, posted, pc, rows, q, qPrev, iter, window, used, results>>
screen == <<mapGame, left, renderLoop, movables, gets, mapLink, told, session, orders, leaves,
            chatActivated, spyEnabled, rounds, cuts, recreated, mapCrashed, answers, overdue>>
render == <<surface, main, loops, canvas, failed, why>>
chat == <<chatQueue, recording, recorders, armed, fired, updates, progress, chatCrashed, late>>

----------------------------------------------------------------------------
(* The instances *)

\* Two phones and a game, of which one creates it; one phone, two games and failures;
\* one phone that taps as it likes.
LobbyTwo == INSTANCE Lobby WITH Phones <- {"p1", "p2"}, Creators <- {"p1"}, MaxGames <- 1,
    Orderly <- TRUE, Lossy <- FALSE, link <- lobbyLink, game <- lobbyGame
LobbyLossy == INSTANCE Lobby WITH Phones <- {"p1"}, Creators <- {"p1"}, MaxGames <- 2,
    Orderly <- TRUE, Lossy <- TRUE, link <- lobbyLink, game <- lobbyGame
LobbyAny == INSTANCE Lobby WITH Phones <- {"p1"}, Creators <- {"p1"}, MaxGames <- 2,
    Orderly <- FALSE, Lossy <- FALSE, link <- lobbyLink, game <- lobbyGame

\* A main thread that runs each task before the next is posted; and a busy one.
ScanPrompt == INSTANCE TagScan WITH Order <- <<"one", "other", "third">>, MaxQueue <- 1,
    dialog <- scanDialog, queue <- scanQueue, crashed <- scanCrashed
ScanQueued == INSTANCE TagScan WITH Order <- <<"one", "other">>, MaxQueue <- 3,
    dialog <- scanDialog, queue <- scanQueue, crashed <- scanCrashed

\* The 38 bytes of tag_to_ble_msg_t, packed: two ids, then the stamps.
Message == <<"group_id", "src_id">> \o [i \in 1..17 |-> "stamps"]

\* Requests that are answered; and some that fail, from the map.
Link == INSTANCE TagLink WITH AnchorCount <- 4, MaxDrops <- 2, MaxMaps <- 2, MaxAir <- 2,
    RequestsFail <- FALSE, MapOnly <- FALSE, link <- tagLink, dialog <- linkDialog,
    crashed <- linkCrashed
LinkFails == INSTANCE TagLink WITH AnchorCount <- 4, MaxDrops <- 2, MaxMaps <- 2, MaxAir <- 2,
    RequestsFail <- TRUE, MapOnly <- TRUE, link <- tagLink, dialog <- linkDialog,
    crashed <- linkCrashed

\* The 28 pairs of the eight anchors of every map's configuration: a full measurement,
\* one with three usable readings among others, two that are too poor (one of them only
\* after the cut); and what the tag's network of four anchors sends instead, six pairs,
\* or none as long as the tag's number of anchors is not known.
Fill(readings, rest) == readings \o [i \in 1..(28 - Len(readings)) |-> rest]
Measurements == {
    Fill(<<"range", "range", "zero">>, "range"),
    Fill(<<"range", "none", "range", "same", "range", "zero">>, "none"),
    Fill(<<"range", "range", "none", "none", "zero">>, "none"),
    Fill(<<"none", "none", "same", "range", "range">>, "none"),
    [i \in 1..6 |-> "range"],
    <<>>}
Calc == INSTANCE PositionCalc WITH MAXITER <- 20, WINDOW_SIZE <- 6, Anchors <- 8, MaxPosted <- 2

\* A game on a connection that lasts, with the answer to the lobby's last poll beside its
\* own; one with every fault; a map without a game.
MapGame == INSTANCE MapSession WITH Others <- {"mate"}, MapOnly <- FALSE, MaxGets <- 2,
    MaxCuts <- 0, MaxLeaves <- 2, MaxOrders <- 3, MaxRecreated <- 0, Restarts <- FALSE,
    game <- mapGame, link <- mapLink, crashed <- mapCrashed
MapFaults == INSTANCE MapSession WITH Others <- {"enemy"}, MapOnly <- FALSE, MaxGets <- 1,
    MaxCuts <- 2, MaxLeaves <- 0, MaxOrders <- 2, MaxRecreated <- 1, Restarts <- TRUE,
    game <- mapGame, link <- mapLink, crashed <- mapCrashed
MapOnly == INSTANCE MapSession WITH Others <- {"mate", "enemy"}, MapOnly <- TRUE, MaxGets <- 1,
    MaxCuts <- 2, MaxLeaves <- 1, MaxOrders <- 3, MaxRecreated <- 0, Restarts <- FALSE,
    game <- mapGame, link <- mapLink, crashed <- mapCrashed

\* A surface that changes once, when it is new; and any changes.
RenderOne == INSTANCE RenderLoop WITH Anchors <- 2, MaxLoops <- 3, MaxMovables <- 2, OneChange <- TRUE
RenderMany == INSTANCE RenderLoop WITH Anchors <- 1, MaxLoops <- 3, MaxMovables <- 2, OneChange <- FALSE

Chat == INSTANCE ChatRecorder WITH MaxRecordings <- 3, MaxQueue <- 3, Rounds <- 3,
    queue <- chatQueue, crashed <- chatCrashed

ASSUME PartsAssumption == Parts \subseteq
    {"lobbyOfTwo", "lossyLobby", "anyLobby", "promptScan", "queuedScan", "link", "failingLink",
     "calc", "map", "faultyMap", "mapOnly", "oneSurface", "surfaces", "chat"}
ASSUME InstancesAssumption ==
    /\ LobbyTwo!CreatorsAssumption /\ LobbyLossy!CreatorsAssumption /\ LobbyAny!CreatorsAssumption
    /\ ScanPrompt!OrderAssumption /\ ScanQueued!OrderAssumption
    /\ Link!BoundsAssumption /\ Link!MessageAssumption
    /\ Calc!SizesAssumption /\ Calc!ReadingsAssumption
    /\ MapGame!BoundsAssumption /\ MapFaults!BoundsAssumption /\ MapOnly!BoundsAssumption
    /\ RenderOne!BoundsAssumption /\ RenderMany!BoundsAssumption /\ Chat!BoundsAssumption

----------------------------------------------------------------------------
PhoneInit ==
    /\ part \in Parts
    /\ IF part = "lossyLobby" THEN LobbyLossy!Init
       ELSE IF part = "anyLobby" THEN LobbyAny!Init ELSE LobbyTwo!Init
    /\ ScanQueued!Init
    /\ IF part = "failingLink" THEN LinkFails!Init ELSE Link!Init
    /\ Calc!Init
    /\ IF part = "faultyMap" THEN MapFaults!Init
       ELSE IF part = "map" THEN MapGame!Init ELSE MapOnly!Init
    /\ RenderMany!Init
    /\ Chat!Init

PhoneNext ==
    /\ UNCHANGED part
    /\ \/ /\ \/ part = "lobbyOfTwo" /\ LobbyTwo!Next
             \/ part = "lossyLobby" /\ LobbyLossy!Next
             \/ part = "anyLobby" /\ LobbyAny!Next
          /\ UNCHANGED <<scan, link, calc, screen, render, chat>>
       \/ /\ \/ part = "promptScan" /\ ScanPrompt!Next
             \/ part = "queuedScan" /\ ScanQueued!Next
          /\ UNCHANGED <<lobby, link, calc, screen, render, chat>>
       \/ /\ \/ part = "link" /\ Link!Next
             \/ part = "failingLink" /\ LinkFails!Next
          /\ UNCHANGED <<lobby, scan, calc, screen, render, chat>>
       \/ part = "calc" /\ Calc!Next /\ UNCHANGED <<lobby, scan, link, screen, render, chat>>
       \/ /\ \/ part = "map" /\ MapGame!Next
             \/ part = "faultyMap" /\ MapFaults!Next
             \/ part = "mapOnly" /\ MapOnly!Next
          /\ UNCHANGED <<lobby, scan, link, calc, render, chat>>
       \/ /\ \/ part = "oneSurface" /\ RenderOne!Next
             \/ part = "surfaces" /\ RenderMany!Next
          /\ UNCHANGED <<lobby, scan, link, calc, screen, chat>>
       \/ part = "chat" /\ Chat!Next /\ UNCHANGED <<lobby, scan, link, calc, screen, render>>

phoneVars == <<part, lobby, scan, link, calc, screen, render, chat>>

\* The fairness of each part, for the instance whose liveness is checked.
PhoneFairness ==
    /\ WF_lobby(part = "anyLobby" /\ LobbyAny!StartArrives("p1"))
    /\ \A op \in LobbyAny!Ops :
         WF_lobby(part = "anyLobby"
                    /\ \E c \in calls : c.op = op /\ (LobbyAny!Serve(c) \/ LobbyAny!Answered(c)))
    /\ WF_scan(part = "queuedScan" /\ ~scanCrashed /\ ScanQueued!Task)
    /\ SF_scan(part = "queuedScan" /\ ~scanCrashed /\ ScanQueued!Period)
    /\ WF_link(part = "link" /\ ~linkCrashed /\ Link!Library)
    /\ WF_screen(part = "map" /\ ~mapCrashed /\ MapGame!Timers)
    /\ WF_screen(part = "map" /\ ~mapCrashed /\ MapGame!BrokerTakes)
    /\ WF_render(part = "surfaces" /\ failed = 0 /\ (RenderMany!AddAnchor \/ RenderMany!Return))
    /\ \A l \in 1..3 :
         /\ WF_render(part = "surfaces"
                        /\ (RenderMany!LoopMay(RenderMany!Test, l) \/ RenderMany!LoopMay(RenderMany!Draw, l)))
         /\ SF_render(part = "surfaces" /\ RenderMany!LoopMay(RenderMany!Lock, l))
    /\ WF_chat(part = "chat" /\ ~chatCrashed /\ Chat!Task)
    /\ WF_chat(part = "chat" /\ ~chatCrashed /\ \E r \in Chat!Recorders : Chat!TimeOver(r))
    /\ WF_chat(part = "chat" /\ ~chatCrashed /\ \E r \in Chat!Recorders : Chat!PostLimit(r))

PhoneSpec == PhoneInit /\ [][PhoneNext]_phoneVars /\ PhoneFairness

----------------------------------------------------------------------------
(* Properties.  Each is its module's, of the instances it is for. *)

\* A phone plays in the team that the server has it in, unless a join was lost or
\* overtaken by START, which takes every phone to the map that had a team and a
\* subscription.
LobbyKept ==
    /\ part = "lobbyOfTwo" => LobbyTwo!TypeOK /\ LobbyTwo!TeamAgrees /\ LobbyTwo!NobodyLeftBehind
    /\ part = "lossyLobby" => LobbyLossy!TeamAgrees /\ LobbyLossy!NobodyLeftBehind

\* On a main thread that keeps up, the tag that is connected is the one that was
\* tapped; what it sends is cut to its own number of anchors unless a read was lost.
TagUnderstood ==
    /\ part = "promptScan" => ScanPrompt!TappedIsConnected
    /\ part = "queuedScan" => ScanQueued!TypeOK
    /\ part = "link" => Link!TypeOK /\ Link!CutToAnchors
    /\ part = "failingLink" => LinkFails!CutToAnchors

\* The newest measurement is computed last; of the positions that the last step still
\* moved only those are kept that it moved by more than 100 m; too few equations do not
\* move it, and a bad one leaves the average.
PositionKept ==
    /\ [](Calc!TypeOK /\ Calc!NewestUsed /\ Calc!MiddleDropped /\ Calc!WindowForgets)
    /\ Calc!PoorDropped

\* The other team's positions come while a round lasts and at no other time; with
\* faults beyond it only if its end was lost; the button shows the round.
SpyingKept ==
    /\ part = "map" => MapGame!SpyingExact
    /\ part = "faultyMap" => MapFaults!SpyingEnds /\ MapFaults!RoundsShown

\* A connected phone gets its team's positions, and the chat it has not muted; the map
\* shows the players who have not left since the last answer, once for each answer at most.
TeamShown ==
    /\ part = "map" => MapGame!TypeOK /\ MapGame!ShownAsAnswered
    /\ part = "faultyMap" => MapFaults!TypeOK /\ MapFaults!TeamHeard /\ MapFaults!ShownAsAnswered
    /\ part = "mapOnly" => MapOnly!TeamHeard

\* Surfaces that change once are drawn by one thread, which does not survive them;
\* only a thread that a second change has left behind draws on one that is gone.
DrawingKept ==
    /\ part = "oneSurface" => RenderOne!OneLoop
    /\ part = "surfaces" => RenderMany!TypeOK /\ RenderMany!OnlyForgottenFail

\* Only the recording that goes on has a timer and the microphone; another one's limit
\* is under way, and one is stopped twice, only if a tap came after its timer had fired.
RecordingKept ==
    /\ Chat!TypeOK /\ Chat!LimitsAreCurrent /\ Chat!MicrophoneShown
    /\ Chat!StoppedTwiceOnlyIfLate

\* Who begins gets there: a creator from the first dashboard into the lobby as the
\* admin, a found tag into the list, an open map to its tag's positions.
BeginningsArrive ==
    /\ part = "anyLobby" => LobbyAny!CreatorEnters
    /\ part = "queuedScan" => ScanQueued!TagsListed
    /\ part = "link" => Link!MapGetsPositions

\* What lasts for a time ends: spying, each recording, and surfaceDestroyed.
RoundsEnd ==
    /\ part = "map" => MapGame!SpyingStops
    /\ part = "surfaces" => RenderMany!DestroyedReturns
    /\ part = "chat" => Chat!RecordingEnds
=============================================================================
