--------------------------- MODULE Phone_proofs ---------------------------
(***************************************************************************)
(* The safety properties of the app's parts on the instances that are      *)
(* checked: the invariants of AppParts_proofs, which hold for any bounds,  *)
(* hold of the part that runs, and the others keep their state.            *)
(***************************************************************************)
EXTENDS MCPhone, SequenceTheorems, FiniteSetTheorems, TLAPS

\* The bounds of LobbyTwo, MapGame, RenderOne, Chat, ScanPrompt, Link and Calc; of LobbyLossy,
\* MapFaults, RenderMany, ScanQueued and LinkFails; and of MapOnly.
First == INSTANCE AppParts_proofs WITH
    Phones <- {"p1", "p2"}, Creators <- {"p1"}, MaxGames <- 1, Orderly <- TRUE, Lossy <- FALSE,
    Others <- {"mate"}, OnlyMap <- FALSE, MaxGets <- 2, MaxCuts <- 0, MaxLeaves <- 2,
    MaxOrders <- 3, MaxRecreated <- 0, Restarts <- FALSE,
    Anchors <- 2, MaxLoops <- 3, MaxMovables <- 2, OneChange <- TRUE,
    MaxRecordings <- 3, MaxQueue <- 3, Rounds <- 3,
    Order <- <<"one", "other", "third">>, MaxTasks <- 1,
    AnchorCount <- 4, MaxDrops <- 2, MaxMaps <- 2, MaxAir <- 2, RequestsFail <- FALSE, MapFirst <- FALSE,
    MAXITER <- 20, WINDOW_SIZE <- 6, MapAnchors <- 8, MaxPosted <- 2,
    position <- q
Second == INSTANCE AppParts_proofs WITH
    Phones <- {"p1"}, Creators <- {"p1"}, MaxGames <- 2, Orderly <- TRUE, Lossy <- TRUE,
    Others <- {"enemy"}, OnlyMap <- FALSE, MaxGets <- 1, MaxCuts <- 2, MaxLeaves <- 0,
    MaxOrders <- 2, MaxRecreated <- 1, Restarts <- TRUE,
    Anchors <- 1, MaxLoops <- 3, MaxMovables <- 2, OneChange <- FALSE,
    MaxRecordings <- 3, MaxQueue <- 3, Rounds <- 3,
    Order <- <<"one", "other">>, MaxTasks <- 3,
    AnchorCount <- 4, MaxDrops <- 2, MaxMaps <- 2, MaxAir <- 2, RequestsFail <- TRUE, MapFirst <- TRUE,
    MAXITER <- 20, WINDOW_SIZE <- 6, MapAnchors <- 8, MaxPosted <- 2,
    position <- q
Third == INSTANCE AppParts_proofs WITH
    Phones <- {"p1"}, Creators <- {"p1"}, MaxGames <- 2, Orderly <- FALSE, Lossy <- FALSE,
    Others <- {"mate", "enemy"}, OnlyMap <- TRUE, MaxGets <- 1, MaxCuts <- 2, MaxLeaves <- 1,
    MaxOrders <- 3, MaxRecreated <- 0, Restarts <- FALSE,
    Anchors <- 1, MaxLoops <- 3, MaxMovables <- 2, OneChange <- FALSE,
    MaxRecordings <- 3, MaxQueue <- 3, Rounds <- 3,
    Order <- <<"one", "other">>, MaxTasks <- 3,
    AnchorCount <- 4, MaxDrops <- 2, MaxMaps <- 2, MaxAir <- 2, RequestsFail <- TRUE, MapFirst <- TRUE,
    MAXITER <- 20, WINDOW_SIZE <- 6, MapAnchors <- 8, MaxPosted <- 2,
    position <- q

-----------------------------------------------------------------------------
(* The instances of MCPhone are those of AppParts_proofs, definition by definition. *)
LEMMA LobbyTwoSame ==
    /\ LobbyTwo!Init => First!Lobby!Init
    /\ LobbyTwo!Next \/ UNCHANGED LobbyTwo!vars => First!Lobby!Next \/ UNCHANGED First!Lobby!vars
    /\ (First!Lobby!TypeOK => LobbyTwo!TypeOK) /\ (First!Lobby!TeamAgrees => LobbyTwo!TeamAgrees)
    /\ (First!Lobby!NobodyLeftBehind => LobbyTwo!NobodyLeftBehind)
  BY Zenon DEF LobbyTwo!Teams, First!Lobby!Teams, LobbyTwo!None, First!Lobby!None, LobbyTwo!NoGame,
         First!Lobby!NoGame, LobbyTwo!Games, First!Lobby!Games, LobbyTwo!app, First!Lobby!app,
         LobbyTwo!mqtt, First!Lobby!mqtt, LobbyTwo!server, First!Lobby!server, LobbyTwo!history,
         First!Lobby!history, LobbyTwo!vars, First!Lobby!vars, LobbyTwo!Init, First!Lobby!Init,
         LobbyTwo!Call, First!Lobby!Call, LobbyTwo!Get, First!Lobby!Get, LobbyTwo!Ops,
         First!Lobby!Ops, LobbyTwo!Waiting, First!Lobby!Waiting, LobbyTwo!Creating,
         First!Lobby!Creating, LobbyTwo!OpenLobby, First!Lobby!OpenLobby, LobbyTwo!TapJoinGame,
         First!Lobby!TapJoinGame, LobbyTwo!TapCreate, First!Lobby!TapCreate, LobbyTwo!Poll,
         First!Lobby!Poll, LobbyTwo!TapTeam, First!Lobby!TapTeam, LobbyTwo!Back, First!Lobby!Back,
         LobbyTwo!Serve, First!Lobby!Serve, LobbyTwo!Fail, First!Lobby!Fail,
         LobbyTwo!ServerRestart, First!Lobby!ServerRestart, LobbyTwo!Returned,
         First!Lobby!Returned, LobbyTwo!Creator, First!Lobby!Creator, LobbyTwo!CreateSuccess,
         First!Lobby!CreateSuccess, LobbyTwo!GetSuccess, First!Lobby!GetSuccess, LobbyTwo!TakeTeam,
         First!Lobby!TakeTeam, LobbyTwo!JoinSuccess, First!Lobby!JoinSuccess, LobbyTwo!Connect,
         First!Lobby!Connect, LobbyTwo!Cut, First!Lobby!Cut, LobbyTwo!Reachable,
         First!Lobby!Reachable, LobbyTwo!TapStart, First!Lobby!TapStart, LobbyTwo!MayPlay,
         First!Lobby!MayPlay, LobbyTwo!StartArrives, First!Lobby!StartArrives, LobbyTwo!Answered,
         First!Lobby!Answered, LobbyTwo!Tap, First!Lobby!Tap, LobbyTwo!Next, First!Lobby!Next,
         LobbyTwo!CallSet, First!Lobby!CallSet, LobbyTwo!TypeOK, First!Lobby!TypeOK,
         LobbyTwo!TeamAgrees, First!Lobby!TeamAgrees, LobbyTwo!NobodyLeftBehind,
         First!Lobby!NobodyLeftBehind, LobbyTwo!Cardinality, First!Lobby!Cardinality

LEMMA LobbyLossySame ==
    /\ LobbyLossy!Init => Second!Lobby!Init
    /\ LobbyLossy!Next \/ UNCHANGED LobbyLossy!vars => Second!Lobby!Next \/ UNCHANGED Second!Lobby!vars
    /\ (Second!Lobby!TeamAgrees => LobbyLossy!TeamAgrees) /\ (Second!Lobby!NobodyLeftBehind => LobbyLossy!NobodyLeftBehind)
  BY Zenon DEF LobbyLossy!Teams, Second!Lobby!Teams, LobbyLossy!None, Second!Lobby!None,
         LobbyLossy!NoGame, Second!Lobby!NoGame, LobbyLossy!Games, Second!Lobby!Games,
         LobbyLossy!app, Second!Lobby!app, LobbyLossy!mqtt, Second!Lobby!mqtt, LobbyLossy!server,
         Second!Lobby!server, LobbyLossy!history, Second!Lobby!history, LobbyLossy!vars,
         Second!Lobby!vars, LobbyLossy!Init, Second!Lobby!Init, LobbyLossy!Call, Second!Lobby!Call,
         LobbyLossy!Get, Second!Lobby!Get, LobbyLossy!Waiting, Second!Lobby!Waiting,
         LobbyLossy!Creating, Second!Lobby!Creating, LobbyLossy!OpenLobby, Second!Lobby!OpenLobby,
         LobbyLossy!TapJoinGame, Second!Lobby!TapJoinGame, LobbyLossy!TapCreate,
         Second!Lobby!TapCreate, LobbyLossy!Poll, Second!Lobby!Poll, LobbyLossy!TapTeam,
         Second!Lobby!TapTeam, LobbyLossy!Back, Second!Lobby!Back, LobbyLossy!Serve,
         Second!Lobby!Serve, LobbyLossy!Fail, Second!Lobby!Fail, LobbyLossy!ServerRestart,
         Second!Lobby!ServerRestart, LobbyLossy!Returned, Second!Lobby!Returned,
         LobbyLossy!Creator, Second!Lobby!Creator, LobbyLossy!CreateSuccess,
         Second!Lobby!CreateSuccess, LobbyLossy!GetSuccess, Second!Lobby!GetSuccess,
         LobbyLossy!TakeTeam, Second!Lobby!TakeTeam, LobbyLossy!JoinSuccess,
         Second!Lobby!JoinSuccess, LobbyLossy!Connect, Second!Lobby!Connect, LobbyLossy!Cut,
         Second!Lobby!Cut, LobbyLossy!Reachable, Second!Lobby!Reachable, LobbyLossy!TapStart,
         Second!Lobby!TapStart, LobbyLossy!MayPlay, Second!Lobby!MayPlay, LobbyLossy!StartArrives,
         Second!Lobby!StartArrives, LobbyLossy!Answered, Second!Lobby!Answered, LobbyLossy!Tap,
         Second!Lobby!Tap, LobbyLossy!Next, Second!Lobby!Next, LobbyLossy!TeamAgrees,
         Second!Lobby!TeamAgrees, LobbyLossy!NobodyLeftBehind, Second!Lobby!NobodyLeftBehind,
         LobbyLossy!Cardinality, Second!Lobby!Cardinality

LEMMA MapGameSame ==
    /\ MapGame!Init => First!Map!Init
    /\ MapGame!Next \/ UNCHANGED MapGame!vars => First!Map!Next \/ UNCHANGED First!Map!vars
    /\ (First!Map!SpyingExact => MapGame!SpyingExact) /\ (First!Map!TypeOK => MapGame!TypeOK)
    /\ (First!Map!ShownAsAnswered => MapGame!ShownAsAnswered)
  BY Zenon DEF MapGame!Topics, First!Map!Topics, MapGame!Orders, First!Map!Orders, MapGame!screen,
         First!Map!screen, MapGame!buttons, First!Map!buttons, MapGame!net,
         First!Map!net, MapGame!vars, First!Map!vars, MapGame!Nobody, First!Map!Nobody,
         MapGame!TeamTopics, First!Map!TeamTopics, MapGame!SubscribeTeam,
         First!Map!SubscribeTeam, MapGame!Init, First!Map!Init, MapGame!Send,
         First!Map!Send, MapGame!Answer, First!Map!Answer, MapGame!AnswerNone,
         First!Map!AnswerNone, MapGame!Without, First!Map!Without, MapGame!LeaveArrives,
         First!Map!LeaveArrives, MapGame!SurfaceChanged, First!Map!SurfaceChanged,
         MapGame!ActivateChat, First!Map!ActivateChat, MapGame!AfterTap,
         First!Map!AfterTap, MapGame!Spy, First!Map!Spy, MapGame!EndOfRound,
         First!Map!EndOfRound, MapGame!SpyingTimeOver, First!Map!SpyingTimeOver,
         MapGame!Recharged, First!Map!Recharged, MapGame!Again, First!Map!Again,
         MapGame!ConnectComplete, First!Map!ConnectComplete, MapGame!Connect,
         First!Map!Connect, MapGame!Lose, First!Map!Lose, MapGame!Cut, First!Map!Cut,
         MapGame!BrokerRestart, First!Map!BrokerRestart, MapGame!BrokerTakes,
         First!Map!BrokerTakes, MapGame!PlayerLeaves, First!Map!PlayerLeaves,
         MapGame!Recreate, First!Map!Recreate, MapGame!Timers, First!Map!Timers,
         MapGame!Next, First!Map!Next, MapGame!Settled, First!Map!Settled,
         MapGame!Spying, First!Map!Spying, MapGame!TypeOK, First!Map!TypeOK,
         MapGame!SpyingExact, First!Map!SpyingExact, MapGame!ShownAsAnswered,
         First!Map!ShownAsAnswered

LEMMA MapFaultsSame ==
    /\ MapFaults!Init => Second!Map!Init
    /\ MapFaults!Next \/ UNCHANGED MapFaults!vars => Second!Map!Next \/ UNCHANGED Second!Map!vars
    /\ (Second!Map!SpyingEnds => MapFaults!SpyingEnds) /\ (Second!Map!RoundsShown => MapFaults!RoundsShown)
    /\ (Second!Map!TypeOK => MapFaults!TypeOK) /\ (Second!Map!TeamHeard => MapFaults!TeamHeard)
    /\ (Second!Map!ShownAsAnswered => MapFaults!ShownAsAnswered)
  BY Zenon DEF MapFaults!Topics, Second!Map!Topics, MapFaults!Orders, Second!Map!Orders,
         MapFaults!screen, Second!Map!screen, MapFaults!buttons, Second!Map!buttons,
         MapFaults!net, Second!Map!net, MapFaults!vars, Second!Map!vars,
         MapFaults!Nobody, Second!Map!Nobody, MapFaults!TeamTopics,
         Second!Map!TeamTopics, MapFaults!SubscribeTeam, Second!Map!SubscribeTeam,
         MapFaults!Init, Second!Map!Init, MapFaults!Send, Second!Map!Send,
         MapFaults!Answer, Second!Map!Answer, MapFaults!AnswerNone,
         Second!Map!AnswerNone, MapFaults!Without, Second!Map!Without,
         MapFaults!LeaveArrives, Second!Map!LeaveArrives, MapFaults!SurfaceChanged,
         Second!Map!SurfaceChanged, MapFaults!ActivateChat, Second!Map!ActivateChat,
         MapFaults!AfterTap, Second!Map!AfterTap, MapFaults!Spy, Second!Map!Spy,
         MapFaults!EndOfRound, Second!Map!EndOfRound, MapFaults!SpyingTimeOver,
         Second!Map!SpyingTimeOver, MapFaults!Recharged, Second!Map!Recharged,
         MapFaults!Again, Second!Map!Again, MapFaults!ConnectComplete,
         Second!Map!ConnectComplete, MapFaults!Connect, Second!Map!Connect,
         MapFaults!Lose, Second!Map!Lose, MapFaults!Cut, Second!Map!Cut,
         MapFaults!BrokerRestart, Second!Map!BrokerRestart, MapFaults!BrokerTakes,
         Second!Map!BrokerTakes, MapFaults!PlayerLeaves, Second!Map!PlayerLeaves,
         MapFaults!Recreate, Second!Map!Recreate, MapFaults!Timers, Second!Map!Timers,
         MapFaults!Next, Second!Map!Next, MapFaults!Settled, Second!Map!Settled,
         MapFaults!Spying, Second!Map!Spying, MapFaults!TypeOK, Second!Map!TypeOK,
         MapFaults!TeamHeard, Second!Map!TeamHeard, MapFaults!RoundsShown,
         Second!Map!RoundsShown, MapFaults!SpyingEnds, Second!Map!SpyingEnds,
         MapFaults!ShownAsAnswered, Second!Map!ShownAsAnswered, MapFaults!Cardinality,
         Second!Map!Cardinality

LEMMA MapOnlySame ==
    /\ MapOnly!Init => Third!Map!Init
    /\ MapOnly!Next \/ UNCHANGED MapOnly!vars => Third!Map!Next \/ UNCHANGED Third!Map!vars
    /\ (Third!Map!TeamHeard => MapOnly!TeamHeard)
  BY Zenon DEF MapOnly!screen, Third!Map!screen, MapOnly!buttons, Third!Map!buttons, MapOnly!net,
         Third!Map!net, MapOnly!vars, Third!Map!vars, MapOnly!Nobody, Third!Map!Nobody,
         MapOnly!TeamTopics, Third!Map!TeamTopics, MapOnly!SubscribeTeam,
         Third!Map!SubscribeTeam, MapOnly!Init, Third!Map!Init, MapOnly!Send,
         Third!Map!Send, MapOnly!Answer, Third!Map!Answer, MapOnly!AnswerNone,
         Third!Map!AnswerNone, MapOnly!Without, Third!Map!Without, MapOnly!LeaveArrives,
         Third!Map!LeaveArrives, MapOnly!SurfaceChanged, Third!Map!SurfaceChanged,
         MapOnly!ActivateChat, Third!Map!ActivateChat, MapOnly!AfterTap,
         Third!Map!AfterTap, MapOnly!Spy, Third!Map!Spy, MapOnly!EndOfRound,
         Third!Map!EndOfRound, MapOnly!SpyingTimeOver, Third!Map!SpyingTimeOver,
         MapOnly!Recharged, Third!Map!Recharged, MapOnly!Again, Third!Map!Again,
         MapOnly!ConnectComplete, Third!Map!ConnectComplete, MapOnly!Connect,
         Third!Map!Connect, MapOnly!Lose, Third!Map!Lose, MapOnly!Cut, Third!Map!Cut,
         MapOnly!BrokerRestart, Third!Map!BrokerRestart, MapOnly!BrokerTakes,
         Third!Map!BrokerTakes, MapOnly!PlayerLeaves, Third!Map!PlayerLeaves,
         MapOnly!Recreate, Third!Map!Recreate, MapOnly!Timers, Third!Map!Timers,
         MapOnly!Next, Third!Map!Next, MapOnly!Settled, Third!Map!Settled,
         MapOnly!TeamHeard, Third!Map!TeamHeard

LEMMA RenderOneSame ==
    /\ RenderMany!Init => First!Render!Init
    /\ RenderOne!Next \/ UNCHANGED RenderOne!vars => First!Render!Next \/ UNCHANGED First!Render!vars
    /\ (First!Render!OneLoop => RenderOne!OneLoop)
  BY Zenon DEF RenderMany!Init, RenderOne!vars, First!Render!vars, RenderOne!Loops, First!Render!Loops, RenderOne!Last,
         First!Render!Last, RenderOne!Drawn, First!Render!Drawn, RenderOne!NewLoop,
         First!Render!NewLoop, RenderOne!Init, First!Render!Init, RenderOne!SurfaceChanged,
         First!Render!SurfaceChanged, RenderOne!Change, First!Render!Change, RenderOne!AddAnchor,
         First!Render!AddAnchor, RenderOne!AddPlayer, First!Render!AddPlayer,
         RenderOne!RemovePlayer, First!Render!RemovePlayer, RenderOne!Stopped,
         First!Render!Stopped, RenderOne!SurfaceDestroyed, First!Render!SurfaceDestroyed,
         RenderOne!Joined, First!Render!Joined, RenderOne!Return, First!Render!Return,
         RenderOne!Fail, First!Render!Fail, RenderOne!Test, First!Render!Test, RenderOne!Lock,
         First!Render!Lock, RenderOne!HasNext, First!Render!HasNext, RenderOne!Draw,
         First!Render!Draw, RenderOne!Thread, First!Render!Thread, RenderOne!Main,
         First!Render!Main, RenderOne!Next, First!Render!Next, RenderOne!OneLoop,
         First!Render!OneLoop

LEMMA RenderManySame ==
    /\ RenderMany!Init => Second!Render!Init
    /\ RenderMany!Next \/ UNCHANGED RenderMany!vars => Second!Render!Next \/ UNCHANGED Second!Render!vars
    /\ (Second!Render!TypeOK => RenderMany!TypeOK) /\ (Second!Render!OnlyForgottenFail => RenderMany!OnlyForgottenFail)
  BY Zenon DEF RenderMany!vars, Second!Render!vars, RenderMany!Loops, Second!Render!Loops,
         RenderMany!Last, Second!Render!Last, RenderMany!Drawn, Second!Render!Drawn,
         RenderMany!NewLoop, Second!Render!NewLoop, RenderMany!Init, Second!Render!Init,
         RenderMany!SurfaceChanged, Second!Render!SurfaceChanged, RenderMany!Change,
         Second!Render!Change, RenderMany!AddAnchor, Second!Render!AddAnchor, RenderMany!AddPlayer,
         Second!Render!AddPlayer, RenderMany!RemovePlayer, Second!Render!RemovePlayer,
         RenderMany!Stopped, Second!Render!Stopped, RenderMany!SurfaceDestroyed,
         Second!Render!SurfaceDestroyed, RenderMany!Joined, Second!Render!Joined,
         RenderMany!Return, Second!Render!Return, RenderMany!Fail, Second!Render!Fail,
         RenderMany!Test, Second!Render!Test, RenderMany!Lock, Second!Render!Lock,
         RenderMany!HasNext, Second!Render!HasNext, RenderMany!Draw, Second!Render!Draw,
         RenderMany!Thread, Second!Render!Thread, RenderMany!Main, Second!Render!Main,
         RenderMany!Next, Second!Render!Next, RenderMany!TypeOK, Second!Render!TypeOK,
         RenderMany!OnlyForgottenFail, Second!Render!OnlyForgottenFail

LEMMA ChatSame ==
    /\ Chat!Init => First!Chat!Init
    /\ Chat!Next \/ UNCHANGED Chat!vars => First!Chat!Next \/ UNCHANGED First!Chat!vars
    /\ (First!Chat!TypeOK => Chat!TypeOK) /\ (First!Chat!LimitsAreCurrent => Chat!LimitsAreCurrent)
    /\ (First!Chat!MicrophoneShown => Chat!MicrophoneShown)
    /\ (First!Chat!StoppedTwiceOnlyIfLate => Chat!StoppedTwiceOnlyIfLate)
  BY Zenon DEF Chat!vars, First!Chat!vars, Chat!Recorders, First!Chat!Recorders, Chat!Current,
         First!Chat!Current, Chat!TapTask, First!Chat!TapTask, Chat!QueuedLimits,
         First!Chat!QueuedLimits, Chat!Stages, First!Chat!Stages, Chat!Stage,
         First!Chat!Stage, Chat!Init, First!Chat!Init, Chat!Tap, First!Chat!Tap,
         Chat!TimeOver, First!Chat!TimeOver, Chat!PostLimit, First!Chat!PostLimit,
         Chat!Armed, First!Chat!Armed, Chat!Start, First!Chat!Start, Chat!Cancelled,
         First!Chat!Cancelled, Chat!Stopped, First!Chat!Stopped, Chat!UpdatesRemoved,
         First!Chat!UpdatesRemoved, Chat!Stop, First!Chat!Stop, Chat!Task,
         First!Chat!Task, Chat!Update, First!Chat!Update, Chat!Thread,
         First!Chat!Thread, Chat!Next, First!Chat!Next, Chat!TypeOK, First!Chat!TypeOK,
         Chat!LimitsAreCurrent, First!Chat!LimitsAreCurrent, Chat!MicrophoneShown,
         First!Chat!MicrophoneShown, Chat!StoppedTwiceOnlyIfLate,
         First!Chat!StoppedTwiceOnlyIfLate,
         Chat!ToSet, First!Chat!ToSet

LEMMA ScanPromptSame ==
    /\ ScanQueued!Init => First!Scan!Init
    /\ ScanPrompt!Next \/ UNCHANGED ScanPrompt!vars => First!Scan!Next \/ UNCHANGED First!Scan!vars
    /\ (First!Scan!TappedIsConnected => ScanPrompt!TappedIsConnected)
  BY Zenon DEF ScanPrompt!Tags, First!Scan!Tags, ScanPrompt!None, First!Scan!None, ScanPrompt!Check,
         First!Scan!Check, ScanPrompt!vars, First!Scan!vars, ScanPrompt!Init, First!Scan!Init,
         ScanPrompt!Post, First!Scan!Post, ScanPrompt!Result, First!Scan!Result, ScanPrompt!Period,
         First!Scan!Period, ScanPrompt!Elements, First!Scan!Elements, ScanPrompt!ScanStopped,
         First!Scan!ScanStopped, ScanPrompt!IsNotEmpty, First!Scan!IsNotEmpty, ScanPrompt!Task,
         First!Scan!Task, ScanPrompt!TapTag, First!Scan!TapTag, ScanPrompt!Detach,
         First!Scan!Detach, ScanPrompt!Next, First!Scan!Next, ScanPrompt!TypeOK, First!Scan!TypeOK,
         ScanPrompt!TappedIsConnected, First!Scan!TappedIsConnected, ScanPrompt!ToSet,
         First!Scan!ToSet, ScanPrompt!Cardinality, First!Scan!Cardinality, ScanQueued!Init,
         ScanQueued!None

LEMMA ScanQueuedSame ==
    /\ ScanQueued!Init => Second!Scan!Init
    /\ ScanQueued!Next \/ UNCHANGED ScanQueued!vars => Second!Scan!Next \/ UNCHANGED Second!Scan!vars
    /\ (Second!Scan!TypeOK => ScanQueued!TypeOK)
  BY Zenon DEF ScanQueued!Tags, Second!Scan!Tags, ScanQueued!None, Second!Scan!None,
         ScanQueued!Check, Second!Scan!Check, ScanQueued!vars, Second!Scan!vars, ScanQueued!Init,
         Second!Scan!Init, ScanQueued!Post, Second!Scan!Post, ScanQueued!Result, Second!Scan!Result,
         ScanQueued!Period, Second!Scan!Period, ScanQueued!Elements, Second!Scan!Elements,
         ScanQueued!ScanStopped, Second!Scan!ScanStopped, ScanQueued!IsNotEmpty,
         Second!Scan!IsNotEmpty, ScanQueued!Task, Second!Scan!Task, ScanQueued!TapTag,
         Second!Scan!TapTag, ScanQueued!Detach, Second!Scan!Detach, ScanQueued!Next,
         Second!Scan!Next, ScanQueued!TypeOK, Second!Scan!TypeOK, ScanQueued!TappedIsConnected,
         Second!Scan!TappedIsConnected, ScanQueued!ToSet, Second!Scan!ToSet, ScanQueued!Cardinality,
         Second!Scan!Cardinality

LEMMA LinkSame ==
    /\ Link!Init => First!Link!Init
    /\ Link!Next \/ UNCHANGED Link!vars => First!Link!Next \/ UNCHANGED First!Link!vars
    /\ (First!Link!TypeOK => Link!TypeOK)
    /\ (First!Link!CutToAnchors => Link!CutToAnchors)
  BY Zenon DEF Link!vars, First!Link!vars, Link!NoData, First!Link!NoData, Link!Init,
         First!Link!Init, Link!Connect, First!Link!Connect, Link!Starts, First!Link!Starts,
         Link!OnReady, First!Link!OnReady, Link!Ready, First!Link!Ready, Link!ReadInfo,
         First!Link!ReadInfo, Link!Cached, First!Link!Cached, Link!WriteMode, First!Link!WriteMode,
         Link!Drop, First!Link!Drop, Link!Notify, First!Link!Notify, Link!Pairs, First!Link!Pairs,
         Link!Parse, First!Link!Parse, Link!Receive, First!Link!Receive, Link!Queued,
         First!Link!Queued, Link!OpenMap, First!Link!OpenMap, Link!CloseMap, First!Link!CloseMap,
         Link!Library, First!Link!Library, Link!Next, First!Link!Next, Link!TypeOK,
         First!Link!TypeOK, Link!CutToAnchors, First!Link!CutToAnchors

LEMMA LinkFailsSame ==
    /\ LinkFails!Init => Second!Link!Init
    /\ LinkFails!Next \/ UNCHANGED LinkFails!vars => Second!Link!Next \/ UNCHANGED Second!Link!vars
    /\ (Second!Link!CutToAnchors => LinkFails!CutToAnchors)
  BY Zenon DEF LinkFails!vars, Second!Link!vars, LinkFails!NoData, Second!Link!NoData,
         LinkFails!Init, Second!Link!Init, LinkFails!Connect, Second!Link!Connect, LinkFails!Starts,
         Second!Link!Starts, LinkFails!OnReady, Second!Link!OnReady, LinkFails!Ready,
         Second!Link!Ready, LinkFails!ReadInfo, Second!Link!ReadInfo, LinkFails!Cached,
         Second!Link!Cached, LinkFails!WriteMode, Second!Link!WriteMode, LinkFails!Drop,
         Second!Link!Drop, LinkFails!Notify, Second!Link!Notify, LinkFails!Pairs, Second!Link!Pairs,
         LinkFails!Parse, Second!Link!Parse, LinkFails!Receive, Second!Link!Receive,
         LinkFails!Queued, Second!Link!Queued, LinkFails!OpenMap, Second!Link!OpenMap,
         LinkFails!CloseMap, Second!Link!CloseMap, LinkFails!Library, Second!Link!Library,
         LinkFails!Next, Second!Link!Next, LinkFails!TypeOK, Second!Link!TypeOK,
         LinkFails!CutToAnchors, Second!Link!CutToAnchors

LEMMA CalcSame ==
    /\ Calc!Init => First!Calc!Init
    /\ Calc!Next \/ UNCHANGED Calc!vars => First!Calc!Next \/ UNCHANGED First!Calc!vars
    /\ (First!Calc!TypeOK => Calc!TypeOK) /\ (First!Calc!NewestUsed => Calc!NewestUsed)
    /\ (First!Calc!MiddleDropped => Calc!MiddleDropped)
    /\ (First!Calc!WindowForgets => Calc!WindowForgets)
  BY Zenon DEF Calc!Pairs, First!Calc!Pairs, Calc!vars, First!Calc!vars, Calc!Places,
         First!Calc!Places, Calc!Steps, First!Calc!Steps, Calc!Position,
         First!Calc!Position, Calc!Start, First!Calc!Start, Calc!NoData,
         First!Calc!NoData, Calc!Init, First!Calc!Init, Calc!Calculate,
         First!Calc!Calculate, Calc!Cut, First!Calc!Cut, Calc!Rows, First!Calc!Rows,
         Calc!TaskData, First!Calc!TaskData, Calc!Enough, First!Calc!Enough, Calc!Begin,
         First!Calc!Begin, Calc!Moved, First!Calc!Moved, Calc!GoesOn, First!Calc!GoesOn,
         Calc!Iterate, First!Calc!Iterate, Calc!Singular, First!Calc!Singular,
         Calc!Shortened, First!Calc!Shortened, Calc!Finish, First!Calc!Finish,
         Calc!Task, First!Calc!Task, Calc!Next, First!Calc!Next, Calc!TypeOK,
         First!Calc!TypeOK, Calc!NewestUsed, First!Calc!NewestUsed, Calc!MiddleDropped,
         First!Calc!MiddleDropped, Calc!WindowForgets, First!Calc!WindowForgets,
         Calc!Cardinality, First!Calc!Cardinality

-----------------------------------------------------------------------------
(* The bounds of the instances are numbers. *)
LEMMA InstancesBounded ==
    /\ First!Chat!BoundsAssumption
    /\ First!Render!BoundsAssumption /\ Second!Render!BoundsAssumption
    /\ First!Map!BoundsAssumption /\ Second!Map!BoundsAssumption /\ Third!Map!BoundsAssumption
    /\ First!Resubscribing /\ Second!Resubscribing /\ Third!Resubscribing
    /\ First!Lasting
    /\ First!Lobby!CreatorsAssumption /\ Second!Lobby!CreatorsAssumption
    /\ First!Calc!SizesAssumption
  BY DEF First!Chat!BoundsAssumption, First!Render!BoundsAssumption, Second!Render!BoundsAssumption,
         First!Map!BoundsAssumption, Second!Map!BoundsAssumption, Third!Map!BoundsAssumption,
         First!Resubscribing, Second!Resubscribing, Third!Resubscribing, First!Lasting,
         First!Lobby!CreatorsAssumption, Second!Lobby!CreatorsAssumption, First!Calc!SizesAssumption

(* A message has two ids and 17 stamps. *)
LEMMA MessageFields ==
    Message \in Seq({"group_id", "src_id", "stamps"}) /\ Len(Message) = 19
<1> DEFINE Fields == {"group_id", "src_id", "stamps"}
<1>1. <<"group_id", "src_id">> \in Seq(Fields) /\ Len(<<"group_id", "src_id">>) = 2
  OBVIOUS
<1>2. [i \in 1..17 |-> "stamps"] \in Seq(Fields)
  <2>1. [i \in 1..17 |-> "stamps"] \in [1..17 -> Fields]
    OBVIOUS
  <2> QED
    BY <2>1, SeqDef
<1>3. Len([i \in 1..17 |-> "stamps"]) = 17
  OBVIOUS
<1>4. ASSUME NEW F, NEW ids \in Seq(F), NEW stamps \in Seq(F)
      PROVE  ids \o stamps \in Seq(F) /\ Len(ids \o stamps) = Len(ids) + Len(stamps)
  BY ConcatProperties
<1> QED
  BY <1>1, <1>2, <1>3, <1>4 DEF Message

(* The tags of both lists are different, and 17 stamps are enough for 6 pairs. *)
LEMMA TagsAssumed ==
    /\ First!Scan!OrderAssumption /\ Second!Scan!OrderAssumption
    /\ First!Link!BoundsAssumption /\ First!Link!MessageAssumption /\ First!MessageLong
    /\ Second!Link!BoundsAssumption /\ Second!Link!MessageAssumption /\ Second!MessageLong
<1>1. First!Scan!OrderAssumption
  <2>1. First!Scan!Tags = {"one", "other", "third"}
    BY DEF First!Scan!Tags, First!Scan!ToSet
  <2>2. <<"one", "other", "third">> \in Seq({"one", "other", "third"})
    OBVIOUS
  <2>3. \A a, b \in DOMAIN <<"one", "other", "third">> :
          <<"one", "other", "third">>[a] = <<"one", "other", "third">>[b] => a = b
    OBVIOUS
  <2>4. 1 \in Nat
    OBVIOUS
  <2> QED
    BY <2>1, <2>2, <2>3, <2>4, Zenon DEF First!Scan!OrderAssumption, First!Scan!IsInjective
<1>2. Second!Scan!OrderAssumption
  <2>1. Second!Scan!Tags = {"one", "other"}
    BY DEF Second!Scan!Tags, Second!Scan!ToSet
  <2>2. <<"one", "other">> \in Seq({"one", "other"})
    OBVIOUS
  <2>3. \A a, b \in DOMAIN <<"one", "other">> : <<"one", "other">>[a] = <<"one", "other">>[b] => a = b
    OBVIOUS
  <2>4. 3 \in Nat
    OBVIOUS
  <2> QED
    BY <2>1, <2>2, <2>3, <2>4, Zenon DEF Second!Scan!OrderAssumption, Second!Scan!IsInjective
<1>3. First!Link!BoundsAssumption /\ Second!Link!BoundsAssumption
  BY DEF First!Link!BoundsAssumption, Second!Link!BoundsAssumption
<1>4. First!Link!MessageAssumption /\ Second!Link!MessageAssumption
  BY MessageFields DEF First!Link!MessageAssumption, Second!Link!MessageAssumption
<1>5. First!MessageLong /\ Second!MessageLong
  BY MessageFields DEF First!MessageLong, Second!MessageLong, First!Link!Pairs, Second!Link!Pairs
<1> QED
  BY <1>1, <1>2, <1>3, <1>4, <1>5

(* A step is one of the part that runs, and every other part keeps its state. *)
LEMMA PartsStep ==
    ASSUME [PhoneNext]_phoneVars
    PROVE  /\ part' = part
           /\ part = "lobbyOfTwo" => LobbyTwo!Next \/ UNCHANGED LobbyTwo!vars
           /\ part = "lossyLobby" => LobbyLossy!Next \/ UNCHANGED LobbyLossy!vars
           /\ part = "map" => MapGame!Next \/ UNCHANGED MapGame!vars
           /\ part = "faultyMap" => MapFaults!Next \/ UNCHANGED MapFaults!vars
           /\ part = "mapOnly" => MapOnly!Next \/ UNCHANGED MapOnly!vars
           /\ part = "oneSurface" => RenderOne!Next \/ UNCHANGED RenderOne!vars
           /\ part = "surfaces" => RenderMany!Next \/ UNCHANGED RenderMany!vars
           /\ part = "promptScan" => ScanPrompt!Next \/ UNCHANGED ScanPrompt!vars
           /\ part = "queuedScan" => ScanQueued!Next \/ UNCHANGED ScanQueued!vars
           /\ part = "link" => Link!Next \/ UNCHANGED Link!vars
           /\ part = "failingLink" => LinkFails!Next \/ UNCHANGED LinkFails!vars
           /\ Calc!Next \/ UNCHANGED Calc!vars
           /\ Chat!Next \/ UNCHANGED Chat!vars
<1>1. CASE UNCHANGED phoneVars
  BY <1>1 DEF phoneVars, lobby, screen, render, chat, scan, link, calc, Calc!vars,
              ScanPrompt!vars, ScanQueued!vars, Link!vars, LinkFails!vars,
              LobbyTwo!vars, LobbyTwo!app, LobbyTwo!mqtt, LobbyTwo!server, LobbyTwo!history,
              LobbyLossy!vars, LobbyLossy!app, LobbyLossy!mqtt, LobbyLossy!server, LobbyLossy!history,
              MapGame!vars, MapGame!screen, MapGame!buttons, MapGame!net,
              MapFaults!vars, MapFaults!screen, MapFaults!buttons, MapFaults!net,
              MapOnly!vars, MapOnly!screen, MapOnly!buttons, MapOnly!net,
              RenderOne!vars, RenderMany!vars, Chat!vars
<1>2. CASE PhoneNext
  BY <1>2 DEF PhoneNext, chat, Chat!vars, calc, Calc!vars
<1> QED
  BY <1>1, <1>2

-----------------------------------------------------------------------------
(* A property of one part holds while that part runs, because its invariant does. *)

(* The microphone is used by the recording that the button shows and by nobody else, *)
(* and no timer is set for one that is over; a limit of one is under way, to end the *)
(* next recording or to stop a released recorder, only if a tap stopped it after its *)
(* timer's thread had taken the task.                                                *)
THEOREM RecordingStaysInStep == PhoneSpec => []RecordingKept
<1>1. PhoneInit => First!ChatInv
  BY ChatSame, InstancesBounded, First!ChatInitial, Zenon DEF PhoneInit
<1>2. First!ChatInv /\ [PhoneNext]_phoneVars => First!ChatInv'
  <2> SUFFICES ASSUME First!ChatInv, [PhoneNext]_phoneVars PROVE First!ChatInv'
    OBVIOUS
  <2>1. First!ChatStep
    BY PartsStep, ChatSame, Zenon DEF First!ChatStep
  <2> QED
    BY <2>1, InstancesBounded, First!ChatInductive, Zenon
<1>3. First!ChatInv => RecordingKept
  BY First!ChatMeans, ChatSame, Zenon DEF RecordingKept
<1> QED
  BY <1>1, <1>2, <1>3, PTL DEF PhoneSpec

DrawingInv == /\ part = "oneSurface" => First!RenderInv
              /\ part = "surfaces" => Second!RenderInv

(* Surfaces that change once are drawn by one thread, which does not survive them; *)
(* only a thread that a second change has left behind draws on one that is gone.   *)
THEOREM DrawingStaysInStep == PhoneSpec => []DrawingKept
<1>1. PhoneInit => DrawingInv
  <2>1. PhoneInit => First!Render!Init /\ Second!Render!Init
    BY RenderOneSame, RenderManySame, Zenon DEF PhoneInit
  <2> QED
    BY <2>1, InstancesBounded, First!RenderInitial, Second!RenderInitial, Zenon DEF DrawingInv
<1>2. DrawingInv /\ [PhoneNext]_phoneVars => DrawingInv'
  <2> SUFFICES ASSUME DrawingInv, [PhoneNext]_phoneVars PROVE DrawingInv'
    OBVIOUS
  <2>1. CASE part = "oneSurface"
    <3>1. part' = part /\ First!RenderInv /\ First!RenderStep
      BY <2>1, PartsStep, RenderOneSame, Zenon DEF DrawingInv, First!RenderStep
    <3>2. First!RenderInv'
      BY <3>1, InstancesBounded, First!RenderInductive, Zenon
    <3> QED
      BY <2>1, <3>1, <3>2 DEF DrawingInv
  <2>2. CASE part = "surfaces"
    <3>1. part' = part /\ Second!RenderInv /\ Second!RenderStep
      BY <2>2, PartsStep, RenderManySame, Zenon DEF DrawingInv, Second!RenderStep
    <3>2. Second!RenderInv'
      BY <3>1, InstancesBounded, Second!RenderInductive, Zenon
    <3> QED
      BY <2>2, <3>1, <3>2 DEF DrawingInv
  <2> QED
    BY <2>1, <2>2, PartsStep, Zenon DEF DrawingInv
<1>3. DrawingInv => DrawingKept
  <2>1. First!RenderInv => First!Render!OneLoop
    BY First!RenderMeans, Zenon
  <2>2. Second!RenderInv => Second!Render!TypeOK /\ Second!Render!OnlyForgottenFail
    BY Second!RenderMeans, Zenon
  <2> QED
    BY <2>1, <2>2, RenderOneSame, RenderManySame, Zenon DEF DrawingInv, DrawingKept
<1> QED
  BY <1>1, <1>2, <1>3, PTL DEF PhoneSpec

LobbiesInv == /\ part = "lobbyOfTwo" => First!LobbyInv
              /\ part = "lossyLobby" => Second!LobbyInv

(* A phone plays in the team in which the server has it, unless a join was lost or   *)
(* overtaken by START, which takes every phone to the map that had a team and a      *)
(* subscription.                                                                     *)
THEOREM LobbyStaysInStep == PhoneSpec => []LobbyKept
<1>1. PhoneInit => LobbiesInv
  <2>1. PhoneInit => /\ part = "lobbyOfTwo" => First!Lobby!Init
                     /\ part = "lossyLobby" => Second!Lobby!Init
    BY LobbyTwoSame, LobbyLossySame, Zenon DEF PhoneInit
  <2> QED
    BY <2>1, InstancesBounded, First!LobbyInitial, Second!LobbyInitial, Zenon DEF LobbiesInv
<1>2. LobbiesInv /\ [PhoneNext]_phoneVars => LobbiesInv'
  <2> SUFFICES ASSUME LobbiesInv, [PhoneNext]_phoneVars PROVE LobbiesInv'
    OBVIOUS
  <2>1. CASE part = "lobbyOfTwo"
    <3>1. part' = part /\ First!LobbyInv /\ First!LobbyStep
      BY <2>1, PartsStep, LobbyTwoSame, Zenon DEF LobbiesInv, First!LobbyStep
    <3>2. First!LobbyInv'
      BY <3>1, InstancesBounded, First!LobbyInductive, Zenon
    <3> QED
      BY <2>1, <3>1, <3>2 DEF LobbiesInv
  <2>2. CASE part = "lossyLobby"
    <3>1. part' = part /\ Second!LobbyInv /\ Second!LobbyStep
      BY <2>2, PartsStep, LobbyLossySame, Zenon DEF LobbiesInv, Second!LobbyStep
    <3>2. Second!LobbyInv'
      BY <3>1, InstancesBounded, Second!LobbyInductive, Zenon
    <3> QED
      BY <2>2, <3>1, <3>2 DEF LobbiesInv
  <2> QED
    BY <2>1, <2>2, PartsStep, Zenon DEF LobbiesInv
<1>3. LobbiesInv => LobbyKept
  <2>1. First!LobbyInv => First!Lobby!TypeOK /\ First!Lobby!TeamAgrees /\ First!Lobby!NobodyLeftBehind
    BY First!LobbyMeans, Zenon
  <2>2. Second!LobbyInv => Second!Lobby!TeamAgrees /\ Second!Lobby!NobodyLeftBehind
    BY Second!LobbyMeans, Zenon
  <2> QED
    BY <2>1, <2>2, LobbyTwoSame, LobbyLossySame, Zenon DEF LobbiesInv, LobbyKept
<1> QED
  BY <1>1, <1>2, <1>3, PTL DEF PhoneSpec

MapsInv == /\ part = "map" => First!MapInv
           /\ part = "faultyMap" => Second!MapInv
           /\ part = "mapOnly" => Third!MapInv

(* The state of the map that runs, from which both of its properties follow. *)
LEMMA MapsKept ==
    /\ PhoneInit => MapsInv
    /\ MapsInv /\ [PhoneNext]_phoneVars => MapsInv'
<1>1. PhoneInit => MapsInv
  <2>1. PhoneInit => /\ part = "map" => First!Map!Init
                     /\ part = "faultyMap" => Second!Map!Init
                     /\ part = "mapOnly" => Third!Map!Init
    BY MapGameSame, MapFaultsSame, MapOnlySame, Zenon DEF PhoneInit
  <2> QED
    BY <2>1, InstancesBounded, First!MapInitial, Second!MapInitial, Third!MapInitial, Zenon DEF MapsInv
<1>2. MapsInv /\ [PhoneNext]_phoneVars => MapsInv'
  <2> SUFFICES ASSUME MapsInv, [PhoneNext]_phoneVars PROVE MapsInv'
    OBVIOUS
  <2>1. CASE part = "map"
    <3>1. part' = part /\ First!MapInv /\ First!MapStep
      BY <2>1, PartsStep, MapGameSame, Zenon DEF MapsInv, First!MapStep
    <3>2. First!MapInv'
      BY <3>1, InstancesBounded, First!MapInductive, Zenon
    <3> QED
      BY <2>1, <3>1, <3>2 DEF MapsInv
  <2>2. CASE part = "faultyMap"
    <3>1. part' = part /\ Second!MapInv /\ Second!MapStep
      BY <2>2, PartsStep, MapFaultsSame, Zenon DEF MapsInv, Second!MapStep
    <3>2. Second!MapInv'
      BY <3>1, InstancesBounded, Second!MapInductive, Zenon
    <3> QED
      BY <2>2, <3>1, <3>2 DEF MapsInv
  <2>3. CASE part = "mapOnly"
    <3>1. part' = part /\ Third!MapInv /\ Third!MapStep
      BY <2>3, PartsStep, MapOnlySame, Zenon DEF MapsInv, Third!MapStep
    <3>2. Third!MapInv'
      BY <3>1, InstancesBounded, Third!MapInductive, Zenon
    <3> QED
      BY <2>3, <3>1, <3>2 DEF MapsInv
  <2> QED
    BY <2>1, <2>2, <2>3, PartsStep, Zenon DEF MapsInv
<1> QED
  BY <1>1, <1>2

LEMMA MapsMean ==
    ASSUME MapsInv
    PROVE  /\ part = "map" => MapGame!TypeOK /\ MapGame!SpyingExact /\ MapGame!ShownAsAnswered
           /\ part = "faultyMap" => /\ MapFaults!TypeOK /\ MapFaults!TeamHeard
                                     /\ MapFaults!SpyingEnds /\ MapFaults!RoundsShown
                                     /\ MapFaults!ShownAsAnswered
           /\ part = "mapOnly" => MapOnly!TeamHeard
<1>1. part = "map" => First!Map!TypeOK /\ First!Map!SpyingExact /\ First!Map!ShownAsAnswered
  BY First!MapMeans, InstancesBounded, Zenon DEF MapsInv
<1>2. part = "faultyMap" => /\ Second!Map!TypeOK /\ Second!Map!TeamHeard
                             /\ Second!Map!SpyingEnds /\ Second!Map!RoundsShown
                             /\ Second!Map!ShownAsAnswered
  BY Second!MapMeans, InstancesBounded, Zenon DEF MapsInv
<1>3. part = "mapOnly" => Third!Map!TeamHeard
  BY Third!MapMeans, InstancesBounded, Zenon DEF MapsInv
<1> QED
  BY <1>1, <1>2, <1>3, MapGameSame, MapFaultsSame, MapOnlySame, Zenon

(* The other team's positions come while a round lasts and at no other time; with    *)
(* faults beyond it only if its end was lost; the button shows the round.            *)
THEOREM SpyingStaysInStep == PhoneSpec => []SpyingKept
<1>1. MapsInv => SpyingKept
  BY MapsMean DEF SpyingKept
<1> QED
  BY <1>1, MapsKept, PTL DEF PhoneSpec

(* A connected phone gets its team's positions, and the chat it has not muted; the   *)
(* map shows every player who has not left since the last answer, at most once for   *)
(* each answer that found its loop: the one to the lobby's last poll is a second.    *)
THEOREM TeamStaysShown == PhoneSpec => []TeamShown
<1>1. MapsInv => TeamShown
  BY MapsMean DEF TeamShown
<1> QED
  BY <1>1, MapsKept, PTL DEF PhoneSpec

TagInv == /\ part = "promptScan" => First!ScanInv
          /\ part = "queuedScan" => Second!ScanInv
          /\ part = "link" => First!LinkInv
          /\ part = "failingLink" => Second!LinkInv

LEMMA TagsKept == TagInv /\ [PhoneNext]_phoneVars => TagInv'
<1> SUFFICES ASSUME TagInv, [PhoneNext]_phoneVars PROVE TagInv'
  OBVIOUS
<1>1. CASE part = "promptScan"
  <2>1. part' = part /\ First!ScanInv /\ First!ScanStep
    BY <1>1, PartsStep, ScanPromptSame, Zenon DEF TagInv, First!ScanStep
  <2>2. First!ScanInv'
    BY <2>1, TagsAssumed, First!ScanInductive, Zenon
  <2> QED
    BY <1>1, <2>1, <2>2 DEF TagInv
<1>2. CASE part = "queuedScan"
  <2>1. part' = part /\ Second!ScanInv /\ Second!ScanStep
    BY <1>2, PartsStep, ScanQueuedSame, Zenon DEF TagInv, Second!ScanStep
  <2>2. Second!ScanInv'
    BY <2>1, TagsAssumed, Second!ScanInductive, Zenon
  <2> QED
    BY <1>2, <2>1, <2>2 DEF TagInv
<1>3. CASE part = "link"
  <2>1. part' = part /\ First!LinkInv /\ First!LinkStep
    BY <1>3, PartsStep, LinkSame, Zenon DEF TagInv, First!LinkStep
  <2>2. First!LinkInv'
    BY <2>1, TagsAssumed, First!LinkInductive, Zenon
  <2> QED
    BY <1>3, <2>1, <2>2 DEF TagInv
<1>4. CASE part = "failingLink"
  <2>1. part' = part /\ Second!LinkInv /\ Second!LinkStep
    BY <1>4, PartsStep, LinkFailsSame, Zenon DEF TagInv, Second!LinkStep
  <2>2. Second!LinkInv'
    BY <2>1, TagsAssumed, Second!LinkInductive, Zenon
  <2> QED
    BY <1>4, <2>1, <2>2 DEF TagInv
<1> QED
  BY <1>1, <1>2, <1>3, <1>4, PartsStep, Zenon DEF TagInv

(* The tag that is connected is the one whose name was tapped, where the main thread *)
(* keeps up; otherwise what is listed was found.  No notification is too short, and  *)
(* the fields of as many pairs as the tag's own four anchors have, and one more, are *)
(* handed on unless a read was lost; the map needs those of its eight.               *)
THEOREM TagStaysUnderstood == PhoneSpec => []TagUnderstood
<1>1. PhoneInit => TagInv
  <2>1. PhoneInit => First!Scan!Init /\ Second!Scan!Init
    BY ScanPromptSame, ScanQueuedSame, Zenon DEF PhoneInit
  <2>2. PhoneInit => IF part = "failingLink" THEN Second!Link!Init ELSE First!Link!Init
    BY LinkSame, LinkFailsSame, Zenon DEF PhoneInit
  <2>3. PhoneInit => First!ScanInv /\ Second!ScanInv
    BY <2>1, TagsAssumed, First!ScanInitial, Second!ScanInitial, Zenon
  <2>4. PhoneInit => IF part = "failingLink" THEN Second!LinkInv ELSE First!LinkInv
    BY <2>2, TagsAssumed, First!LinkInitial, Second!LinkInitial, Zenon
  <2> QED
    BY <2>3, <2>4 DEF TagInv
<1>2. TagInv => TagUnderstood
  <2>1. First!ScanInv => First!Scan!TappedIsConnected
    BY First!ScanMeans, Zenon
  <2>2. Second!ScanInv => Second!Scan!TypeOK
    BY Second!ScanMeans, Zenon
  <2>3. First!LinkInv => First!Link!TypeOK /\ First!Link!CutToAnchors
    BY First!LinkMeans, Zenon
  <2>4. Second!LinkInv => Second!Link!CutToAnchors
    BY Second!LinkMeans, Zenon
  <2> QED
    BY <2>1, <2>2, <2>3, <2>4, ScanPromptSame, ScanQueuedSame, LinkSame, LinkFailsSame, Zenon
       DEF TagInv, TagUnderstood
<1> QED
  BY <1>1, <1>2, TagsKept, PTL DEF PhoneSpec

(* The newest measurement is the one that is computed last, however many tasks a     *)
(* burst of them posts; a position that its last step moved by more than the error   *)
(* limit is kept only if it was moved by more than 100 m; too few equations do not   *)
(* move it, and one that was far off leaves the average, which is over all of the    *)
(* first five results and over the last five of them from then on.                   *)
THEOREM PositionStaysKept == PhoneSpec => PositionKept
<1>1. PhoneInit => First!CalcInv
  BY CalcSame, InstancesBounded, First!CalcInitial, Zenon DEF PhoneInit
<1>2. First!CalcInv /\ [PhoneNext]_phoneVars =>
        First!CalcInv' /\ [pc = "finish" /\ rows < 3 => qPrev' = qPrev]_Calc!vars
  <2> SUFFICES ASSUME First!CalcInv, [PhoneNext]_phoneVars
               PROVE  First!CalcInv' /\ [pc = "finish" /\ rows < 3 => qPrev' = qPrev]_Calc!vars
    OBVIOUS
  <2>1. First!CalcStep
    BY PartsStep, CalcSame, Zenon DEF First!CalcStep
  <2>2. [pc = "finish" /\ rows < 3 => qPrev' = qPrev]_First!Calc!vars
    BY <2>1, First!CalcDrops, Zenon
  <2> QED
    BY <2>1, <2>2, InstancesBounded, First!CalcInductive, Zenon DEF Calc!vars, First!Calc!vars
<1>3. First!CalcInv => Calc!TypeOK /\ Calc!NewestUsed /\ Calc!MiddleDropped /\ Calc!WindowForgets
  BY First!CalcMeans, CalcSame, Zenon
<1> QED
  BY <1>1, <1>2, <1>3, PTL DEF PhoneSpec, PositionKept, Calc!PoorDropped
=============================================================================
