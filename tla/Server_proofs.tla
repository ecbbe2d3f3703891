---------------------------- MODULE Server_proofs ----------------------------
(***************************************************************************)
(* The server's two properties that speak of whichever of its parts runs:  *)
(* the invariants of GameServer_proofs and PositionFeed_proofs, which hold *)
(* for any constants, hold of the part that runs.                          *)
(***************************************************************************)
EXTENDS MCServer, GameServer_proofs

\* The requests in production, and the feed for one request at a time and for more.
Prod == INSTANCE GameServer_proofs WITH Seeds <- NoSeeds
Solo == INSTANCE PositionFeed_proofs WITH
    Handlers <- {1}, Games <- 1..2, Roster <- FeedRoster, MaxTimers <- 2, Orderly <- TRUE,
    game <- feedGame
Races == INSTANCE PositionFeed_proofs WITH
    Handlers <- 1..2, Games <- 1..2, Roster <- FeedRoster, MaxTimers <- 2, Orderly <- FALSE,
    game <- feedGame

-----------------------------------------------------------------------------
(* The instances of MCServer are these, definition by definition. *)

LEMMA ProductionSame ==
    Production!Next \/ UNCHANGED vars => [Prod!Next]_Prod!vars
  BY Zenon DEF vars, heap, Prod!vars, Production!Teams, Prod!Teams, Production!Other,
         Prod!Other, Production!Games, Prod!Games, Production!NoGame, Prod!NoGame,
         Production!Null, Prod!Null, Production!None, Prod!None, Production!Test,
         Prod!Test, Production!heap, Prod!heap, Production!NoView, Prod!NoView,
         Production!Fresh, Prod!Fresh, Production!Idle, Prod!Idle, Production!Slot,
         Prod!Slot, Production!Longer, Prod!Longer, Production!Stored, Prod!Stored,
         Production!Shifted, Prod!Shifted, Production!Extended, Prod!Extended,
         Production!Found, Prod!Found, Production!Elements, Prod!Elements,
         Production!Reading, Prod!Reading, Production!Writing, Prod!Writing,
         Production!Inside, Prod!Inside, Production!Enters, Prod!Enters,
         Production!EntersToRead, Prod!EntersToRead, Production!EntersToWrite,
         Prod!EntersToWrite, Production!At, Prod!At, Production!Load, Prod!Load,
         Production!Array, Prod!Array, Production!SetSize, Prod!SetSize,
         Production!SetArray, Prod!SetArray, Production!Goto, Prod!Goto,
         Production!GotoWith, Prod!GotoWith, Production!GotoList, Prod!GotoList,
         Production!Answer, Prod!Answer, Production!Busy, Prod!Busy, Production!Waits,
         Prod!Waits, Production!WithinBounds, Prod!WithinBounds, Production!Receive,
         Prod!Receive, Production!ReceiveJoin, Prod!ReceiveJoin, Production!ReceiveCreate,
         Prod!ReceiveCreate, Production!ReceiveDelete, Prod!ReceiveDelete,
         Production!ReceiveGet, Prod!ReceiveGet, Production!DerefRemove, Prod!DerefRemove,
         Production!Search, Prod!Search, Production!Shift, Prod!Shift,
         Production!LoadLast, Prod!LoadLast, Production!Clear, Prod!Clear,
         Production!DerefAdd, Prod!DerefAdd, Production!LoadSize, Prod!LoadSize,
         Production!StoreSize, Prod!StoreSize, Production!Store, Prod!Store,
         Production!SeedStep, Prod!SeedStep, Production!AfterSeed, Prod!AfterSeed,
         Production!Seed, Prod!Seed, Production!Grow, Prod!Grow, Production!Show,
         Prod!Show, Production!Respond, Prod!Respond, Production!Requests, Prod!Requests,
         Production!Joining, Prod!Joining, Production!Answering, Prod!Answering,
         Production!Next, Prod!Next, Production!Cardinality, Prod!Cardinality

LEMMA ProductionStarts == Init => Prod!Init
  BY Zenon DEF Teams, Prod!Teams, Games, Prod!Games, NoGame, Prod!NoGame, Null, Prod!Null,
         None, Prod!None, NoView, Prod!NoView, Fresh, Prod!Fresh, Idle, Prod!Idle, Init,
         Prod!Init

LEMMA SoloSame ==
    /\ Feed!Init => Solo!Init
    /\ Feed!Next \/ UNCHANGED feedVars => [Solo!Next]_Solo!vars
    /\ Solo!TypeOK => Feed!TypeOK
    /\ Feed!RosterAssumption => Solo!RosterAssumption
    /\ Feed!BoundAssumption => Solo!BoundAssumption
  BY Zenon DEF feedVars, Feed!Teams, Solo!Teams, Feed!Timers, Solo!Timers, Feed!NoTimer,
         Solo!NoTimer, Feed!NoGame, Solo!NoGame, Feed!RosterAssumption,
         Solo!RosterAssumption, Feed!BoundAssumption, Solo!BoundAssumption, Feed!vars,
         Solo!vars, Feed!Idle, Solo!Idle, Feed!List, Solo!List, Feed!Members,
         Solo!Members, Feed!Names, Solo!Names, Feed!Init,
         Solo!Init, Feed!At, Solo!At, Feed!Goto, Solo!Goto, Feed!Answer, Solo!Answer,
         Feed!Serving, Solo!Serving, Feed!Feeding, Solo!Feeding, Feed!Ends, Solo!Ends,
         Feed!Assign, Solo!Assign, Feed!Stopped, Solo!Stopped, Feed!NewTimer,
         Solo!NewTimer, Feed!ReadRed, Solo!ReadRed, Feed!ReadBlue, Solo!ReadBlue,
         Feed!OnToBlue, Solo!OnToBlue, Feed!Accepts, Solo!Accepts, Feed!Schedule,
         Solo!Schedule, Feed!FilterThrows, Solo!FilterThrows, Feed!Stop, Solo!Stop,
         Feed!Publish, Solo!Publish, Feed!LoseBroker, Solo!LoseBroker, Feed!ChangeGame,
         Solo!ChangeGame, Feed!Handle, Solo!Handle, Feed!Next, Solo!Next, Feed!TypeOK,
         Solo!TypeOK, Feed!Cardinality, Solo!Cardinality

LEMMA RacesSame ==
    /\ FeedRaces!Init => Races!Init
    /\ FeedRaces!Next \/ UNCHANGED feedVars => [Races!Next]_Races!vars
    /\ Races!StopReachesFeed => FeedRaces!StopReachesFeed
    /\ Feed!RosterAssumption => Races!RosterAssumption
    /\ Feed!BoundAssumption => Races!BoundAssumption
  BY Zenon DEF feedVars, Feed!RosterAssumption, Races!RosterAssumption,
         Feed!BoundAssumption, Races!BoundAssumption, Feed!Teams, FeedRaces!Teams,
         Races!Teams, FeedRaces!Timers, Races!Timers, FeedRaces!NoTimer, Races!NoTimer,
         FeedRaces!NoGame, Races!NoGame, FeedRaces!vars, Races!vars, FeedRaces!Idle,
         Races!Idle, FeedRaces!List, Races!List, FeedRaces!Members, Races!Members,
         FeedRaces!Names, Races!Names, FeedRaces!Init,
         Races!Init, FeedRaces!At, Races!At, FeedRaces!Goto, Races!Goto, FeedRaces!Answer,
         Races!Answer, FeedRaces!Serving, Races!Serving, FeedRaces!Feeding, Races!Feeding,
         FeedRaces!Ends, Races!Ends, FeedRaces!Assign, Races!Assign, FeedRaces!Stopped,
         Races!Stopped, FeedRaces!NewTimer, Races!NewTimer, FeedRaces!ReadRed,
         Races!ReadRed, FeedRaces!ReadBlue, Races!ReadBlue, FeedRaces!OnToBlue,
         Races!OnToBlue, FeedRaces!Accepts, Races!Accepts, FeedRaces!Schedule,
         Races!Schedule, FeedRaces!FilterThrows, Races!FilterThrows, FeedRaces!Stop,
         Races!Stop, FeedRaces!Publish, Races!Publish, FeedRaces!LoseBroker,
         Races!LoseBroker, FeedRaces!ChangeGame, Races!ChangeGame, FeedRaces!Handle,
         Races!Handle, FeedRaces!Next, Races!Next, FeedRaces!StopReachesFeed,
         Races!StopReachesFeed, FeedRaces!Cardinality, Races!Cardinality

\* The bounds and names that are checked are as the two modules assume.
LEMMA Bounded ==
    /\ Solo!RosterAssumption /\ Solo!BoundAssumption
    /\ Races!RosterAssumption /\ Races!BoundAssumption
  BY FeedAssumption, SoloSame, RacesSame DEF FeedAssumption

LEMMA ProductionAssumed ==
    Prod!SeedsAssumption /\ Prod!BoundsAssumption /\ Prod!NamesAssumption
<1>1. \A t \in Teams : NoSeeds[t] = <<>>
  BY DEF NoSeeds, Teams
<1>2. Prod!SeedsAssumption
  <2>1. <<>> \in Seq(STRING)
    BY EmptySeq
  <2>2. NoSeeds = [t \in Prod!Teams |-> <<>>]
    BY DEF NoSeeds, Prod!Teams
  <2> QED
    BY <2>1, <2>2 DEF Prod!SeedsAssumption
<1>3. \A t \in Teams : Prod!SeedNames(t) = {}
  BY <1>1 DEF Prod!SeedNames
<1> QED
  BY <1>2, <1>3, BoundsAssumption, NamesAssumption
     DEF Prod!BoundsAssumption, Prod!NamesAssumption, Prod!Teams, Teams, Prod!Null, Null

\* What is of its type in production is so anywhere: there are only fewer names.
LEMMA ProductionTypes == Prod!TypeOK => TypeOK
<1>1. Prod!Names \subseteq Names
  <2>1. \A t \in Teams : Prod!SeedNames(t) = {}
    BY DEF Prod!SeedNames, NoSeeds, Teams
  <2> QED
    BY <2>1 DEF Prod!Names, Names, Teams
<1> SUFFICES ASSUME Prod!TypeOK PROVE TypeOK
  OBVIOUS
<1>2. slots \in [Games -> [Teams -> Seq(Names \union {Null})]]
  <2>1. slots \in [Games -> [Teams -> Seq(Prod!Names \union {Null})]]
    BY DEF Prod!TypeOK, Prod!Games, Games, Prod!Teams, Teams, Prod!Null, Null
  <2>2. \A s \in Seq(Prod!Names \union {Null}) : s \in Seq(Names \union {Null})
    BY <1>1
  <2> QED
    BY <2>1, <2>2
<1>3. thread \in [Handlers -> ThreadType]
  <2>1. Prod!ThreadType \subseteq ThreadType
    <3>1. [Prod!Teams -> SUBSET (Prod!Names \union {Prod!Null})]
            \subseteq [Teams -> SUBSET (Names \union {Null})]
      BY <1>1 DEF Prod!Teams, Teams, Prod!Null, Null
    <3> QED
      BY <3>1 DEF Prod!ThreadType, ThreadType, Prod!Steps, Steps, Prod!Teams, Teams, Prod!Games,
                  Games, Prod!NoGame, NoGame, Prod!Null, Null
  <2> QED
    BY <2>1 DEF Prod!TypeOK
<1> QED
  BY <1>2, <1>3
  DEF TypeOK, Prod!TypeOK, Prod!Games, Games, Prod!NoGame, NoGame, Prod!Teams, Teams, Prod!None,
      None, Prod!Reading, Reading, Prod!Writing, Writing

-----------------------------------------------------------------------------
(* A property of one part holds while that part runs, because its invariant does. *)

ServerInv ==
    /\ IF part = "production" THEN Prod!IInv ELSE IInv
    /\ IF part = "feed races" THEN Races!FeedInv ELSE Solo!FeedInv

LEMMA ServerStarts == ServerInit => ServerInv
<1> SUFFICES ASSUME ServerInit PROVE ServerInv
  OBVIOUS
<1>1. IInv
  BY InitialInv DEF ServerInit
<1>2. Prod!IInv
  BY ProductionAssumed, ProductionStarts, Prod!InitialInv, Zenon DEF ServerInit
<1>3. CASE part = "feed races"
  <2>1. Races!FeedInv
    BY <1>3, Bounded, RacesSame, Races!FeedInit, Zenon DEF ServerInit
  <2> QED
    BY <1>1, <1>3, <2>1 DEF ServerInv
<1>4. CASE part # "feed races"
  <2>1. Solo!FeedInv
    BY <1>4, Bounded, SoloSame, Solo!FeedInit, Zenon DEF ServerInit
  <2> QED
    BY <1>1, <1>2, <1>4, <2>1 DEF ServerInv
<1> QED
  BY <1>3, <1>4

\* A step of the part that runs is a step of it, and stutters for the other.
LEMMA PartSteps ==
    ASSUME [ServerNext]_serverVars
    PROVE  /\ part' = part
           /\ IF part = "production" THEN [Prod!Next]_Prod!vars ELSE [Next]_vars
           /\ IF part = "feed races" THEN [Races!Next]_Races!vars ELSE [Solo!Next]_Solo!vars
<1>1. /\ part' = part
      /\ IF part = "production" THEN Production!Next \/ UNCHANGED vars ELSE [Next]_vars
      /\ IF part = "feed races" THEN FeedRaces!Next \/ UNCHANGED feedVars
         ELSE Feed!Next \/ UNCHANGED feedVars
  BY Zenon DEF ServerNext, serverVars
<1> QED
  BY <1>1, ProductionSame, SoloSame, RacesSame, Zenon

LEMMA ServerKeeps == ServerInv /\ [ServerNext]_serverVars => ServerInv'
<1> SUFFICES ASSUME ServerInv, [ServerNext]_serverVars PROVE ServerInv'
  OBVIOUS
<1>1. IF part = "production" THEN Prod!IInv' ELSE IInv'
  BY PartSteps, StepKeeps, ProductionAssumed, Prod!StepKeeps, Zenon DEF ServerInv
<1>2. IF part = "feed races" THEN Races!FeedInv' ELSE Solo!FeedInv'
  BY PartSteps, Bounded, Races!FeedNext, Solo!FeedNext, Zenon DEF ServerInv
<1> QED
  BY <1>1, <1>2, PartSteps, Zenon DEF ServerInv

(* Neither part leaves its types: no handler dereferences a null, and no start     *)
(* schedules before the feed's first timer.                                        *)
THEOREM ServerTypes == ServerSpec => []TypesOK
<1>1. ServerInv => TypesOK
  <2>1. Prod!IInv => TypeOK
    BY ProductionTypes DEF Prod!IInv
  <2>2. Solo!FeedInv => Feed!TypeOK
    BY SoloSame, Zenon DEF Solo!FeedInv
  <2> QED
    BY <2>1, <2>2 DEF ServerInv, TypesOK, IInv
<1> QED
  BY <1>1, ServerStarts, ServerKeeps, PTL DEF ServerSpec

(* Whatever publishes is the timer that the next stop cancels, unless a start came *)
(* while a feed was on or being started.                                           *)
THEOREM StopReachesServer == ServerSpec => []StopReachesFeed
<1>1. ServerInv => StopReachesFeed
  <2>1. Races!FeedInv => Races!StopReachesFeed
    BY Races!FeedMeans, Zenon
  <2> QED
    BY <2>1, RacesSame DEF ServerInv, StopReachesFeed
<1> QED
  BY <1>1, ServerStarts, ServerKeeps, PTL DEF ServerSpec
=============================================================================
