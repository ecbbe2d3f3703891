------------------------------ MODULE MCServer ------------------------------
(***************************************************************************)
(* The server: its games, and the feed of test positions for players who   *)
(* alone (one request at a time) or together start and stop it.  The feed  *)
(* only reads the game, which its own module lets change at any time: the  *)
(* two share no state here, one of them runs, and the other one keeps its  *)
(* initial state.                                                          *)
(***************************************************************************)
EXTENDS MCGameServer

VARIABLES
    part,   \* the part that runs
    feedGame, timer, state, tasks, handler, connected, beat, overlapped
feedVars == <<feedGame, timer, state, tasks, handler, connected, beat, overlapped>>
serverVars == <<part, vars, feedVars>>

\* The same requests in production, which has no test players.
Production == INSTANCE GameServer WITH Seeds <- NoSeeds

\* Two games with two red players and one blue, one of whom is in both.
FeedRoster == <<[red |-> <<"Dani", "Akos">>, blue |-> <<"Mate">>],
                [red |-> <<"Porgi">>, blue |-> <<"Mate">>]>>

Feed == INSTANCE PositionFeed WITH
    Handlers <- {1}, Games <- 1..2, Roster <- FeedRoster, MaxTimers <- 2, Orderly <- TRUE,
    game <- feedGame
FeedRaces == INSTANCE PositionFeed WITH
    Handlers <- 1..2, Games <- 1..2, Roster <- FeedRoster, MaxTimers <- 2, Orderly <- FALSE,
    game <- feedGame

ASSUME FeedAssumption == Feed!RosterAssumption /\ Feed!BoundAssumption

ServerInit ==
    /\ part \in {"game", "production", "feed", "feed races"}
    /\ Init
    /\ IF part = "feed races" THEN FeedRaces!Init ELSE Feed!Init

ServerNext ==
    \/ part = "game" /\ Next /\ UNCHANGED <<part, feedVars>>
    \/ part = "production" /\ Production!Next /\ UNCHANGED <<part, feedVars>>
    \/ part = "feed" /\ Feed!Next /\ UNCHANGED <<part, vars>>
    \/ part = "feed races" /\ FeedRaces!Next /\ UNCHANGED <<part, vars>>

\* The fairness of PositionFeed, for when it runs alone.
ServerSpec ==
    /\ ServerInit /\ [][ServerNext]_serverVars
    /\ WF_feedVars(part = "feed" /\ Feed!Handle(1))
    /\ \A i \in Feed!Timers, p \in Feed!Names : WF_feedVars(part = "feed" /\ Feed!Publish(i, p))

----------------------------------------------------------------------------
(* Properties: GameServer's own, and the feed's. *)

\* Both keep their types: no handler dereferences a null, none schedules before the
\* first timer.
TypesOK == TypeOK /\ (part # "feed races" => Feed!TypeOK)

\* A feed goes on after a stop only if a start had come while another was on.
StopReachesFeed == part = "feed races" => FeedRaces!StopReachesFeed

\* In orderly use the players of a started feed are published again and again, for
\* good, unless it is over some day; without the broker it dies of its next publish.
FeedRuns ==
    /\ part = "feed" => Feed!PlayersFed
    /\ part = "feed" => Feed!FeedsDie
=============================================================================
