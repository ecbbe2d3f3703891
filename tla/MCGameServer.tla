---------------------------- MODULE MCGameServer ----------------------------
(* The values for TLC: the environment "test" with one test player in each   *)
(* team, and production with none.                                           *)
EXTENDS GameServer, TLC

TestSeeds == [red |-> <<"Dani">>, blue |-> <<"Mate">>]
NoSeeds == [red |-> <<>>, blue |-> <<>>]

SymmetryOfNames == Permutations(Players) \union Permutations(Handlers)
=============================================================================
