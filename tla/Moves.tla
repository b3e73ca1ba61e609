------------------------------- MODULE Moves -------------------------------
(***************************************************************************)
(* The moves of the game and their order: enum Moves of Models/Game.swift. *)
(* "idle" is the move of a player who has not picked yet.                   *)
(***************************************************************************)

PickSet == {"rock", "paper", "scissors"}
MoveSet == PickSet \cup {"idle"}

\* Mutants of LessThan: a pair listed the wrong way round as well, a pair forgotten.
LessThan_PairTwice(lhs, rhs) ==
    <<lhs, rhs>> \in {<<"rock", "paper">>, <<"paper", "rock">>, <<"paper", "scissors">>,
                      <<"scissors", "rock">>, <<"idle", "paper">>, <<"idle", "rock">>,
                      <<"idle", "scissors">>}
LessThan_PairMissing(lhs, rhs) ==
    <<lhs, rhs>> \in {<<"paper", "scissors">>, <<"scissors", "rock">>, <<"idle", "paper">>,
                      <<"idle", "rock">>, <<"idle", "scissors">>}

\* static func < : the pairs the switch lists, false for every other pair.
LessThan(lhs, rhs) ==
    <<lhs, rhs>> \in {<<"rock", "paper">>, <<"paper", "scissors">>, <<"scissors", "rock">>,
                      <<"idle", "paper">>, <<"idle", "rock">>, <<"idle", "scissors">>}

(***************************************************************************)
(* What checkForWinner concludes from the two moves of a document.         *)
(* Comparable derives > from <, and the second test of the code is         *)
(* mMove < oMove with everything else falling to its else branch.          *)
(***************************************************************************)
VerdictSet == {"waiting", "win", "lose", "tie"}

Verdict(mMove, oMove) ==
    CASE mMove = "idle" \/ oMove = "idle" -> "waiting"
      [] mMove # "idle" /\ oMove # "idle" /\ LessThan(oMove, mMove) -> "win"
      [] mMove # "idle" /\ oMove # "idle" /\ LessThan(mMove, oMove) -> "lose"
      [] OTHER -> "tie"
=============================================================================
