---------------------------- MODULE MatchRecord ----------------------------
(***************************************************************************)
(* What the two devices promise about the document games/<id> of a match   *)
(* in which each player picks once, nobody leaves and the moves differ:    *)
(* the record of one round, whatever the devices write over each other.    *)
(***************************************************************************)
EXTENDS Moves

CONSTANTS Players, NoOne

VARIABLES state, moves, winner

Init ==
    /\ state = "starting"
    /\ moves = [p \in Players |-> "idle"]
    /\ winner = NoOne

Beats(p, q) == LessThan(moves[q], moves[p])

Start ==
    /\ state = "starting"
    /\ state' = "inprogress"
    /\ UNCHANGED <<moves, winner>>

\* A pick is recorded.  It may cost another player, who picked at the same
\* time, the pick recorded before: that is all a concurrent write may do.
Record(p, m) ==
    /\ state = "inprogress"
    /\ moves[p] = "idle"
    /\ \/ moves' = [moves EXCEPT ![p] = m]
       \/ moves' = [q \in Players |-> IF q = p THEN m ELSE "idle"]
    /\ UNCHANGED <<state, winner>>

\* The round is over, for good, once every move is recorded.
Finish ==
    /\ state = "inprogress"
    /\ \A p \in Players : moves[p] # "idle"
    /\ state' = "finished"
    /\ UNCHANGED <<moves, winner>>

\* The winner is entered once, and is the player whose move wins.
Award(p) ==
    /\ state = "finished"
    /\ winner = NoOne
    /\ \A q \in Players \ {p} : Beats(p, q)
    /\ winner' = p
    /\ UNCHANGED <<state, moves>>

Next ==
    \/ Start
    \/ \E p \in Players, m \in PickSet : Record(p, m)
    \/ Finish
    \/ \E p \in Players : Award(p)

Spec == Init /\ [][Next]_<<state, moves, winner>>
=============================================================================
