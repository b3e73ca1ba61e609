---------------------------- MODULE MCMatchTables --------------------------
(***************************************************************************)
(* GameMatch with its pure definitions compared to references: the ones    *)
(* written for the provers with the ones they stand for.                   *)
(***************************************************************************)
EXTENDS MCGameMatch

LOCAL Seqs == INSTANCE SequencesExt

\* Overlay is the fold of Merge, on documents and writes that differ in every
\* field, for up to three writes.
SampleDocs ==
    {[state |-> s, moves |-> [p \in Players |-> IF p = Requester THEN m ELSE "idle"], winner |-> w] :
        s \in {"inprogress", "finished"}, m \in {"idle", "rock"}, w \in {NoOne, Requester}}
SampleWrites ==
    {updateGameMoves(d) : d \in SampleDocs} \cup {updateGameStatus(s) : s \in {"inprogress", "finished"}}

ASSUME OverlayIsFold ==
    \A d \in {Created, [Created EXCEPT !.state = "finished", !.winner = Acceptor]} :
        \A ws \in Seqs!SeqOf(SampleWrites, 3) :
            Overlay(d, ws) = Seqs!FoldLeft(Merge, d, ws)

\* The three verdicts of the order of the moves, against the rule of the game.
Defeats == [rock |-> "scissors", scissors |-> "paper", paper |-> "rock"]
ASSUME VerdictIsRule ==
    \A m, o \in PickSet :
        Verdict(m, o) = IF m = o THEN "tie" ELSE IF Defeats[m] = o THEN "win" ELSE "lose"
=============================================================================
