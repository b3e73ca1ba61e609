----------------------------- MODULE Matchmaker -----------------------------
(***************************************************************************)
(* What the invitations of the app come to: who may be brought into a      *)
(* match with whom, and how a match goes on.  GameInvitation, with its     *)
(* chains of calls, messages and loading views, implements it.             *)
(***************************************************************************)
EXTENDS Naturals

CONSTANTS Users, RequestId, GameId,
          Tap,     \* taps on Accept, told apart while they are under way
          NoGame   \* what games/<id> is before it is created

VARIABLES
    offered,    \* every invitation there ever was
    open,       \* those that can be answered
    answers,    \* taps on Accept that found theirs open, and have made no match of it yet
    games       \* the matches

Invitation == [id : RequestId, from : Users, to : Users]

Init ==
    /\ offered = {} /\ open = {} /\ answers = {}
    /\ games = [g \in GameId |-> NoGame]

\* A user invites another one.
Offer(r) ==
    /\ r.from # r.to
    /\ \A q \in offered : q.id # r.id
    /\ offered' = offered \cup {r} /\ open' = open \cup {r}
    /\ UNCHANGED <<answers, games>>

\* It is answered only while it is open, by any number of taps.
Answer(n, r) ==
    /\ answers' = answers \cup {[tap |-> n, request |-> r]}
    /\ UNCHANGED <<offered, open, games>>

\* Invitations are withdrawn or used up, answers come to nothing.
Lapse ==
    /\ open' \subseteq open /\ answers' \subseteq answers
    /\ UNCHANGED <<offered, games>>

\* An answer makes one match, between the two users of its invitation.
Match(g, a) ==
    /\ games[g].state = "none"
    /\ games' = [games EXCEPT ![g] = [acceptor |-> a.request.to, requester |-> a.request.from,
                                      state |-> "starting", of |-> a.request.id]]
    /\ answers' = answers \ {a}
    /\ UNCHANGED <<offered, open>>

\* A match begins and ends, and may begin again after its end (a write made before the
\* end was seen); it is not "starting" again, and its players remain the same.
Goes(g, s) ==
    /\ games[g].state # "none"
    /\ games' = [games EXCEPT ![g].state = s]
    /\ UNCHANGED <<offered, open, answers>>

Next ==
    \/ \E r \in Invitation : Offer(r)
    \/ \E n \in Tap, r \in open : Answer(n, r)
    \/ Lapse
    \/ \E g \in GameId, a \in answers : Match(g, a)
    \/ \E g \in GameId, s \in {"inprogress", "finished"} : Goes(g, s)

Spec == Init /\ [][Next]_<<offered, open, answers, games>>
=============================================================================
