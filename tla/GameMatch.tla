----------------------------- MODULE GameMatch -----------------------------
(***************************************************************************)
(* One match: the document games/<id> in Firestore and the two devices     *)
(* that play it (GameViewController, ResultViewController, DataStore+Game).*)
(*                                                                         *)
(* A device never talks to the other one.  It writes the document and is   *)
(* called back with the document; Firestore shows a device its own writes  *)
(* at once and the other device's writes when they arrive.  Everything     *)
(* else a device does is a task left on the main queue for later           *)
(* (asyncAfter, completions of animations).                                *)
(***************************************************************************)
EXTENDS Naturals, Sequences, FiniteSets, Moves

CONSTANTS
    Requester,       \* the player who sent the invitation
    Acceptor,        \* the player who accepted it and created the document
    NoOne,           \* the nil winner
    RequesterChoices, AcceptorChoices,   \* the moves they choose among
    Leavers,         \* players who may use the exit dialog
    Killable,        \* players whose app may be terminated
    Interruptible,   \* may an animation end with finished = false?
    Prompt,          \* is the network faster than one second?
    MaxTaps,         \* bound: picks of one player
    MaxQueue,        \* bound: writes of one device not yet seen back
    MaxVersions,     \* bound: changes of the document
    MaxLag,          \* bound: versions of the document on their way to a device
    MaxBreaks,       \* bound: connections lost with a write committed and not acknowledged
    MaxDue           \* bound: tasks of a device due at the same second, when a snapshot adds one

Players == {Requester, Acceptor}

ASSUME PlayersAssumption ==
    Requester # Acceptor /\ Players \cap {NoOne, "draw", "nothing"} = {}
ASSUME ChoicesAssumption == RequesterChoices \subseteq PickSet /\ AcceptorChoices \subseteq PickSet
ASSUME SettingAssumption ==
    /\ Leavers \subseteq Players /\ Killable \subseteq Players
    /\ Interruptible \in BOOLEAN
    /\ Prompt \in BOOLEAN
ASSUME BoundsAssumption ==
    /\ MaxTaps \in Nat /\ MaxVersions \in Nat /\ MaxQueue \in Nat /\ MaxLag \in Nat
    /\ MaxBreaks \in Nat /\ MaxDue \in Nat

Opponent(p) == IF p = Requester THEN Acceptor ELSE Requester
Choices(p) == IF p = Requester THEN RequesterChoices ELSE AcceptorChoices

-----------------------------------------------------------------------------
(***************************************************************************)
(* The document and the writes to it.                                      *)
(***************************************************************************)
GameState == {"starting", "inprogress", "finished"}

Game == [state: GameState, moves: [Players -> MoveSet], winner: Players \cup {NoOne}]

\* What createGame stores.
Created == [state |-> "starting", moves |-> [p \in Players |-> "idle"], winner |-> NoOne]

\* updateGameMoves writes a whole game, updateGameStatus only its state.
Write == [whole: BOOLEAN, doc: Game]
updateGameMoves(g) == [whole |-> TRUE, doc |-> g]
updateGameStatus(s) == [whole |-> FALSE, doc |-> [Created EXCEPT !.state = s]]

\* A nil winner is not encoded, and setData(merge: true) leaves the fields it
\* does not mention as they are.  The moves of BOTH players are mentioned.
Merge_Replaces(doc, w) ==   \* mutant: setData without merge
    IF w.whole THEN w.doc ELSE [doc EXCEPT !.state = w.doc.state]
Merge(doc, w) ==
    IF w.whole
    THEN [w.doc EXCEPT !.winner = IF @ = NoOne THEN doc.winner ELSE @]
    ELSE [doc EXCEPT !.state = w.doc.state]

(***************************************************************************)
(* Merging a sequence of writes into a document, one after the other: each *)
(* field comes from the last write that mentions it.                       *)
(***************************************************************************)
IsLast(I, i) == i \in I /\ \A j \in I : j <= i
Wholes(ws) == {i \in DOMAIN ws : ws[i].whole}
Winners(ws) == {i \in Wholes(ws) : ws[i].doc.winner # NoOne}

Overlay(doc, ws) ==
    [state  |-> IF ws = << >> THEN doc.state ELSE ws[Len(ws)].doc.state,
     moves  |-> IF \E i \in Wholes(ws) : IsLast(Wholes(ws), i)
                THEN ws[CHOOSE i \in Wholes(ws) : IsLast(Wholes(ws), i)].doc.moves
                ELSE doc.moves,
     winner |-> IF \E i \in Winners(ws) : IsLast(Winners(ws), i)
                THEN ws[CHOOSE i \in Winners(ws) : IsLast(Winners(ws), i)].doc.winner
                ELSE doc.winner]

-----------------------------------------------------------------------------
(***************************************************************************)
(* Work a device has put off.  agenda[p][d] holds what is due in d seconds,*)
(* in the order in which it was put there.                                 *)
(***************************************************************************)
KickSeconds == 1      \* the two animations of 0.5 s of animateFinalMoves
RecheckSeconds == 2   \* animateMoves: 2 s, and an animation of 0.3 s
SetWinnerSeconds_Swapped == 6   \* mutant: the delay of the results
SetWinnerSeconds == 2
ResultsSeconds == 6

Task == [kind: {"check", "kick", "setWinner", "results"}, verdict: VerdictSet]
Check(v) == [kind |-> "check", verdict |-> v]
Kick(v) == [kind |-> "kick", verdict |-> v]
SetWinnerTask == [kind |-> "setWinner", verdict |-> "win"]
ResultsTask == [kind |-> "results", verdict |-> "waiting"]

Agenda == [0..ResultsSeconds -> Seq(Task)]
EmptyAgenda == [d \in 0..ResultsSeconds |-> << >>]
After(ag, d, t) == [ag EXCEPT ![d] = Append(@, t)]
OneSecondLater(ag) ==
    [d \in 0..ResultsSeconds |-> IF d = ResultsSeconds THEN << >> ELSE ag[d + 1]]

continueToResults(ag) == After(ag, ResultsSeconds, ResultsTask)

-----------------------------------------------------------------------------
VARIABLES
    server,   \* the document as Firestore's backend has it
    base,     \* base[p]: the last version of it p's device was sent
    feed,     \* feed[p]: versions committed and on their way to p's device
    own,      \* own[p]: p's writes not yet both acknowledged and in base[p]
    at,       \* at[p][i]: own[p][i] is committed, in feed[p][at[p][i]] (0: in base[p])
    acked,    \* acked[p]: how many of own[p] are acknowledged
    breaks,   \* how often a connection was lost before an acknowledgement
    seen,     \* seen[p]: the document in p's view, of which its listener knows
    cb,       \* cb[p]: snapshots waiting on p's main queue for the listener
    screen,   \* screen[p]: what p's device shows
    alert,    \* alert[p]: is the exit dialog open?
    game,     \* game[p]: GameViewController.game
    enabled,  \* enabled[p]: are the four move buttons enabled?
    agenda,   \* agenda[p]: the tasks p's device has put off
    shown,    \* shown[p]: the winner p's ResultViewController announced
    versions, \* how often the document has changed
    taps,     \* history: the moves p has picked, in order
    judged,   \* history: the verdicts on which p's device has acted
    cut       \* history: has an animation been cut short?

network == <<server, base, feed, at, acked, breaks>>
device == <<screen, alert, game, enabled, agenda, shown>>
history == <<taps, judged, cut>>
vars == <<network, own, seen, cb, device, versions, history>>

Screen == {"loading", "game", "results", "leaving", "gone"}

TypeOK ==
    /\ server \in Game
    /\ base \in [Players -> Game]
    /\ feed \in [Players -> Seq(Game)]
    /\ own \in [Players -> Seq(Write)]
    /\ at \in [Players -> Seq(Nat)]
    /\ acked \in [Players -> Nat]
    /\ breaks \in 0..MaxBreaks
    /\ seen \in [Players -> Game]
    /\ cb \in [Players -> Seq(Game)]
    /\ screen \in [Players -> Screen]
    /\ alert \in [Players -> BOOLEAN]
    /\ game \in [Players -> Game]
    /\ enabled \in [Players -> BOOLEAN]
    /\ agenda \in [Players -> Agenda]
    /\ shown \in [Players -> Players \cup {"draw", "nothing"}]
    /\ versions \in 0..MaxVersions
    /\ taps \in [Players -> Seq(PickSet)]
    /\ judged \in [Players -> SUBSET {"win", "lose", "tie"}]
    /\ cut \in BOOLEAN

\* The acceptor's device has created the document and opened the game screen;
\* the requester's still shows LoadingView, whose listener has the document.
Init ==
    /\ server = Created
    /\ base = [p \in Players |-> Created]
    /\ feed = [p \in Players |-> << >>]
    /\ own = [p \in Players |-> << >>]
    /\ at = [p \in Players |-> << >>]
    /\ acked = [p \in Players |-> 0]
    /\ breaks = 0
    /\ seen = [p \in Players |-> Created]
    /\ cb = [p \in Players |-> IF p = Acceptor THEN <<Created>> ELSE << >>]
    /\ screen = [p \in Players |-> IF p = Acceptor THEN "game" ELSE "loading"]
    /\ alert = [p \in Players |-> FALSE]
    /\ game = [p \in Players |-> Created]
    /\ enabled = [p \in Players |-> FALSE]
    /\ agenda = [p \in Players |-> EmptyAgenda]
    /\ shown = [p \in Players |-> "nothing"]
    /\ versions = 0
    /\ taps = [p \in Players |-> << >>]
    /\ judged = [p \in Players |-> {}]
    /\ cut = FALSE

-----------------------------------------------------------------------------
(***************************************************************************)
(* The client library: latency compensation.  The device is shown base[p]  *)
(* with its own writes on top.  A view passes a change on to the listener, *)
(* but not one from a document with writes that were not acknowledged to   *)
(* one whose writes all were: the backend is about to send that.           *)
(***************************************************************************)
Held_Synced(p, newOwn, newAcked) ==   \* mutant: has_committed_mutations not asked for
    own[p] # << >> /\ Len(newOwn) = newAcked
Held(p, newOwn, newAcked) ==
    own[p] # << >> /\ newAcked > 0 /\ Len(newOwn) = newAcked

Seen(p, newBase, newOwn, newAcked) ==
    IF Held(p, newOwn, newAcked) THEN seen[p] ELSE Overlay(newBase, newOwn)

\* The listener holds the controller weakly; tasks hold it strongly.
Alive(p) ==
    \/ screen[p] \in {"game", "results", "leaving"}
    \/ \E d \in 0..ResultsSeconds : agenda[p][d] # << >>

\* What the listener of p is told, if there is one.
Told(p, doc) == IF Alive(p) /\ doc # seen[p] THEN <<doc>> ELSE << >>

\* p's view sees another document while its main queue holds the snapshots q.
See(p, doc, q) ==
    /\ seen' = [seen EXCEPT ![p] = doc]
    /\ cb' = [cb EXCEPT ![p] = q \o Told(p, doc)]

\* p's device issues the writes ws.
Send(p, ws, q) ==
    /\ Len(own[p]) + Len(ws) <= MaxQueue
    /\ own' = [own EXCEPT ![p] = @ \o ws]
    /\ See(p, Seen(p, base[p], own[p] \o ws, acked[p]), q)

-----------------------------------------------------------------------------
(***************************************************************************)
(* checkForWinner(game): v is the verdict on the moves of its argument,    *)
(* g the controller's own game, which is what it writes.                   *)
(***************************************************************************)
VerdictOf(p, doc) == Verdict(doc.moves[p], doc.moves[Opponent(p)])

\* The else branch belongs to mMove < oMove alone: a win takes it like a tie.
TakesElse(v) == v \in {"win", "tie"}

CheckedGame_KeepsWinner(g, v) ==   \* mutant: without self.game?.winner = nil
    IF TakesElse(v) THEN [g EXCEPT !.state = "finished"] ELSE g
CheckedGame(g, v) ==
    IF TakesElse(v) THEN [g EXCEPT !.state = "finished", !.winner = NoOne] ELSE g

CheckedWrites(g, v) ==
    IF TakesElse(v) THEN <<updateGameMoves([g EXCEPT !.state = "finished"])>> ELSE << >>

CheckedAgenda(ag, v) ==
    LET kicked == IF v \in {"win", "lose"} THEN After(ag, KickSeconds, Kick(v)) ELSE ag
    IN  IF TakesElse(v) THEN continueToResults(kicked) ELSE kicked

Judge(p, v) == judged' = [judged EXCEPT ![p] = IF v = "waiting" THEN @ ELSE @ \cup {v}]

(***************************************************************************)
(* updateGame(updatedGame), the listener of GameViewController.            *)
(***************************************************************************)
\* shouldEnableButtons: nothing asks whether p has picked already.
ShouldEnable_Always(p, updated) == TRUE   \* mutant
ShouldEnable_Once(p, updated) ==   \* mutant: a pick cannot be repeated
    updated.state = "inprogress" /\ taps[p] = << >>
ShouldEnable(p, updated) == updated.state = "inprogress"

\* finished without a winner: the opponent is taken to have left.
TakenAsForfeit_Never(updated, g) == FALSE   \* mutant
TakenAsForfeit(updated, g) == updated.state = "finished" /\ g.winner = NoOne
WinnerByForfeit_Other(p) == Opponent(p)   \* mutant: != for == in the filter
WinnerByForfeit(p) == p

UpdateGame(p) ==
    /\ cb[p] # << >>
    /\ Alive(p)
    /\ Len(agenda[p][ResultsSeconds]) < MaxDue
    /\ LET updated == Head(cb[p])
           v == VerdictOf(p, updated)
           animated == IF v = "waiting" THEN agenda[p] ELSE After(agenda[p], RecheckSeconds, Check(v))
           checked == CheckedGame(updated, v)
           left == TakenAsForfeit(updated, checked)
       IN  /\ enabled' = [enabled EXCEPT ![p] = ShouldEnable(p, updated)]
           /\ game' = [game EXCEPT ![p] =
                  IF left THEN [checked EXCEPT !.winner = WinnerByForfeit(p)] ELSE checked]
           /\ agenda' = [agenda EXCEPT ![p] =
                  IF left THEN continueToResults(CheckedAgenda(animated, v))
                          ELSE CheckedAgenda(animated, v)]
           /\ Send(p, CheckedWrites(updated, v), Tail(cb[p]))
           /\ Judge(p, v)
    /\ UNCHANGED <<versions, network, screen, alert, shown, taps, cut>>

\* The controller is gone: the listener, which nothing removes, does nothing.
IgnoreSnapshot(p) ==
    /\ cb[p] # << >>
    /\ ~Alive(p)
    /\ cb' = [cb EXCEPT ![p] = Tail(@)]
    /\ UNCHANGED <<versions, network, own, seen, device, history>>

-----------------------------------------------------------------------------
(***************************************************************************)
(* The tasks put off, when they are due.                                   *)
(***************************************************************************)
Due(p, kind) == agenda[p][0] # << >> /\ Head(agenda[p][0]).kind = kind

Rest(p) == [agenda[p] EXCEPT ![0] = Tail(@)]

\* animateMoves: the hands are back on the board, check once more.
RunCheck(p, finished) ==
    /\ Due(p, "check")
    /\ LET v == IF finished THEN Head(agenda[p][0]).verdict ELSE "waiting"
       IN  /\ game' = [game EXCEPT ![p] = CheckedGame(@, v)]
           /\ agenda' = [agenda EXCEPT ![p] = CheckedAgenda(Rest(p), v)]
           /\ Send(p, CheckedWrites(game[p], v), cb[p])
           /\ Judge(p, v)
    /\ cut' = (cut \/ ~finished)
    /\ UNCHANGED <<versions, network, screen, alert, enabled, shown, taps>>

\* animateFinalMoves: my hand has kicked (win) or the opponent's has (lose).
MyHandKicked_Always(kick) == TRUE   \* mutant: animatingImageView not compared
MyHandKicked(kick) == kick.verdict = "win"

RunKick(p, finished) ==
    /\ Due(p, "kick")
    /\ agenda' = [agenda EXCEPT ![p] =
           CASE ~finished -> Rest(p)
             [] finished /\ MyHandKicked(Head(agenda[p][0])) ->
                    After(Rest(p), SetWinnerSeconds, SetWinnerTask)
             [] OTHER -> continueToResults(Rest(p))]
    /\ cut' = (cut \/ ~finished)
    /\ UNCHANGED <<versions, network, own, seen, cb, screen, alert, game, enabled, shown, taps, judged>>

\* setWinner: the local user is the winner.
WonGame(p) == [game[p] EXCEPT !.winner = p, !.state = "finished"]

RunSetWinner(p) ==
    /\ Due(p, "setWinner")
    /\ game' = [game EXCEPT ![p] = WonGame(p)]
    /\ agenda' = [agenda EXCEPT ![p] = continueToResults(Rest(p))]
    /\ Send(p, <<updateGameMoves(WonGame(p))>>, cb[p])
    /\ UNCHANGED <<versions, network, screen, alert, enabled, shown, history>>

\* showWinnerLooserInfo: a game without a winner is a draw.
Announced(g) == IF g.winner = NoOne THEN "draw" ELSE g.winner

\* continueToResults: present does nothing when something is already presented.
RunResults(p) ==
    /\ Due(p, "results")
    /\ agenda' = [agenda EXCEPT ![p] = Rest(p)]
    /\ IF screen[p] = "game" /\ ~alert[p]
       THEN /\ screen' = [screen EXCEPT ![p] = "results"]
            /\ shown' = [shown EXCEPT ![p] = Announced(game[p])]
       ELSE UNCHANGED <<screen, shown>>
    /\ UNCHANGED <<versions, network, own, seen, cb, alert, game, enabled, history>>

\* A second passes once both main queues have nothing left to do.
Tick ==
    /\ \A p \in Players : cb[p] = << >> /\ agenda[p][0] = << >>
    /\ Prompt => \A p \in Players : own[p] = << >> /\ feed[p] = << >>
    /\ \E p \in Players : agenda[p] # EmptyAgenda \/ screen[p] = "leaving"
    /\ agenda' = [p \in Players |-> OneSecondLater(agenda[p])]
    /\ screen' = [p \in Players |-> IF screen[p] = "leaving" THEN "gone" ELSE screen[p]]
    /\ UNCHANGED <<versions, network, own, seen, cb, alert, game, enabled, shown, history>>

-----------------------------------------------------------------------------
(***************************************************************************)
(* What the players do.                                                    *)
(***************************************************************************)
\* LoadingView's listener found the document: enterGame(game, true), viewDidLoad.
Join ==
    LET p == Requester
        newGame == [base[p] EXCEPT !.state = "inprogress"]
        ws == <<updateGameStatus("inprogress")>>
        doc == Overlay(base[p], own[p] \o ws)
    IN  /\ screen[p] = "loading"
        /\ base[p].state = "starting"
        /\ screen' = [screen EXCEPT ![p] = "game"]
        /\ game' = [game EXCEPT ![p] = newGame]
        /\ enabled' = [enabled EXCEPT ![p] = TRUE]
        /\ Len(own[p]) < MaxQueue
        /\ own' = [own EXCEPT ![p] = @ \o ws]
        /\ seen' = [seen EXCEPT ![p] = doc]
        /\ cb' = [cb EXCEPT ![p] = <<doc>>]
        /\ UNCHANGED <<versions, network, alert, agenda, shown, history>>

\* onRock, onPaper, onScissors, onRandom: pickedMove(move).
PickedGame_OtherId(p, m) == [game[p] EXCEPT !.moves[Opponent(p)] = m]   \* mutant
PickedGame(p, m) == [game[p] EXCEPT !.moves[p] = m]

Pick(p, m) ==
    /\ screen[p] = "game" /\ ~alert[p]
    /\ enabled[p]
    /\ Len(taps[p]) < MaxTaps
    /\ Send(p, <<updateGameMoves(PickedGame(p, m))>>, cb[p])
    /\ enabled' = [enabled EXCEPT ![p] = FALSE]
    /\ taps' = [taps EXCEPT ![p] = Append(@, m)]
    /\ UNCHANGED <<versions, network, screen, alert, game, agenda, shown, judged, cut>>

\* onClose.
OpenAlert(p) ==
    /\ p \in Leavers
    /\ screen[p] = "game" /\ ~alert[p]
    /\ alert' = [alert EXCEPT ![p] = TRUE]
    /\ UNCHANGED <<versions, network, own, seen, cb, screen, game, enabled, agenda, shown, history>>

CancelAlert(p) ==
    /\ alert[p]
    /\ alert' = [alert EXCEPT ![p] = FALSE]
    /\ UNCHANGED <<versions, network, own, seen, cb, screen, game, enabled, agenda, shown, history>>

\* showAlertForExit: the Exit action.
Exit(p) ==
    /\ alert[p]
    /\ alert' = [alert EXCEPT ![p] = FALSE]
    /\ screen' = [screen EXCEPT ![p] = "leaving"]
    /\ Send(p, <<updateGameStatus("finished")>>, cb[p])
    /\ UNCHANGED <<versions, network, game, enabled, agenda, shown, history>>

\* ResultViewController.onHome.
Home(p) ==
    /\ screen[p] = "results"
    /\ screen' = [screen EXCEPT ![p] = "leaving"]
    /\ UNCHANGED <<versions, network, own, seen, cb, alert, game, enabled, agenda, shown, history>>

\* The app is terminated.  Firestore keeps its writes on disk, and sends those that
\* were not acknowledged again when the app is started the next time.
OnlyAcknowledged_None(p) == << >>   \* mutant
OnlyAcknowledged(p) == SubSeq(at[p], 1, acked[p])

Kill(p) ==
    /\ p \in Killable
    /\ screen[p] # "gone"
    /\ screen' = [screen EXCEPT ![p] = "gone"]
    /\ alert' = [alert EXCEPT ![p] = FALSE]
    /\ cb' = [cb EXCEPT ![p] = << >>]
    /\ agenda' = [agenda EXCEPT ![p] = EmptyAgenda]
    /\ at' = [at EXCEPT ![p] = OnlyAcknowledged(p)]
    /\ UNCHANGED <<versions, server, base, feed, acked, breaks, own, seen, game, enabled, shown, history>>

-----------------------------------------------------------------------------
(***************************************************************************)
(* Firestore: what DocumentSync says of a client, for two of them.         *)
(* Acknowledgements and versions reach a device on different streams.      *)
(***************************************************************************)
\* The next write of p reaches the backend.
Commit(p) ==
    LET n == Len(at[p]) + 1
        doc == Merge(server, own[p][n])
    IN  /\ n <= Len(own[p])
        /\ doc # server => versions < MaxVersions /\ \A q \in Players : Len(feed[q]) < MaxLag
        /\ versions' = IF doc = server THEN versions ELSE versions + 1
        /\ server' = doc
        /\ feed' = IF doc = server THEN feed ELSE [q \in Players |-> Append(feed[q], doc)]
        /\ at' = [at EXCEPT ![p] = Append(@, Len(feed'[p]))]
        /\ UNCHANGED <<base, acked, breaks, own, seen, cb, device, history>>

\* The first write of p that is not acknowledged is.  What the device shows without
\* it may be as new as its commit: then it is forgotten, be it in there or not (a
\* write that changed nothing is committed in the version there was).  Until base[p]
\* contains it, it stays on top of base[p] otherwise.
Shown_Base(p) == 0   \* mutant: compared with the version sent, not with the cached one
Shown(p) == IF acked[p] = 0 THEN 0 ELSE at[p][acked[p]]
Without(s, i) == SubSeq(s, 1, i - 1) \o SubSeq(s, i + 1, Len(s))

Ack(p) ==
    LET n == acked[p] + 1
        newOwn == Without(own[p], n)
    IN  /\ n <= Len(at[p])
        /\ IF at[p][n] <= Shown(p)
           THEN /\ own' = [own EXCEPT ![p] = newOwn]
                /\ at' = [at EXCEPT ![p] = Without(@, n)]
                /\ See(p, Seen(p, base[p], newOwn, acked[p]), cb[p])
                /\ UNCHANGED acked
           ELSE /\ acked' = [acked EXCEPT ![p] = n]
                /\ UNCHANGED <<own, at, seen, cb>>
        /\ UNCHANGED <<versions, server, base, feed, breaks, device, history>>

\* p's device is sent a version, and may have missed the k - 1 before it.  It
\* ignores one that is older than a write acknowledged to it.
Watch(p, k) ==
    LET newBase == feed[p][k]
        newOwn == SubSeq(own[p], acked[p] + 1, Len(own[p]))
        inBase == SubSeq(at[p], acked[p] + 1, Len(at[p]))
    IN  /\ Shown(p) <= k
        /\ base' = [base EXCEPT ![p] = newBase]
        /\ own' = [own EXCEPT ![p] = newOwn]
        /\ at' = [at EXCEPT ![p] =
               [i \in DOMAIN inBase |-> IF inBase[i] <= k THEN 0 ELSE inBase[i] - k]]
        /\ acked' = [acked EXCEPT ![p] = 0]
        /\ feed' = [feed EXCEPT ![p] = SubSeq(@, k + 1, Len(@))]
        /\ See(p, Seen(p, newBase, newOwn, 0), cb[p])
        /\ UNCHANGED <<versions, server, breaks, device, history>>

\* The write stream of p breaks before an acknowledgement arrives.  The write is
\* sent again on the next one, and committed again.
Break(p) ==
    /\ breaks < MaxBreaks
    /\ acked[p] < Len(at[p])
    /\ breaks' = breaks + 1
    /\ at' = [at EXCEPT ![p] = OnlyAcknowledged(p)]
    /\ UNCHANGED <<versions, server, base, feed, acked, own, seen, cb, device, history>>

-----------------------------------------------------------------------------
Main(p) ==
    \/ UpdateGame(p)
    \/ IgnoreSnapshot(p)
    \/ \E finished \in IF Interruptible THEN BOOLEAN ELSE {TRUE} : RunCheck(p, finished) \/ RunKick(p, finished)
    \/ RunSetWinner(p)
    \/ RunResults(p)

User(p) ==
    \/ \E m \in Choices(p) : Pick(p, m)
    \/ OpenAlert(p)
    \/ CancelAlert(p)
    \/ Exit(p)
    \/ Home(p)
    \/ Kill(p)

Firestore(p) ==
    \/ Commit(p)
    \/ Ack(p)
    \/ \E k \in 1..Len(feed[p]) : Watch(p, k)

Next ==
    \/ Tick
    \/ Join
    \/ \E p \in Players : Main(p) \/ User(p) \/ Firestore(p) \/ Break(p)

Spec == Init /\ [][Next]_vars

\* The main queues run, time passes and Firestore delivers, as long as the apps
\* are there to run.  Nothing is asked of the players.
Fairness ==
    /\ WF_vars(Tick)
    /\ WF_vars(Join)
    /\ \A p \in Players : WF_vars(Main(p)) /\ WF_vars(Firestore(p))

FairSpec == Spec /\ Fairness

-----------------------------------------------------------------------------
(***************************************************************************)
(* Properties of every match.                                              *)
(***************************************************************************)
Picked(p) == {taps[p][i] : i \in DOMAIN taps[p]}

\* Devices write each other's moves back as they last saw them (pickedMove,
\* checkForWinner, setWinner).  Still a move never appears in the document or on
\* a device that the player it stands for did not pick.
MoveAuthentic ==
    \A p \in Players :
        /\ server.moves[p] \in Picked(p) \cup {"idle"}
        /\ \A q \in Players : game[q].moves[p] \in Picked(p) \cup {"idle"}

Earned(p) == judged[p] \cap {"win", "tie"} # {}

\* A device names itself winner in memory whenever the opponent seems to have
\* left (updateGame).  The document names it only if it has judged the two moves
\* itself and did not lose: a forfeit is never written down.
WinnerEarned == \A p \in Players : server.winner = p => Earned(p)

\* ResultViewController announces the opponent's victory only when the opponent's
\* device has judged the moves: no exit, kill or delay makes a defeat.
DefeatEarned == \A p \in Players : shown[Opponent(p)] = p => Earned(p)

\* Once the match has started, no stale whole-game write of either device
\* (updateGameMoves sends the state it last saw) sends it back to "starting",
\* where every LoadingView of the two players would find it again.
NeverRestarted == [][server.state # "starting" => server'.state # "starting"]_vars

\* The view withholds a change until the backend confirms it.  Nothing is withheld
\* for good: once the backend has sent all a device wrote, its listener was told
\* what the backend has sent last.
ListenerCaughtUp == \A p \in Players : own[p] = << >> => seen[p] = base[p]

(***************************************************************************)
(* The inductive invariant behind the properties above.  Wherever a copy   *)
(* of the document is kept, sent or queued it is sound; only the local game*)
(* of a device may name that device winner unearned, and then its buttons  *)
(* are disabled, so that nothing it writes is built from that game.        *)
(***************************************************************************)
SoundDocs(picked, earned) ==
    {d \in Game : \A p \in Players : /\ d.moves[p] \in picked[p] \cup {"idle"}
                                     /\ d.winner = p => p \in earned}
SoundWrites(picked, earned) ==
    [whole: BOOLEAN, doc: {d \in SoundDocs(picked, earned) : d.state # "starting"}]

\* A hand that has kicked and a setWinner are there after a win only, and a second
\* check after the first one, which acted on the same verdict.
SoundTasks(verdicts) ==
    {t \in Task :
        /\ t.kind = "setWinner" \/ (t.kind = "kick" /\ t.verdict = "win") => "win" \in verdicts
        /\ t.kind = "check" => t.verdict \in verdicts}
SoundAgenda(verdicts) == [0..ResultsSeconds -> Seq(SoundTasks(verdicts))]

PickedBy == [p \in Players |-> Picked(p)]
EarnedBy == {p \in Players : Earned(p)}

QueuesSound(picked, earned) ==
    /\ server \in SoundDocs(picked, earned)
    /\ base \in [Players -> SoundDocs(picked, earned)]
    /\ feed \in [Players -> Seq(SoundDocs(picked, earned))]
    /\ own \in [Players -> Seq(SoundWrites(picked, earned))]
    /\ cb \in [Players -> Seq(SoundDocs(picked, earned))]

DevicesTyped ==
    /\ screen \in [Players -> Screen]
    /\ alert \in [Players -> BOOLEAN]
    /\ game \in [Players -> Game]
    /\ enabled \in [Players -> BOOLEAN]
    /\ shown \in [Players -> Players \cup {"draw", "nothing"}]

HistoryTyped ==
    /\ versions \in 0..MaxVersions
    /\ taps \in [Players -> Seq(PickSet)]
    /\ judged \in [Players -> SUBSET {"win", "lose", "tie"}]

SoundGame(p, g, buttons, picked, earned) ==
    /\ \A q \in Players : g.moves[q] \in picked[q] \cup {"idle"}
    /\ \A q \in Players : g.winner = q => q \in earned \/ (q = p /\ ~buttons)
    /\ buttons => g.state # "starting"

GamesSound == \A p \in Players : SoundGame(p, game[p], enabled[p], PickedBy, EarnedBy)

AgendasSound ==
    /\ agenda \in [Players -> Agenda]
    /\ \A p \in Players : agenda[p] \in SoundAgenda(judged[p])

ShownSound == \A p \in Players : shown[p] \in Players \ {p} => shown[p] \in EarnedBy

MatchSound ==
    /\ QueuesSound(PickedBy, EarnedBy)
    /\ DevicesTyped
    /\ HistoryTyped
    /\ GamesSound
    /\ AgendasSound
    /\ ShownSound

\* Only a write that is there is committed, and only a committed one acknowledged.
NetworkSound ==
    /\ at \in [Players -> Seq(Nat)]
    /\ acked \in [Players -> Nat]
    /\ breaks \in 0..MaxBreaks
    /\ cut \in BOOLEAN
    /\ \A p \in Players : acked[p] <= Len(at[p]) /\ Len(at[p]) <= Len(own[p])

\* A view shows what the device was sent with all its writes on top, unless it waits
\* for the version that contains them.
ViewsSound ==
    /\ seen \in [Players -> Game]
    /\ \A p \in Players :
           \/ seen[p] = Overlay(base[p], own[p])
           \/ own[p] # << >> /\ Len(own[p]) = acked[p]

\* A verdict is one on moves that were picked, if not on the last ones.
JudgedSound ==
    \A p \in Players : \A v \in judged[p] :
        \E m \in Picked(p), o \in Picked(Opponent(p)) : v = Verdict(m, o)

IndInv == MatchSound /\ NetworkSound /\ ViewsSound /\ JudgedSound

(***************************************************************************)
(* Properties of a match in which each player picks once and, except for   *)
(* ConsistentVerdicts, nobody leaves.                                      *)
(***************************************************************************)
\* The picks of a player are all the same move.
OneMoveEach == \A p \in Players : \A m, o \in Picked(p) : m = o

\* The two devices judge from different views of the document, and several
\* times.  A device never reaches two verdicts, and the two never both win or
\* both lose.
ConsistentVerdicts ==
    /\ \A p \in Players : Cardinality(judged[p]) <= 1
    /\ \A p \in Players : judged[p] # {} /\ judged[Opponent(p)] # {} =>
           \/ judged[p] = {"tie"} /\ judged[Opponent(p)] = {"tie"}
           \/ judged[p] = {"win"} /\ judged[Opponent(p)] = {"lose"}
           \/ judged[p] = {"lose"} /\ judged[Opponent(p)] = {"win"}

\* The winner's own device announces its victory, whatever late snapshots
\* replace its game between checkForWinner, setWinner and the results.
VictoryShown == \A p \in Players : judged[p] = {"win"} => shown[p] \in {"nothing", p}

\* A tie may be announced as a draw or, by the forfeit rule of updateGame, as a
\* victory of either player on his own device; never as a defeat.
TieNeverLost == \A p \in Players : judged[p] = {"tie"} => shown[p] # Opponent(p)

\* With a network faster than the delays of the animations, and unless one of
\* them is cut short, both devices announce the player who won on the moves.
SameResult ==
    \A p \in Players : ~cut /\ shown[p] # "nothing" =>
        \E w \in Players : shown[p] = w /\ "win" \in judged[w]

\* The document is the record of one round: it implements MatchRecord.
Record == INSTANCE MatchRecord WITH
    state <- server.state, moves <- server.moves, winner <- server.winner
RecordSpec == Record!Spec

\* What each device sees of it is what Firestore's library promises one device.
Contract(p) == INSTANCE DocumentSync WITH
    Docs <- Game, Writes <- Write, Merge <- Merge,
    base <- base[p], feed <- feed[p], own <- own[p], at <- at[p], acked <- acked[p]
ContractSpec ==
    /\ \A p \in Players : Contract(p)!Init
    /\ [][\A p \in Players : [Contract(p)!Next]_(Contract(p)!vars)]_vars

\* checkForWinner ends the match: if the document comes to hold both moves for
\* good, both devices reach the result screen.
BothMoved == \A p \in Players : server.moves[p] # "idle"
ResultsReached == \A p \in Players : <>[]BothMoved => []<>(shown[p] # "nothing")

\* Every snapshot makes a device check, and a check may write, and a write makes
\* snapshots.  The echo dies out: in the end nothing is queued, in flight or due.
Quiet ==
    \A p \in Players :
        own[p] = << >> /\ feed[p] = << >> /\ cb[p] = << >> /\ agenda[p] = EmptyAgenda
MatchQuiesces == <>[]Quiet

\* A pick can be wiped out by the opponent's concurrent whole-game write.  Then
\* the device offers the buttons again: the match does not wait for a move that
\* its player is not allowed to make.
ErasedPickOffered ==
    \A p \in Players :
        <>[](server.moves[p] = "idle" /\ server.state = "inprogress" /\ screen[p] = "game")
            => <>[]enabled[p]

(***************************************************************************)
(* What comments of the source promise and the code does not do.           *)
(***************************************************************************)
\* GameViewController.swift:206: "the other user will get listener for the game
\* with updated property", so the loser's device announces the winner.
LoserLearnsWinner ==
    \A p \in Players : judged[p] = {"lose"} => shown[p] \in {"nothing", Opponent(p)}

\* GameViewController.swift:251: "we need to update the oher player" on Exit, so
\* a device that stays on the game screen comes to see the game finished.
ExitReachesOpponent ==
    \A p \in Players :
        screen[p] = "leaving" /\ shown[p] = "nothing"
            ~> screen[Opponent(p)] # "game" \/ game[Opponent(p)].state = "finished"
=============================================================================
