--------------------------- MODULE GameInvitation ---------------------------
(***************************************************************************)
(* How two players come to share a match: invitations, the loading screen  *)
(* and the creation of the document games/<id> (HomeViewController,        *)
(* LoadingView, AppDelegate, DataStore+GameRequests, DataStore+Game).      *)
(*                                                                         *)
(* Every call to Firestore is asynchronous: a chain of calls goes on with  *)
(* what it read while everything it read may change.  One action is the    *)
(* moment Firestore serves a call, with the work of its completion up to   *)
(* the next call; where the completion of a WRITE does work of its own it  *)
(* is an action apart, since others see the write before it runs.  Writes  *)
(* of the state of a game wait in the device's queue (writes) before they  *)
(* reach the backend, and are applied there to what it has become by then. *)
(***************************************************************************)
EXTENDS Naturals, Sequences, FiniteSets

CONSTANTS
    Users,
    Inviters,     \* users who tap "start" on another user
    Killable,     \* users whose app may be terminated and started again
    DoubleTaps,   \* may Accept be tapped again while its calls are under way?
    Failures,     \* may a call to Firestore fail?
    MaxAsks,      \* bound: taps on "start", of all users
    MaxTaps,      \* bound: taps on Accept of one user whose calls are under way
    MaxWrites,    \* bound: writes of a device still waiting when it moves or wins
    MaxRequests,  \* bound: invitations stored
    MaxGames      \* bound: games created

ASSUME UsersAssumption == Users # {} /\ Inviters \subseteq Users /\ Killable \subseteq Users
ASSUME FlagsAssumption == DoubleTaps \in BOOLEAN /\ Failures \in BOOLEAN
ASSUME LimitsAssumption ==
    /\ MaxAsks \in Nat /\ MaxTaps \in Nat /\ MaxWrites \in Nat
    /\ MaxRequests \in Nat /\ MaxGames \in Nat

RequestId == 1..MaxRequests
GameId == 1..MaxGames
Tap == 1..MaxTaps
Nothing == 0   \* nil, where an identifier may be missing

GameRequest == [id: RequestId, from: Users, to: Users]

\* The document of a game; "none" where there is none.  "of" is the invitation
\* it was created for, which the document itself does not say.
GameDoc == [acceptor: Users, requester: Users,
            state: {"none", "starting", "inprogress", "finished"},
            of: RequestId \cup {Nothing}]

\* requestGameWith: the calls it chains, in their order.
Asking == [tap: 1..MaxAsks, to: Users, step: {"existing", "ongoing", "store", "stored"},
           id: RequestId \cup {Nothing}]
\* The Accept button: look the invitation up, fetch the user and create the game.
\* Each tap has a chain of its own.
Accepting == [tap: Tap, request: GameRequest, step: {"lookup", "create", "created"},
              game: GameId \cup {Nothing}]

\* updateGameStatus, and the state in the whole game that updateGameMoves writes.
StateWrite == [game: GameId, state: {"inprogress", "finished"}]

\* The loading views of a device, each known by its invitation.
Loading == [view: RequestId \cup {Nothing},         \* HomeViewController.loadingView
            visible: BOOLEAN,                       \* has it a superview?
            counting: SUBSET RequestId,             \* views whose 20 s are running
            listening: SUBSET RequestId,            \* views with a listener for games
            gameListener: RequestId \cup {Nothing}] \* the one DataStore could remove

VARIABLES
    requests,   \* the documents of gameRequests
    games,      \* the documents of games
    pushes,     \* notifications of invitations, not delivered yet
    writes,     \* writes[u]: states written by u's device that the backend does not have yet
    asking,     \* asking[u]: chains of calls begun by requestGameWith
    hidden,     \* hidden[u]: users whose "start" button is hidden
    loading,    \* loading[u]: the loading views of u's device
    alert,      \* alert[u]: is "already in game" presented?
    playing,    \* playing[u]: the game whose screen Home presents
    banners,    \* banners[u]: the messages "... invited you", the first one shown
    accepting,  \* accepting[u]: chains of calls begun by Accept
    asked,      \* history: every invitation ever stored
    asks,       \* history: taps on "start"
    entered,    \* history: games enterGame was called with
    through     \* history: <<v, g>> when loading view v found game g

store == <<requests, games, pushes, writes>>
screens == <<hidden, loading, alert, playing, banners>>
chains == <<asking, accepting>>
records == <<asked, asks, entered, through>>
vars == <<store, screens, chains, records>>

TypeOK ==
    /\ requests \subseteq GameRequest /\ asked \subseteq GameRequest /\ pushes \subseteq GameRequest
    /\ games \in [GameId -> GameDoc]
    /\ writes \in [Users -> Seq(StateWrite)]
    /\ asking \in [Users -> SUBSET Asking]
    /\ hidden \in [Users -> SUBSET Users]
    /\ loading \in [Users -> Loading]
    /\ alert \in [Users -> BOOLEAN]
    /\ playing \in [Users -> GameId \cup {Nothing}]
    /\ banners \in [Users -> Seq(GameRequest)]
    /\ accepting \in [Users -> SUBSET Accepting]
    /\ asks \in 0..MaxAsks
    /\ entered \in [Users -> SUBSET GameId]
    /\ through \subseteq RequestId \X GameId

NoLoading == [view |-> Nothing, visible |-> FALSE, counting |-> {}, listening |-> {},
              gameListener |-> Nothing]

NoGame ==
    LET u == CHOOSE u \in Users : TRUE
    IN  [acceptor |-> u, requester |-> u, state |-> "none", of |-> Nothing]

Init ==
    /\ requests = {} /\ pushes = {} /\ asked = {} /\ through = {}
    /\ games = [g \in GameId |-> NoGame]
    /\ writes = [u \in Users |-> << >>]
    /\ asking = [u \in Users |-> {}]
    /\ hidden = [u \in Users |-> {}]
    /\ loading = [u \in Users |-> NoLoading]
    /\ alert = [u \in Users |-> FALSE]
    /\ playing = [u \in Users |-> Nothing]
    /\ banners = [u \in Users |-> << >>]
    /\ accepting = [u \in Users |-> {}]
    /\ asks = 0
    /\ entered = [u \in Users |-> {}]

-----------------------------------------------------------------------------
(***************************************************************************)
(* Queries.                                                                *)
(***************************************************************************)
\* checkForExtistingGameRequest(toUser, fromUser).
Existing(from, to) == \E r \in requests : r.from = from /\ r.to = to

PlayersOf(g) == {games[g].acceptor, games[g].requester}

\* The state of g as u's device is answered: its own writes come over the backend's.
SeenState(u, g) ==
    LET own == {i \in DOMAIN writes[u] : writes[u][i].game = g}
    IN  IF own = {} THEN games[g].state
        ELSE writes[u][CHOOSE i \in own : \A j \in own : j <= i].state

\* checkForOngoingGameWith(userId) on u's device: state isNotEqualTo finished.
Ongoing(u, o) ==
    \E g \in GameId : SeenState(u, g) \in {"starting", "inprogress"} /\ o \in PlayersOf(g)

\* setGameListener's query: games of u that are starting.
Starting(u) == {g \in GameId : SeenState(u, g) = "starting" /\ u \in PlayersOf(g)}

-----------------------------------------------------------------------------
(***************************************************************************)
(* Writes of the state of a game.                                          *)
(***************************************************************************)
StateWrites(g, s, n) == [i \in 1..n |-> [game |-> g, state |-> s]]
Queue(u, ws) == writes' = [writes EXCEPT ![u] = @ \o ws]

\* The oldest write of u's device is applied, whatever the state is by now.
Committed(u) ==
    /\ writes[u] # << >>
    /\ LET w == Head(writes[u])
       IN  games' = [games EXCEPT ![w.game].state = w.state]
    /\ writes' = [writes EXCEPT ![u] = Tail(@)]
    /\ UNCHANGED <<requests, pushes, screens, chains, records>>

\* The backend refuses it: nobody is told.
WriteRefused(u) ==
    /\ Failures
    /\ writes[u] # << >>
    /\ writes' = [writes EXCEPT ![u] = Tail(@)]
    /\ UNCHANGED <<requests, games, pushes, screens, chains, records>>

-----------------------------------------------------------------------------
(***************************************************************************)
(* Screens.  Home presents one thing at a time: present and performSegue   *)
(* do nothing while something is presented.                                *)
(***************************************************************************)
Free(u) == playing[u] = Nothing /\ ~alert[u]

removeGameListener(l) ==
    [l EXCEPT !.listening = @ \ {l.gameListener}, !.gameListener = Nothing]

\* enterGame presents the game; the caller says what becomes of loading[u].
Enter(u, g) ==
    /\ playing' = [playing EXCEPT ![u] = IF Free(u) THEN g ELSE @]
    /\ entered' = [entered EXCEPT ![u] = @ \cup {g}]

-----------------------------------------------------------------------------
(***************************************************************************)
(* Inviting.                                                               *)
(***************************************************************************)
\* UserTableViewCell.onSart, requestGameWith.  A message dims the screen below
\* it, the loading view covers the table.
Ask(u, o) ==
    /\ u \in Inviters
    /\ Free(u) /\ ~loading[u].visible /\ banners[u] = << >>
    /\ o \notin hidden[u]
    /\ asks < MaxAsks
    /\ asks' = asks + 1
    /\ hidden' = [hidden EXCEPT ![u] = @ \cup {o}]
    /\ asking' = [asking EXCEPT ![u] =
           @ \cup {[tap |-> asks + 1, to |-> o, step |-> "existing", id |-> Nothing]}]
    /\ UNCHANGED <<store, loading, alert, playing, banners, accepting, asked, entered, through>>

Drop(u, c) == asking' = [asking EXCEPT ![u] = @ \ {c}]
Step(u, c, d) == asking' = [asking EXCEPT ![u] = (@ \ {c}) \cup {d}]

\* The completion of checkForExtistingGameRequest.
ExistingChecked(u, c) ==
    /\ c.step = "existing"
    /\ IF Existing(u, c.to) THEN Drop(u, c) ELSE Step(u, c, [c EXCEPT !.step = "ongoing"])
    /\ UNCHANGED <<store, screens, accepting, records>>

\* The completion of checkForOngoingGameWith.
OngoingChecked(u, c) ==
    /\ c.step = "ongoing"
    /\ \/ /\ ~Ongoing(u, c.to)
          /\ Step(u, c, [c EXCEPT !.step = "store"])
          /\ UNCHANGED alert
       \/ /\ Ongoing(u, c.to) \/ Failures
          /\ Drop(u, c)
          /\ alert' = [alert EXCEPT ![u] = @ \/ Free(u)]
    /\ UNCHANGED <<store, hidden, loading, playing, banners, accepting, records>>

\* A call that fails ends its chain (the one for ongoing games: see above).
AskFails(u, c) ==
    /\ Failures
    /\ c.step \in {"existing", "store"}
    /\ Drop(u, c)
    /\ UNCHANGED <<store, screens, accepting, records>>

\* startGameRequest: the backend stores the invitation, and notifies the invited.
RequestStored(u, c) ==
    LET r == [id |-> Cardinality(asked) + 1, from |-> u, to |-> c.to]
    IN  /\ c.step = "store"
        /\ Cardinality(asked) < MaxRequests
        /\ requests' = requests \cup {r}
        /\ asked' = asked \cup {r}
        /\ pushes' = pushes \cup {r}
        /\ Step(u, c, [c EXCEPT !.step = "stored", !.id = r.id])
        /\ UNCHANGED <<games, writes, screens, accepting, asks, entered, through>>

\* setupLoadingView, willMove(toSuperview:): a view there already loses its
\* superview, not its timers nor its listener.
ShowLoading(u, c) ==
    /\ c.step = "stored"
    /\ Drop(u, c)
    /\ loading' = [loading EXCEPT ![u] =
           [view |-> c.id, visible |-> TRUE, counting |-> @.counting \cup {c.id},
            listening |-> @.listening \cup {c.id}, gameListener |-> c.id]]
    /\ hidden' = [hidden EXCEPT ![u] = {}]
    /\ UNCHANGED <<store, alert, playing, banners, accepting, records>>

\* deleteGameRequest may fail: nobody is told, and the invitation stays.
Undeleted == IF Failures THEN {requests} ELSE {}

\* onClose, by timerTick after 20 s or by the button after 15 s: the listener stays.
Closed_WithListener(l, v) ==   \* mutant: onClose calls removeGameListener
    [l EXCEPT !.counting = @ \ {v}, !.visible = @ /\ l.view # v,
              !.listening = @ \ {l.gameListener}, !.gameListener = Nothing]
Closed_StaysVisible(l, v) == [l EXCEPT !.counting = @ \ {v}]   \* mutant: no removeFromSuperview
Closed(l, v) == [l EXCEPT !.counting = @ \ {v}, !.visible = @ /\ l.view # v]

Close(u, v) ==
    /\ v \in loading[u].counting
    /\ loading' = [loading EXCEPT ![u] = Closed(@, v)]
    /\ requests' \in {{r \in requests : r.id # v}} \cup Undeleted
    /\ UNCHANGED <<games, pushes, writes, hidden, alert, playing, banners, chains, records>>

\* A listener holds its view weakly: Home holds the last one, a timer that runs its own.
Listeners(l) == {v \in l.listening : v = l.view \/ v \in l.counting}

\* All listeners of the query are called, in the order of their registration; the
\* first to call enterGame silences the one DataStore knows, which is the last.
Called(l) ==
    IF Listeners(l) \ {l.gameListener} # {} THEN Listeners(l) \ {l.gameListener} ELSE Listeners(l)

\* documents[0].
FirstStarting(u, g) == g \in Starting(u) /\ \A h \in Starting(u) : g <= h

\* LoadingView's listener: gameAccepted, enterGame(game, true), removeTimers.
TakenDown(l) ==
    [removeGameListener(l) EXCEPT !.counting = @ \ Called(l), !.visible = @ /\ l.view \notin Called(l)]

\* A snapshot has g among the starting games; each listener called writes "inprogress".
GameFound(u) ==
    /\ Listeners(loading[u]) # {}
    /\ \E g \in GameId :
           /\ FirstStarting(u, g)
           /\ Queue(u, StateWrites(g, "inprogress", Cardinality(Called(loading[u]))))
           /\ Enter(u, g)
           /\ through' = through \cup (Called(loading[u]) \X {g})
    /\ loading' = [loading EXCEPT ![u] = TakenDown(@)]
    /\ UNCHANGED <<requests, games, pushes, hidden, alert, banners, chains, asked, asks>>

-----------------------------------------------------------------------------
(***************************************************************************)
(* Being invited.                                                          *)
(***************************************************************************)
\* willPresent, showInAppNotification.
Push(r) ==
    /\ r \in pushes
    /\ pushes' = pushes \ {r}
    /\ banners' = [banners EXCEPT ![r.to] = Append(@, r)]
    /\ UNCHANGED <<requests, games, writes, hidden, loading, alert, playing, chains, records>>

\* The notification is lost, or comes while the app is not active: what
\* handlePushNotification keeps of it nothing ever uses.
PushUnseen(r) ==
    /\ r \in pushes
    /\ pushes' = pushes \ {r}
    /\ UNCHANGED <<requests, games, writes, screens, chains, records>>

Swipe(u) ==
    /\ banners[u] # << >>
    /\ banners' = [banners EXCEPT ![u] = Tail(@)]
    /\ UNCHANGED <<store, hidden, loading, alert, playing, chains, records>>

\* Which tap it is: the first number that no chain under way has.
NextTap(u, n) ==
    /\ \A c \in accepting[u] : c.tap # n
    /\ \A m \in 1..(n - 1) : \E c \in accepting[u] : c.tap = m

Accept(u) ==
    /\ banners[u] # << >>
    /\ DoubleTaps \/ \A c \in accepting[u] : c.request # Head(banners[u])
    /\ \E n \in Tap :
           /\ NextTap(u, n)
           /\ accepting' = [accepting EXCEPT ![u] = @ \cup
                  {[tap |-> n, request |-> Head(banners[u]), step |-> "lookup", game |-> Nothing]}]
    /\ UNCHANGED <<store, screens, asking, records>>

Accepted(u, c, D) == accepting' = [accepting EXCEPT ![u] = (@ \ {c}) \cup D]

\* getGameRequestWith, acceptRequest, getUserWith: an invitation that is gone is
\* decoded as nil, and nothing happens.
LookedUp_Unchecked(u, c) ==   \* mutant: the invitation is used as it came with the message
    /\ c.step = "lookup"
    /\ Accepted(u, c, {[c EXCEPT !.step = "create"]})
    /\ UNCHANGED <<store, screens, asking, records>>
LookedUp(u, c) ==
    /\ c.step = "lookup"
    /\ Accepted(u, c, IF c.request \in requests THEN {[c EXCEPT !.step = "create"]} ELSE {})
    /\ UNCHANGED <<store, screens, asking, records>>

\* createGame: the backend, and a listener of u's own device, have the game.
NewGame_Swapped(u, r) ==   \* mutant: the game is made for the invited user
    [acceptor |-> u, requester |-> r.to, state |-> "starting", of |-> r.id]
NewGame_Misspelt(u, r) ==   \* mutant: not one of the states of Game
    [acceptor |-> u, requester |-> r.from, state |-> "started", of |-> r.id]
NewGame(u, r) == [acceptor |-> u, requester |-> r.from, state |-> "starting", of |-> r.id]

GameCreated(u, c) ==
    /\ c.step = "create"
    /\ \E g \in GameId :
           /\ games[g].state = "none"
           /\ games' = [games EXCEPT ![g] = NewGame(u, c.request)]
           /\ Accepted(u, c, {[c EXCEPT !.step = "created", !.game = g]})
    /\ UNCHANGED <<requests, pushes, writes, screens, asking, records>>

\* The completion of createGame: deleteGameRequest, enterGame(game), SwiftMessages.hide.
Deleted_None(r) == requests   \* mutant: deleteGameRequest only in declineRequest
Deleted(r) == requests \ {r}

EnterCreated(u, c) ==
    /\ c.step = "created"
    /\ Accepted(u, c, {})
    /\ requests' \in {Deleted(c.request)} \cup Undeleted
    /\ loading' = [loading EXCEPT ![u] = removeGameListener(@)]
    /\ Enter(u, c.game)
    /\ banners' = [banners EXCEPT ![u] = IF @ = << >> THEN @ ELSE Tail(@)]
    /\ UNCHANGED <<games, pushes, writes, hidden, alert, asking, asked, asks, through>>

\* A read that fails ends the chain; so does createGame, which deletes the invitation.
AcceptFails(u, c) ==
    /\ Failures
    /\ c.step \in {"lookup", "create"}
    /\ Accepted(u, c, {})
    /\ \/ UNCHANGED requests
       \/ c.step = "create" /\ requests' = Deleted(c.request)
    /\ UNCHANGED <<games, pushes, writes, screens, asking, records>>

-----------------------------------------------------------------------------
(***************************************************************************)
(* The rest of the app, as far as invitations see it.                      *)
(***************************************************************************)
\* What a match (module GameMatch) writes of its state.  A move is the whole game as
\* the device has seen it, in progress; it is written over what the opponent does
\* meanwhile, an exit included.
Pick(u) ==
    /\ playing[u] # Nothing
    /\ SeenState(u, playing[u]) = "inprogress"
    /\ Len(writes[u]) < MaxWrites
    /\ Queue(u, StateWrites(playing[u], "inprogress", 1))
    /\ UNCHANGED <<requests, games, pushes, screens, chains, records>>

\* checkForWinner and setWinner, on the device that won, and on a tie.
Finish(u) ==
    /\ playing[u] # Nothing
    /\ SeenState(u, playing[u]) = "inprogress"
    /\ Len(writes[u]) < MaxWrites
    /\ Queue(u, StateWrites(playing[u], "finished", 1))
    /\ loading' = [loading EXCEPT ![u] = removeGameListener(@)]
    /\ UNCHANGED <<requests, games, pushes, hidden, alert, playing, banners, chains, records>>

\* Home appears again and reloads its table.
GoHome(u) ==
    /\ playing' = [playing EXCEPT ![u] = Nothing]
    /\ hidden' = [hidden EXCEPT ![u] = {}]

\* Exit, at any time.
Exit(u) ==
    /\ playing[u] # Nothing
    /\ Queue(u, StateWrites(playing[u], "finished", 1))
    /\ GoHome(u)
    /\ UNCHANGED <<requests, games, pushes, loading, alert, banners, chains, records>>

\* From the results of a match that has begun.  The forfeit rule of updateGame has
\* removed the listener for games, a defeat has not.
LeaveResults(u) ==
    /\ playing[u] # Nothing
    /\ SeenState(u, playing[u]) # "starting"
    /\ loading' \in {loading, [loading EXCEPT ![u] = removeGameListener(@)]}
    /\ GoHome(u)
    /\ UNCHANGED <<store, alert, banners, chains, records>>

DismissAlert(u) ==
    /\ alert[u]
    /\ alert' = [alert EXCEPT ![u] = FALSE]
    /\ UNCHANGED <<store, hidden, loading, playing, banners, chains, records>>

\* setUsersListener, getUsers: a user has changed, the cells are set up again.
ReloadTable(u) ==
    /\ hidden[u] # {}
    /\ hidden' = [hidden EXCEPT ![u] = {}]
    /\ UNCHANGED <<store, loading, alert, playing, banners, chains, records>>

\* The app is terminated and started again, at Home.  Firestore keeps the writes.
Kill(u) ==
    /\ u \in Killable
    /\ hidden' = [hidden EXCEPT ![u] = {}]
    /\ loading' = [loading EXCEPT ![u] = NoLoading]
    /\ alert' = [alert EXCEPT ![u] = FALSE]
    /\ playing' = [playing EXCEPT ![u] = Nothing]
    /\ banners' = [banners EXCEPT ![u] = << >>]
    /\ asking' = [asking EXCEPT ![u] = {}]
    /\ accepting' = [accepting EXCEPT ![u] = {}]
    /\ UNCHANGED <<store, records>>

-----------------------------------------------------------------------------
AskStep(u) ==
    \E c \in asking[u] :
        ExistingChecked(u, c) \/ OngoingChecked(u, c) \/ RequestStored(u, c) \/ ShowLoading(u, c)

\* The calls that Accept on the invitation v leads to.
AcceptStep(u, v) ==
    \E c \in accepting[u] :
        c.request.id = v /\ (LookedUp(u, c) \/ GameCreated(u, c) \/ EnterCreated(u, c))

Fail(u) == (\E c \in asking[u] : AskFails(u, c)) \/ (\E c \in accepting[u] : AcceptFails(u, c))

User(u) ==
    \/ \E o \in Users \ {u} : Ask(u, o)
    \/ Swipe(u)
    \/ Accept(u)
    \/ DismissAlert(u)
    \/ Pick(u) \/ Finish(u) \/ Exit(u) \/ LeaveResults(u)
    \/ Kill(u)

Next ==
    \/ \E u \in Users :
           \/ User(u) \/ AskStep(u) \/ Fail(u) \/ GameFound(u) \/ ReloadTable(u)
           \/ Committed(u) \/ WriteRefused(u)
           \/ \E v \in RequestId : Close(u, v) \/ AcceptStep(u, v)
    \/ \E r \in pushes : Push(r) \/ PushUnseen(r)

Spec == Init /\ [][Next]_vars

\* Firestore serves every call of every chain and commits every write, and the timers
\* and listeners of an app that is not terminated fire.  Nothing is asked of the users
\* nor of the notifications.
Fairness ==
    \A u \in Users :
        /\ WF_vars(AskStep(u)) /\ WF_vars(GameFound(u)) /\ WF_vars(Committed(u))
        /\ \A v \in RequestId : WF_vars(Close(u, v)) /\ WF_vars(AcceptStep(u, v))

FairSpec == Spec /\ Fairness

-----------------------------------------------------------------------------
(***************************************************************************)
(* Properties.                                                             *)
(***************************************************************************)
\* Whatever is tapped twice, withdrawn, lost or restarted: a match is only ever
\* created between a user who invited and the user he invited.
Consent ==
    \A g \in GameId : games[g].state # "none" =>
        \E r \in asked :
            r.id = games[g].of /\ r.from = games[g].requester /\ r.to = games[g].acceptor

\* Taps on Accept that have found their invitation, and will make a game of it.
Answers ==
    {a \in [tap: Tap, request: asked] :
        \E c \in accepting[a.request.to] :
            c.tap = a.tap /\ c.request = a.request /\ c.step = "create"}

\* Behind all chains, messages, loading views and late writes, invitations and games
\* are what Matchmaker says: each tap on Accept makes at most one game, of an
\* invitation that was still there after it; a game keeps its players and is not
\* "starting" again; and nobody invites himself.
Contract == INSTANCE Matchmaker WITH offered <- asked, open <- requests, answers <- Answers
MatchmakerSpec == Contract!Spec

\* What Consent rests on: invitations are numbered apart, and those on their way, in a
\* message or behind an Accept are ones that were stored, kept by the user they are to.
NumberedApart ==
    /\ IsFiniteSet(asked) /\ requests \subseteq asked /\ pushes \subseteq asked
    /\ \A r \in asked : r.id <= Cardinality(asked)
    /\ \A r, q \in asked : r.id = q.id => r = q

Invited(u) == {r \in asked : r.to = u}
HeldByInvited ==
    \A u \in Users : banners[u] \in Seq(Invited(u)) /\ \A c \in accepting[u] : c.request \in Invited(u)

\* A chain of calls is about another user, and knows what its last call stored.
ChainsKnow ==
    \A u \in Users :
        /\ \A c \in asking[u] : c.to # u /\ (c.step = "stored" => c.id \in RequestId)
        /\ \A c \in accepting[u] : IF c.step = "created" THEN c.game \in GameId ELSE c.game = Nothing

\* Home presents, a chain is about to enter, and writes are of games that were created.
GamesBegun ==
    \A u \in Users :
        /\ playing[u] # Nothing => games[playing[u]].state # "none"
        /\ \A c \in accepting[u] : c.step = "created" => games[c.game].state # "none"
        /\ \A i \in DOMAIN writes[u] : games[writes[u][i].game].state # "none"

\* The chains of Accept that are under way on a device are told apart by their taps.
TapsApart == \A u \in Users : \A c, d \in accepting[u] : c.tap = d.tap => c = d

ConsentInv == TypeOK /\ NumberedApart /\ HeldByInvited /\ ChainsKnow /\ Consent
InviteInv == ConsentInv /\ GamesBegun /\ TapsApart

\* The loading screen never stays: it is closed after 20 s or by a game.
LoadingEnds == \A u \in Users : []<>(~loading[u].visible)

\* An invitation blocks every later one between the two users, so it has to go:
\* answered, or withdrawn after 20 s.  It stays in one case only: its loading view
\* was taken down by a game created for another invitation.
TakenOver(v) == \E g \in GameId : <<v, g>> \in through /\ games[g].of # v
RequestsCleared ==
    \A v \in RequestId :
        []<>((\A r \in requests : r.id # v) \/ TakenOver(v))

\* A match that was created is found by the device of the user who invited, even
\* when his loading screen was closed before: the acceptor is not left waiting,
\* unless that user has entered another match.
GamesStart ==
    \A g \in GameId :
        []<>(games[g].state # "starting" \/ entered[games[g].requester] \ {g} # {})
=============================================================================
