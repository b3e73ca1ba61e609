# Rock, paper, scissors for two iPhones: a TLA+ model

The app lets two users play one round of rock, paper, scissors. There is no
server of its own: two devices read and write three collections of Firestore
documents (`users`, `gameRequests`, `games`), and everything that happens
between two players happens because one device writes a document and the other
is called back with it.

Two bodies of code are modelled. The first is the Swift app under
`src/iOSGame/iOSGame` (about 2300 lines). The second is the part of the vendored
Firestore client (`src/iOSGame/Pods/FirebaseFirestore/Firestore/core/src`, C++)
that the app stands on: how a write is kept, sent, acknowledged or sent again,
and how a listener comes to be told. The other pods (gRPC, BoringSSL, Abseil,
LevelDB, the rest of Firebase, SnapKit, SwiftMessages: some 600 thousand of the
640 thousand lines of C and C++ of the repository) are third-party infrastructure
below the interfaces the models use. The app has no tests.

## 1. Inventory

| part | state it keeps | operations | talks to |
|---|---|---|---|
| **Match** (`GameViewController`, `ResultViewController`, `DataStore+Game`) | the document `games/<id>` (state, both moves, winner); per device: `game`, button state, work put off with `asyncAfter` and animation completions, the screen presented | open, pick, `updateGame` on every snapshot, `checkForWinner`, `setWinner`, `continueToResults`, exit, home | the other device, through the document |
| **Moves** (`Models/Game.swift`) | none | `<`, `==`, the branches of `checkForWinner` | Match |
| **Invitations** (`HomeViewController`, `LoadingView`, `DataStore+GameRequests`, `AppDelegate`, `UserTableViewCell`) | documents of `gameRequests`; hidden Start buttons; loading views with two timers and a listener; in-app messages; chains of calls under way | invite, withdraw (20 s, or the button after 15 s), accept, create the game, enter it | Match (creates it), push service |
| **Session** (`SplashViewController`, `WelcomeViewController`, `DataStore.localUser`, `User`) | the anonymous account, `localUser`, `users/<uid>` | start, choose a name, sign in, save, receive a push token | Invitations (Home is where a session ends up) |
| **Firestore client, writing** (`RemoteStore`, `Stream`, `WriteStream`, `LocalStore`, `LevelDbMutationQueue`, `PatchMutation`) | mutation queue and document cache on disk; write pipeline; state, close count, idle timer and backoff of the stream; callbacks | write, open, handshake, answer, refusal, close, idle, network change, start | every part above that writes; the backend |
| **Firestore client, listening** (`RemoteStore`, `WatchChangeAggregator`, `OnlineStateTracker`, `LocalStore`, `View`) | targets with resume tokens in memory and on disk; pending changes and counts of answers; the stream; the online state and its timer; views in sync | listen, stop, open, every kind of watch message, snapshot, close, timeouts, start | every part above that listens; the backend |
| **Push outside the app** (`PushNotificationsManager`) | an invitation that is read and dropped | tap on a notification | nothing |
| **Request listener** (`setGameRequestListener`) | a registration | posts a notification nobody observes | nothing |
| Views, extensions, storyboard, other pods | layout, third party | | |

What makes it hard:

* **Concurrency without locks.** `updateGameMoves` writes a whole game built
  from the copy a device happens to have; Firestore merges it over what the
  other device wrote meanwhile.
* **Latency compensation.** A device is called back with its own writes at once
  and with the other's when they arrive; versions may be skipped, and an event may be held back
  until the backend repeats the document.
* **Two streams.** Acknowledgements and versions reach a device on different
  connections, in either order, and both may break. Answers carry no name: a write
  is matched by position, a listen by counting.
* **Time.** Verdicts and results wait 1, 2, 2.3 and 6 seconds, while snapshots
  arrive and replace the game the delayed work will read. Several copies of the
  same work are put off.
* **Chains of calls.** An invitation is two reads and a write, an acceptance two
  reads, a write and a delete; each step acts on what an earlier one read.
* **Crashes.** Nothing is cleaned up on termination, but Firestore keeps the
  writes not yet acknowledged and sends them (again) at the next start.

What makes each part correct:

* Match: the moves and the winner in the document are earned; the devices do not
  contradict each other; both reach the results; the writing stops.
* Invitations: only users who asked for and offered a match get one; an
  invitation does not stay; a created match is found; a loading screen ends.
* Session: the stored user is the one in use, a name stays usable by someone.
* Writing: every write takes effect or is refused, in order, is shown until then,
  and is not mistaken for another; the device ends up with the document as it is.
* Listening: messages of a listen that has ended are ignored and those of one that
  goes on are not; a view in sync shows exactly the results; every view gets there.

## 2. Modules

| module | models | extends / composes |
|---|---|---|
| `Moves` | `enum Moves`, the verdict | |
| `GameMatch` | one match: document, Firestore as both clients see it, both devices, the players | `Moves` |
| `MatchRecord` | abstract: what the document promises | `Moves`; implemented by `GameMatch` |
| `DocumentSync` | abstract: what the Firestore client promises a device about one document | implemented by `FirestoreClient`, and by each of the two clients in `GameMatch` |
| `FirestoreClient` | the client's write path | `INSTANCE DocumentSync` |
| `FirestoreWatch` | the client's listening side | |
| `GameMatchProofs`, `MatchRecordProofs`, `MatchResultProofs`, `FirestoreClientProofs`, `ClientContractProofs`, `FirestoreWatchProofs`, `UserSessionProofs`, `GameInvitationProofs` | theorems | the module they are about, `TLAPS` |
| `GameInvitation` | from the tap on Start to the match, for any users | `INSTANCE Matchmaker` |
| `Matchmaker` | abstract: which invitations can be answered, what becomes of a match | implemented by `GameInvitation` |
| `UserSession` | from the start of the app to Home | |
| `MC...` | instances for TLC; `MCMatchTables` also compares pure operators with references | |

`DocumentSync` is where the two bodies of code meet. It says, in eighty lines, what
a device may see of a document: the last version it was sent, under its own writes
that this version does not contain. `FirestoreClient` is proved to
implement it with streams, pipeline, queue and cache (`ClientKeepsContract`); `GameMatch` uses it in place
of the library, and is proved to use nothing more (`MatchKeepsContract`). So a match is
checked against what the library does, not against what its documentation says.

### GameMatch

| TLA+ | code |
|---|---|
| `server`, `Commit` | the document at the backend; `Merge` is `setData(merge: true)` (a `nil` winner is not encoded, so it does not erase one; both moves are always written) or `updateData` of the state |
| `base`, `feed`, `own`, `at`, `acked`, `Watch`, `Ack`, `Break` | one client (`DocumentSync`): last version received, versions on their way, its own writes not yet both acknowledged and contained, where each is committed, how many are acknowledged; a broken stream sends the others again. `Overlay` is a fold of `Merge` written without recursion; `MCMatchTables` compares the two |
| `seen`, `Held`, `See` | what the view last passed to the listener: `View::ShouldWaitForSyncedDocument` withholds an event between the last acknowledgement and the version that contains the write |
| `cb` | snapshots waiting on the main queue |
| `game`, `enabled`, `screen`, `alert`, `shown` | `GameViewController.game`, the buttons, what is presented, what the result screen said |
| `agenda[p][d]` | work due in `d` seconds: the second check (2 s + 0.3 s, counted as 2), the kick (0.5 + 0.5), `setWinner` (2), results (6) |
| `UpdateGame` | `updateGame`: buttons, `animateMoves`, `checkForWinner` and the forfeit rule, in this order, with the writes they issue |
| `RunCheck`, `RunKick`, `RunSetWinner`, `RunResults` | the put-off work; `finished = FALSE` is an interrupted animation |
| `Tick` | a second, once both main queues are idle; with `Prompt` also only once the network is |
| `Join`, `Pick`, `OpenAlert`, `CancelAlert`, `Exit`, `Home`, `Kill` | the requester's device opening the match; the players |
| `taps`, `judged`, `cut`, `versions`, `breaks` | history and bounds, not in the code |

`checkForWinner` puts its else branch on `mMove < oMove` alone, so a device that
WINS takes the branch for a tie as well (`TakesElse`): it finishes the game
without a winner at once, and enters the winner three seconds later. Most of the
behaviour below follows from this line.

### FirestoreClient and DocumentSync

All handlers of the client run on one worker queue, so each is one action; between
two of them the app, the network, the backend, the token provider and the timers do
what they like.

| TLA+ | code |
|---|---|
| `queue`, `cached`, `snapshot` | `mutation_queue_`, `remote_document_cache_` (`committed` is `kCommittedMutations`), the version up to which the watch stream has told |
| `pipeline`, `FillWritePipeline` | `write_pipeline_`; the refill with all it does to the stream: sends, marks it idle, starts it |
| `stream` (`Started`, `Closed`, `Stopped`, `Backoff_Inhibited`) | `Stream::State`, `grpc_stream_`, `handshake_complete_`, the idle timer, `close_count_` |
| `tokens`, `TokenArrives` | `RequestCredentials`: one request under way for each close count |
| `ReceiveResult`, `ReceiveRefusal` | `OnWriteStreamMutationResult`, `HandleWriteError`, each down to cache and queue, and up again to the pipeline |
| `wire`, `acks`, `refused`, `orphans` | what is on the connection, and requests of a dead one that may still be served |
| `Watch` | `LocalStore::ApplyRemoteEvent` for this document |

Writes are patches of fields: `setData(merge: true)` and `updateData` both become a
`PatchMutation`. `sentBase` and `unseen` are history, for the mapping to
`DocumentSync`.

### FirestoreWatch

| TLA+ | code |
|---|---|
| `listening`, `token` | `listen_targets_`, and the tokens in `RemoteStore`'s and `LocalStore`'s `TargetData`, which differ after a reset |
| `keys`, `saved`, `snapshot` | the target cache on disk. `keys` is also `View::synced_documents_`, which starts from it and takes the same changes |
| `current` | the targets whose view has `current_` |
| `states`, `resets` | `target_states_`, `pending_target_resets_` of the aggregator, which lives as long as a stream |
| `online` | `OnlineStateTracker`: state, whether it has counted a failure, the timer |
| `Receive...` | `OnWatchStreamChange` by kind of message, each with what the aggregator does |
| `RaiseWatchSnapshot` | from `CreateRemoteEvent` through tokens and re-listens to what `LocalStore` and `View` keep |
| `serving`, `results`, `ServeRequest`, `ServerSends` | the backend, external |
| `outlived` | history: targets whose reset was pending over a new listen, or over a snapshot that was waited out |

### GameInvitation

A chain of calls (`asking`, `accepting`) acts on what it read while everything it read
may change. One action is a call that Firestore serves, with the work of its completion
up to the next call; the completion of a *write* is a separate action when others can
see the write first (`RequestStored`/`ShowLoading`, `GameCreated`/`EnterCreated`).
Each tap on Accept runs a chain of its own, known by a number (`tap`) as long as it is
under way: two taps on one message are two chains, and may both be about to create a
game.

Writes of the *state* of a game (`updateGameStatus`, and the state in the whole game
that a pick writes) are not part of the step that decides on them: they wait in the
device's queue (`writes`) and are applied later, to whatever the document is by then
(`Committed`), or refused, which nobody is told (`WriteRefused`). So "starting" is read
in `GameFound`, and the "inprogress" it leads to may arrive after the acceptor's
"finished". `SeenState` is what a device is answered meanwhile: its own writes over the
backend's document. Every listener that is called (`Called`) writes once.

What a match does is reduced to these writes and to the screen: `Pick` (in progress, as
last seen), `Finish` (the verdict, on a device that won or tied), `Exit`, and
`LeaveResults`; what happens inside is `GameMatch`. `GoHome` and `ReloadTable` load
the table of users, which shows every Start button again: the latter may happen at any
moment, since every change of any user does it.

`loading[u]` keeps all loading views of a device: those whose timers run, those
whose listener is registered, the one Home holds and the one registration
`DataStore.gameListener` can still remove. A closed view (`onClose`) keeps its
listener, as in the code. `games[g].of` records the invitation a game was created
for; the document does not. A delete of an invitation is one step with the work around
it, and may fail, which nobody is told (`Undeleted`).

### UserSession

`DidSet` is the observer of `localUser`: every assignment saves the user, and asks
for a token when there is none. `saves[d]` is the ordered queue of writes, kept
over `Kill`. The oldest is answered by `Saved` or by `SaveRefused`: `setData` calls back
with `(user, error)`, and both `onContinue` and the observer ignore the error, so the
completion (`Completed`) is the same: it sets `localUser` and opens Home even when
nothing was stored. `refused[d]` is history: was the last answer an error? `Read` sees a
device's own queued writes first. `SignupFails` stands for the calls the code gives up
on (an unanswered name check counts as a name in use).

## 3. Runs

| run | question | bounds | states |
|---|---|---|---|
| `match_interrupted` | Any animation may be cut: same result on both devices when none was, the writing stops, results reached, erased picks offered again | 1 pick each, prompt network | 288 thousand |
| `match_slow_network` | Any delay: verdicts agree, the winner sees its victory, the document implements `MatchRecord` | rock against paper, 2 writes and 2 versions in flight | 2.1 million |
| `match_hostile` | All moves, ties too, exit, kill, a broken stream: the inductive invariant and what follows, nobody loses a tie, no listener is left behind, each client implements `DocumentSync` | 1 pick each, 5 versions, 1 in flight, 1 break | 0.8 million |
| `match_late_winner` | *violation*, see 6 | | |
| `match_exit` | *violation*, see 6 | | |
| `client` | The write path: answers meet their writes, nothing asserts, `DocumentSync` is implemented, writes drain, the device converges | 2 writes, pipeline of 2, 1 foreign write, 1 close, 1 crash | 123 thousand |
| `watch` | The listening side: answers counted, nothing asserts, views in sync are exact, every view gets in sync | 1 target, 2 documents, 2 versions, 2 listens, 1 close, 1 crash | 335 thousand |
| `watch_offline` | *violation*, see 6 | | |
| `invite_mutual` | Both invite, or one twice, with reloads at any moment: games consented, invitations cleared, created games found, loading ends | 2 taps on Start in all, 2 Accepts under way per user, 2 invitations, 2 games; no failures, no kills, states written by listeners and exits only | 291 thousand |
| `invite_hostile` | Three Accepts under way at once, failures, refused and late writes, kills: consent, and `Matchmaker` is implemented | 1 invitation, 3 taps, 3 games, picks and verdicts while fewer than 2 writes wait | 531 thousand |
| `session` | One device, starts, kills and refused saves: saved as shown, names kept, token stored | 3 starts, 2 taps, 2 accounts | 6.2 thousand |
| `session_names` | *violation*, see 6 | | |

**Why the bounds are enough.** A document changes at most five times in an
undisturbed decisive match (start, two moves, finished, winner), and once more for
an erased pick. In `match_interrupted` and `match_slow_network`, where `MaxVersions` is
6, it never changes six times (TLC: `versions < MaxVersions` is an invariant of both),
so that their results, liveness included, do not depend on that bound. It is *needed*
on a tie, in `match_hostile`: the two devices answer each other's writes as fast as the
network goes, see 7, and put off one piece of work for each; `MaxDue` bounds those. Five
versions are a whole decisive match, or a tie with two answers; by hand the run was also
made with six (1.5 million states). `MaxQueue` and `MaxLag` are how many writes and
versions can be under way at once and only delay a write or a commit; 2 already
lets a stale whole game cross two newer versions. One broken stream (`MaxBreaks`)
commits a write twice, which is what a broken stream can do.

In `invite_mutual`, two invitations and two games are needed for a take-over, for an
invitation that meets one of the other direction, and for a second invitation to the
same user after a reload. `invite_hostile` is about one invitation: three taps let a
chain look the invitation up while another is about to create a game and a third has
created one, and begin after any of them has ended; three games are one for each.

In `client`, two writes and a pipeline of two let an answer and a refusal wait for
different writes, a foreign write come between them, and a termination or a close
leave any part of this behind. A pipeline smaller than the queue needs three
writes, and does not occur in the run: all safety properties also hold with `MaxWrites` 3
(1.3 million states), too long to be kept as a run, and the theorems of 5 hold for every
bound, but that such a write is taken up in the end (`QueueDrains`) is not checked. In `watch`,
two listens of one target are a listen, its end and its return, with everything the
first has left on the connection; two documents can change places, so that a filter
counts right and is wrong. By hand, the safety properties were also checked with three
versions (4.1 million states), three listens (2.8 million) and two targets (1.3 million,
liveness too); and the inductive invariant behind `ViewsExact` on instances with up to
four versions, where a snapshot can be waited out, and on 79 million states of random
behaviours of two targets and five versions.

The `Requester` always plays rock in the runs: the three moves are rotated by the
order of `Moves`, so rock against paper and scissors is every decisive match, and
rock against all three every match. `match_slow_network` plays against paper
only: the two players differ before the match starts but not in it, and its graph
is the largest. By hand it was also run against scissors (4.1 million states together).

**Fairness.** Weak fairness of the main queues, of time and of Firestore
(`GameMatch`), of each chain of calls, of timers and listeners (`GameInvitation`),
and of answers (`UserSession`): iOS runs the main queue of an app in front, and
Firestore answers or retries while the app runs. `FirestoreClient` asks it of the
worker queue with its timers and tokens, of a backend that is reached and of the
watch stream; `FirestoreWatch` of the worker queue (`QueueSpec`), and in `FairSpec`
also of streams that come up and a backend that serves them. `watch_offline` uses
`QueueSpec` alone: it is about streams that do not come up. Closes and crashes are
finitely many, so these say that the network is there long enough in the end.
Nothing is asked of the players, the push service or of failures.
`match_slow_network`, `match_hostile` and `invite_hostile` check safety and use none.

`CHECK_DEADLOCK FALSE` everywhere: a match that is over, and users who do nothing,
have nothing left to do.

## 4. Properties

*GameMatch.* `MoveAuthentic`, `WinnerEarned`, `DefeatEarned`, `NeverRestarted` hold
of every match. `ConsistentVerdicts` is of matches with one pick each (the theorem:
whoever leaves or is terminated), and `VictoryShown`, `SameResult`, `TieNeverLost`
and `RecordSpec` of those that nobody leaves as well, because the
code does not give more: a player may pick again after seeing the opponent's move
(`shouldEnableButtons` is called on every snapshot), and then the two devices
may disagree. `SameResult` also needs `Prompt`: see finding 1. `MatchQuiesces`,
`ResultsReached` and `ErasedPickOffered` are liveness.

`ListenerCaughtUp` is about events a view withholds: a device whose writes are all
acknowledged and contained has shown its listener the last version it was sent.

*FirestoreClient.* `CorrelatedAnswers` is the property everything rests on: the
protocol names no writes, so after any sequence of closes, restarts and refusals the
answers on their way must belong to the first of the pipeline. `PipelineIsHead` and
`AssertionsHold` (the `HARD_ASSERT`s of the path) go with it. `ContractSpec` is
the refinement; `ViewIsOverlay` ties what the app is shown, cache and queue, to
the abstract view. `QueueDrains` and `Converges` are liveness.

*FirestoreWatch.* `AnswersCounted` (the count says when to believe a message),
`AssertionsHold`, `ViewsExact` (a view in sync is the result set of the version of its
token), and `Converges`. `ViewsExact` excepts what the code does not give: a target
listened to again without a token, and one whose reset did not take effect alone, see 7.

*GameInvitation.* `Consent` holds under everything the model allows, and so does
`MatchmakerSpec`: each tap on Accept makes at most one game, of an invitation that was
still stored when this tap looked it up, between the two users of the invitation; a game
keeps its players and is not "starting" again. The invitation may be withdrawn, or
answered by another tap, between that look and the game: the code does not check again,
and `Matchmaker` allows both. It also allows a match to be in progress again after its
end, since a late write does that (`Goes`). Nothing is claimed about the number of open
invitations: the code stores two when the table is loaded between two taps, see 7.
`RequestsCleared` says that both of them go. It excepts an invitation whose loading view was taken
down by a game of another invitation (`TakenOver`): no code deletes it, and it
blocks the same two users from then on. `GamesStart` excepts a requester who has
entered another match.

*UserSession.* `SavedAsShown`: when no write waits and the last one was not refused, the
document others see is the user the app works with, so that a later save makes up for a
refused one. After a refused *last* save the app works with a user nobody can see, and
nothing saves it again: this is excepted. `NamesKept` holds with refused saves as well.
`TokenRegistered` (liveness) is of a user who stays at Home and whose saves are not
refused for ever.

## 5. Proofs

`GameMatchProofs` proves, for every choice of the constants, no bound fixed:

* `Invariance`: `Spec => []IndInv`
* `TypeCorrect`, `MoveAuthenticity`, `WinnersEarn`, `DefeatsEarned`,
  `ListenersCatchUp`: the invariants
* `VerdictsConsistent`: `Spec => [](OneMoveEach => ConsistentVerdicts)`, for players
  whose picks are all the same move, with exits, terminations and lost connections
* `NeverStartsAgain`: the action property
* `MatchKeepsContract`: `Spec => ContractSpec`, the refinement of `DocumentSync` by the
  client on each device of a match

`MatchRecordProofs` proves three more of matches with one pick each (`OnePick`: `MaxTaps`
is 1, nobody leaves or is terminated, no stream breaks), for any network and whether
animations are cut or not:

* `RecordIsOneRound`: `Spec => RecordSpec`, the refinement of `MatchRecord`, when the
  moves the players choose among have none in common (`OneRound`)
* `TiesNeverLost` and `DefeatOnMoves`: a device announces a defeat only when the two moves
  that were picked say so, a tie included

`MatchResultProofs` goes on to the end of such a match. `VictoriesShown`:
`Spec => [](~cut => VictoryShown)`, while no animation has been cut short; and where none
can be (`~Interruptible`, the setting of `match_slow_network`) `VictoriesAlwaysShown`:
`Spec => []VictoryShown`. `ResultsAgree`: `Spec => []SameResult`, for a round with
different moves on a network faster than a second (`OneRound` and `Prompt`, the setting of
`match_interrupted`), animations cut short or not.

`FirestoreClientProofs` proves, again for every choice of the constants, `ClientInvariance`
(`Spec => []ClientInv`), `ClientTypeCorrect`, `AnswersCorrelated`, `PipelineIsTheHead`
and `AssertionsNeverFail`. `ClientContractProofs` adds the refinement on the library's
side, `ClientKeepsContract`: `Spec => ContractSpec`, with `RefinementInvariance`
(`Spec => []RefinementInv`) and `ViewIsTheOverlay`.

*Assumptions* are the named ones of the modules. `GameMatch`: the two players differ and
are not the values used for "no winner", "draw" and "nothing"; the moves they choose
among are moves; the settings are flags and sets of players; the bounds are naturals.
`FirestoreClient`: patches are patches and documents documents, the pipeline has room
for a write, the bounds are naturals. `GameInvitation`: there is a user, those who invite
or may be killed are users, the settings are flags, the bounds are naturals. `UserSession`:
the bounds are naturals. `FirestoreWatch`: targets and keys are finite sets, the bounds
are naturals.

`FirestoreWatchProofs` proves `WatchInvariance` (`Spec => []WatchInv`), and from it
`WatchTypeCorrect`, `AnswersAreCounted` and `WatchAssertionsNeverFail`, for any finite
sets of queries and documents; then `ExactInvariance` (`Spec => []ExactInv`) and from it
`ViewsAreExact` (`Spec => []ViewsExact`).

`UserSessionProofs` proves `SessionInvariance` (`Spec => []SessionInv`) and from it
`SessionTypeCorrect`, `StoredUserIsShown` and `NamesStayUsable`, for any number of
devices, accounts, taps and starts.

`GameInvitationProofs` proves `InviteInvariance` (`Spec => []InviteInv`), from it
`InviteTypeCorrect` and `MatchesAreConsented`, and the refinement
`InvitationsKeepContract` (`Spec => MatchmakerSpec`), for any users, taps, failures, late
or refused writes, kills and bounds.

*Why an invariant is needed.* `WinnerEarned` speaks about the document at the backend.
A winner gets there through `own` (queued writes), those are made from `game`, which
comes from `cb`, made from `base` and `own`, made from `feed`, made from the backend:
a copy kept anywhere on this circle can come back later. `IndInv` says that every copy
on the circle is *sound* (`SoundDocs`: moves were picked, a winner has judged and not
lost), and every queued write in addition does not say "starting". The one place
where an unearned winner may stand is a device's own `game`, put there by the forfeit
rule; then the buttons are disabled (`SoundGame`), so that `pickedMove` cannot
write it, and `checkForWinner` writes it only where the device has itself judged.
The same holds of the tasks: a hand that has kicked, and a `setWinner`, exist only
after a win, a second check after the first one has judged (`SoundTasks`). That is
`MatchSound`. `JudgedSound` says that a verdict is one on two picked moves; with one move
each there is one such verdict per device, and `VerdictsOppose` relates the two. `NetworkSound` orders the commits
and acknowledgements of each device (`at` grows and stays within `feed`,
`acked` within `at`), which the refinement needs. `ViewsSound` says when
`seen` is what the client has: it is withheld only while acknowledged writes wait
for their version.

*The record.* `RecordSpec` says that the document starts, gets the moves and is finished
by the verdict on them, and that what is decided stays. The code checks nothing of
this before a write: each device writes the game it has. That it holds is a matter of
which copies are still about, and `RoundInv` says which, on top of `IndInv`:

* `ServerSound`, `VersionsSound`: what the backend has, or had and sent (`Past`), is
  full (both moves) or closing (finished, or with a winner) only if the document is; only
  a player's own first pick can wipe out the other one's move (`PickWaits`, `Unerased`).
* `CopiesSound`: what a device has (`Local`: view, callbacks, local game, writes) is ahead of
  that by its own writes at most.
* `OwnSound`, `WaitingSound`: a device writes its entry, its pick, and then only
  games that are finished and full, in this order; a winner goes out after a write that
  finishes.
* `StartSound`, `ButtonsSound`, `JudgedFull`: nothing is written before the requester's
  entry is, the first pick is made in a game in progress, a verdict with both moves.
* `FeedSound`, `ViewFull`: along the versions on their way, and in a device's view, full
  stays full.

The condition `MaxBreaks = 0` is needed: a write sent again after a break can put an old
document back for a moment, and TLC finds `RecordSpec` violated with one break. So is
`OneRound`: on a tie the winner is written over again and again, see 7. TLC checked
`RoundInv` on the whole graph of `match_slow_network`, and on the first 5.8 million
states of the same match with animations cut.

`LossInv` carries the other two theorems: a finished game on a device has both moves
(`EndsFull`), work is put off only with both (`TasksFull`), and a local game
names the opponent as winner only when the moves do (`LossSound`): the forfeit rule names
the device itself, so the name of the opponent can only have come from the
opponent, who has judged. `ShownLost` is what the result screen then says. TLC checked
it on the graphs of rock against rock and of rock against paper.

*The results.* What the winner's device announces depends on an order of events: its second
check, the kick, `setWinner` and the results are due at fixed distances from its verdict,
but snapshots, some of them of its own writes, come in between at any time, and
each replaces its game and may put off more work. The proof (`WinInv`) has two halves.

* *Grounds: where the winner can be named.* The moves decide one winner p, and documents
  are followed as *trails* of a set: the finished ones (`EndedTrails`), those that name p
  (`WonTrails`). A trail says that once a version on its way is in the set all later ones
  are (`Rises`), that a write in the set is committed in a version in it (`Lands`), and
  that a version is in the set only because of a write of the device or what it had before
  (`Comes`). From there: nobody but p is ever named (`AllDecided`), p's writes are the first
  to name it, the view of p's device names p from its `setWinner`, or forfeit, on
  (`WinnerLooks`), and before its verdict it has just one snapshot with both moves to come
  (`FirstLooks`), of a match in progress (`FreshLooks`): so it judges once.
* *TimedWins: when it is.* `Timetable` says of the agenda, the waiting snapshots, the
  game and the view of p, r seconds before its first results: while the view does not name
  p, the check, the kick or the `setWinner` that will lead to it is due in time
  before r (`Waits`); once it does, the game names p, or the one snapshot still waiting
  does, or a `setWinner` comes before the results (`Named`). There is a lemma for each
  step of p's device (`FirstTimed`, `TickTimed`, `KickTimed`, `SetWinnerTimed`,
  `CheckTimed`, `UpdateTimed`) and one for all others (`LeftTimed`).

The condition `~cut` is needed: a cut animation drops the second check, or the `setWinner`
after the kick, and TLC then finds a winner whose device announces a draw. TLC checked each
part of `WinInv` on the graphs of rock against paper and rock against rock.

*The same result on the other device.* `SameResult` adds to this what the loser's device
announces, and there p's victory comes in by the network alone. `SameInv` is `WinInv` with
five statements about the opponent q of the player p who wins on the moves:

* *LoserCalm:* before p's device has judged, q's has nothing due and no results to come.
  A second passes only when both views show what the backend has (`TickViews`); had q's
  device judged a full document by then, p's would have as well.
* *LoserBehind:* afterwards, until p's device announces, every results task of q has one of p
  that is due no later. This compares the two agendas: p's first verdict puts its results off
  when q has none, new ones of q are at the far end (`OnlyLast`), p's go only when they are
  presented (`Adds`), and a second moves both (`ResultsCloser`).
* *LoserTold:* when q's view names p, q's game does or the last snapshot waiting for it.
  No verdict of q's takes the name away again, because a device that lost writes nothing
  (`LoserGame`).
* *LoserSettled:* from three seconds before p's first results on, the document at the backend,
  all that is on its way to q, q's view, its snapshots and its game name p. `Timetable`
  has p's own view name p four seconds before them, or a second check would be due at once;
  as the next second passes everything has been delivered (`TickSettles`). Nothing undoes it
  (`SettledStep`).
* *LoserShown:* so what q's device announces is p, and p's device has judged.

Here too TLC checked the parts first. `Prompt` is needed: without it `LoserSettled` fails,
and finding 1 is the match in which it does.

For the write path the invariant is `ClientInv`. `CorrelatedAnswers` is not inductive: that
the head of the pipeline may be dropped needs `PipelineIsHead`, that the queue loses
just that batch needs its identifiers in order and below the next one
(`QueueOrdered`, over a restart that reads them back), that a reconnect starts clean
needs `ConnectionQuiet`, and that a token does not open a stream twice needs
`StreamSound`.

The refinement needs more than that, `RefinementInv`. A `DocumentSync` step of an
acknowledgement or of a version says where the device's writes are committed and which
of them the last version contains; in the client this is spread over the answers on
their way, the cached version and the versions seen. `VersionsSound` ties them: the
cache is at the version of the last write applied to it, and it counts as a guess
(`committed`) exactly while some of these writes have not come back from the watch
stream. `CacheIsOverlay` says that the cached document is then the last version told,
under just those writes: this is what lets the view (cache and queue) be the overlay of
the contract. Lemmas split the contract's lists at the pipeline (`HeadMoves`, `Parts`,
`AheadLine`), and one lemma for each kind of step maps it to `Issue`, `Commit`,
`ForeignCommit`, `Ack`, `Reject`, `Watch` or `Break`, or to none.

On the listening side, `AnswersCounted` and the assertions of the view need each other's
facts: a type recorded for a document is right as long as the target's documents are the
ones it was compared with, and what is left of an earlier listen is dropped with the
last answer due, so the count has to be right. `WatchInv` adds only that nothing
is on a stream that is not open (`StreamQuiet`) and that snapshots are of versions the
backend has (`SnapshotsSound`). Most of the proof counts: `TallyJoined` counts the
elements of a set in a sequence of two parts, and each request, answer and batch of
news is an instance of it. That the sequence of listens sent by `StreamOpens` names each
target once (`ListensTallied`), and a snapshot each mismatched target twice
(`AgainTallied`), rests on `SetToSeq` being a bijection.

`ViewsExact` says nothing of what is on its way, so its proof has to say, for each target,
what the messages in the inbox will make of the documents known. `After(b, t, E, n)` are
the documents once the first n messages have been heard, from E. `NewsSound` says of it:
right after a listen is served nothing has been sent, and the documents are those of its
token, or none; later, the documents come out as the results of each snapshot on its way
and as what the backend thinks the client has, unless an existence filter on its way does
not match. That exception is what the protocol is about: a resume may be *silent* about
documents that left. The filter of a target has the number of its documents at the version
sent, the silent documents make the set larger, and a subset of the same size is the set
(`SameSize`), so that a filter that matches proves the documents right; one that does not
makes a reset. `ResetAlone` says that a reset then waits for filters and its snapshot only
(`BatchesSound`: filters are followed by filters or their snapshot), after which the target
has no documents and no token. `AskedFromToken` says that the last request of a target
carries its present token, which is what `NewsSound` starts from when the backend serves
it, and `DiskSound` that what is kept belongs to a token kept, or is nothing. Sequences are
taken apart at the two ends where the connection moves: `NewsTail`, when a message is
heard, and `NewsSent`, when the backend sends a batch (`ServerSendsBatch`).

An invitation is copied into a notification, a message and the chain of an Accept, all of
which outlive the document. `HeldByInvited` says that each copy is of an invitation that
was stored, and is with the user it is to; `NumberedApart`, that invitations are numbered
apart (the number is one more than there were, so they must be finitely many);
`ChainsKnow` and `GamesBegun`, that what a chain or a screen leads to exists. From these,
a new game is between the two users of an invitation. Two more facts serve the
refinement. A chain that creates a game must use up one answer of `Matchmaker` and no
other: `TapsApart` says that the chains under way on a device have different taps
(`NextTap` takes the first free one), so that `Answers`, the pairs of a tap and an
invitation that are about to make a game, loses exactly the pair of that chain
(`MatchMaps`). And a write in a queue must never meet a document that does not exist, or
`Committed` would create one: `GamesBegun` says that queued writes, like screens and
chains, are of games that were created. What a device sees of a game is its own last
write or the backend's document (`SeenBegun`), so a listener or a player can only add
writes of such games (`QueueOnBegun`).

For the session, `SavedAsShown` says nothing while writes wait. `ShownIsLast` does: the
last write in the queue is the user the app works with, or one whose completion will
set `localUser` again (a second tap on Continue), whatever it is answered; a refused
write leaves the queue as an accepted one does, and only sets `refused`. It holds because every way of setting
`localUser` saves at once, and because a chain survives neither a termination
(`StagesSound`) nor an account that is given up: all writes waiting are of the account
the device is signed in to (`NamesKept`), so `signOut` finds nothing to lose.

*Layout.* Lemmas on documents (`MergeSound`, `OverlaySound`), on put-off work
(`AfterSound`, `CheckedAgendaSound`), on what grows (`SoundGrows`, `HistorySame`,
`JudgeGrows`, `TapGrows`), then one lemma per action, then `InitInv` and
`NextInv`. The sets `Sound...` take the picks and the verdicts as
parameters, so that one lemma serves the state before a step and the state after.

*Model-checked only:* liveness and quiescence (no prover at hand reasons about fairness).
Every invariant and every action property that a run checks is stated by a theorem.

## 6. Disagreements between the code and what it says

1. `GameViewController.swift:206`, "the other user will get listener for the game
   with updated property" (`LoserLearnsWinner`, run `match_late_winner`). The
   winner's device finishes the game without a winner first; the loser's device takes
   that as a forfeit and names itself. If the second write takes longer than the
   six seconds to the results, the loser is told that he won.
2. `GameViewController.swift:251`, "we need to update the oher player"
   (`ExitReachesOpponent`, run `match_exit`). A pick made before the exit is
   seen and committed after it writes "inprogress" back.
3. `DataStore.swift:66`, "we don't have users with the same username"
   (`UsernamesUnique`, run `session_names`). Check, sign-in and save are three calls.

4. `online_state_tracker.cc:44-46`, "we have a timeout ... rather than waiting
   indefinitely" (`StateDecided`, run `watch_offline`). The end of the last listen
   while the stream is starting cancels the timer but leaves the stream starting; the
   next listen joins it without a timer. If the stream hangs, a listener with
   nothing cached is never told that the client is offline.

## 7. What else the models showed

* On a tie the devices never stop writing: the write of one carries the winner its
  forfeit rule has set in memory, the other answers with its own. Each announces
  itself or a draw, never the opponent (`TieNeverLost`).
* Accept tapped twice creates two games for one invitation, both with consent: each tap
  runs its own chain, and nothing looks at the invitation after the lookup.
* A loading view that is called back with a starting game writes "inprogress"
  without looking again (`HomeViewController.swift:168`). If the acceptor has left
  meanwhile, the write brings the finished match back, as a late pick does (finding 2):
  both users then count as being in a game until somebody exits it.
* A save that is refused is not noticed: `saveUser` calls back with the user and the error
  (`DataStore.swift:90-91`), `onContinue` ignores the error, sets `localUser` and opens
  Home. The observer of `localUser` saves once more; when that is refused too, the app
  goes on with a user who is not in `users`.
* A match whose players are killed stays "inprogress" and makes both users
  unavailable for invitations.
* An app killed while its invitation is open leaves the invitation for good.
* A user can have two open invitations to the same user: every change of any user loads
  the table (`HomeViewController.swift:49-51`, `122-127`), which shows the Start button
  again while the first invitation is still being checked and stored.

* A target that is stopped and listened to again between an existence filter that
  does not match and the next snapshot keeps its stale documents for good, in a view
  that says it is in sync: the removals of `ResetTarget` are dropped by
  `ClearPendingChanges` (`remote_event.cc:161`), and the full update that follows only
  adds. `ViewsExact` excepts such targets (`outlived`).
* The same happens if the next snapshot is older than one already raised
  (`remote_store.cc:282-287`): it is waited out, what the backend sends later is mixed
  with the pending removals, and the full update adds only. TLC finds it with four
  versions, and the attempt to prove `ViewsExact` without the exception fails there.
* While a mismatched target is listened to again without a token, its view may be
  current before the documents are there (`remote_store.cc:329-334`): excepted too.
* After a mismatch only `listen_targets_` loses the token; the stored one stays, and is
  healed by the filter of the next resume.
* `TargetState::current_` survives a stop and listen on the same stream
  (`ClearPendingChanges` leaves it), so that a target may be called current before
  the backend says so again. `ViewsExact` holds nevertheless.
* A watch stream that opens after its last listen has ended is never marked idle
  (`OnWatchStreamOpen`), and stays open until the backend closes it.

## 8. Not modelled, and simplifications

* Not modelled: layout, avatars, permission prompts, the request listener nobody
  observes, functions never called (`declineRequest`, `hideLoadingView`,
  `setGameRequestDelitionListener`, `removeGameStatusListener`,
  `showAlertForGameEnd`).
* A check delayed by 2.3 s counts as 2: it is 0.3 s late, and no other work is due
  between.
* Time in `GameInvitation` is left out: the 20 s may end at any moment.
* In `GameInvitation`, storing and deleting an invitation and creating a game take effect
  at the backend and for the writer's own listeners at once, as one step; writes of a
  game's state do not (`writes`). A call of a listener reads the documents as
  they are when it is called, and is not delayed on the main queue, where it would see
  an older snapshot. A refused write of a state is dropped without the device's
  listeners being called again.
* `Pick` and `Finish` write the state the device sees, not the copy of the game its screen
  keeps; `GameMatch` has the copies. How often a match writes is bounded by `MaxWrites`
  waiting.
* Home pushed twice by a double tap on Continue (two observers of Accept) is
  covered by the double tap on Accept.
* A token that cannot be fetched is outside `TokenRegistered`; tokens that are
  renewed are the same save again.
* A refused write of a match is not modelled in `GameMatch` (in `GameInvitation` it is):
  the code has no completion for it.
* Write path: one document; no transforms or preconditions, no change of user. The backend
  serves requests in order, answers a write that changes nothing with the version
  there is, does not end a write stream without an error while writes wait
  (`HARD_ASSERT`, `remote_store.cc:452-458`), and commits requests of a dead
  connection late or never.
* Listening: targets the backend rejects (`ProcessTargetError`), queries for a
  single document, limbo resolutions, limits and orders are left out. The
  backend sends CURRENT before the existence filter of a batch, a token for every
  active target with each snapshot, a filter for every resumed target, and none for
  targets listened to without a token.
* The two halves of the client are separate models: what one knows of the other is
  `Watch` (versions in any order of skipping) in `FirestoreClient`, and the absence of
  documents' contents in `FirestoreWatch`.
* The rest of the C and C++ in the repository is not modelled: gRPC, BoringSSL,
  Abseil, LevelDB, nanopb and generated tables below the interfaces above, and in
  Firestore the parts that are pure functions of data (encoding, matching, paths) or
  that the app does not use (transactions, bundles of queries, collection of
  garbage).

## 9. Plan

Done, in this order: `Moves` and `GameMatch`; `MatchRecord`; the proofs of the
invariants of every match; `GameInvitation`; `UserSession`; the Firestore client
(`DocumentSync`, `FirestoreClient`, its proofs, the proof that it implements
`DocumentSync` and that a match uses no more); `FirestoreWatch`; the proofs of
`UserSession`; `Matchmaker` and the proofs of `GameInvitation`; the proofs of
`FirestoreWatch`, and of `ConsistentVerdicts`.

`RecordSpec`, `SameResult`, `TieNeverLost`, `ViewsExact` and `VictoryShown` have been
proved since, and `GameInvitation` was given a chain for each tap and a queue of state
writes, `UserSession` refused saves.

Next: a composition of `GameInvitation` and `GameMatch` on one document, so that
what a listener of invitations sees comes from the client of `DocumentSync` too; and a
liveness run of `FirestoreClient` with a write behind a full pipeline.
