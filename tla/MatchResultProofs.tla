------------------------- MODULE MatchResultProofs -------------------------
(***************************************************************************)
(* The end of a match in which each player picks once: what the winner's   *)
(* device announces, whatever order the snapshots, the checks, the kicks,  *)
(* setWinner and the results come in; and what the loser's announces, when *)
(* the network is fast.                                                    *)
(***************************************************************************)
EXTENDS MatchRecordProofs, WellFoundedInduction

USE PlayersAssumption, ChoicesAssumption, SettingAssumption, BoundsAssumption

-----------------------------------------------------------------------------
(***************************************************************************)
(* What a step does to the documents: a device issues a write, the backend *)
(* commits one, a device is sent an acknowledgement or a version, or       *)
(* nothing moves.                                                          *)
(***************************************************************************)
\* A new write shows at once: the view waits for nothing while it is not acknowledged.
Issued(z, w) ==
    /\ w \in Write /\ Appends(z, w)
    /\ seen' = [seen EXCEPT ![z] = Overlay(base[z], own'[z])]

\* Entering the match, and the pick.
Opens(z, w) ==
    /\ Issued(z, w) /\ w.doc.state = "inprogress" /\ w.doc.winner = NoOne
    /\ judged[z] = {} /\ judged' = judged

\* The writes of a device whose player has not lost.
Closes(z, w) ==
    /\ Issued(z, w) /\ w.whole /\ w.doc.state = "finished" /\ Earned(z)'
    /\ \A x \in Players \ {z} : judged'[x] = judged[x]

Silent ==
    /\ UNCHANGED <<server, base, feed, at, acked, own, seen>>
    /\ EarnedBy' = EarnedBy

LEMMA SendIssues ==
    ASSUME IndInv, NEW z \in Players, NEW w \in Write, NEW q, Send(z, <<w>>, q),
           UNCHANGED <<server, base, feed, at, acked>>
    PROVE  Issued(z, w)
  <1> DEFINE O == own[z]
             O2 == O \o <<w>>
  <1>1. /\ own \in [Players -> Seq(Write)] /\ O \in Seq(Write) /\ at[z] \in Seq(Nat)
        /\ acked[z] \in Nat /\ acked[z] <= Len(at[z]) /\ Len(at[z]) <= Len(O)
    BY RoundTyped
  <1>2. own' = [own EXCEPT ![z] = O2] /\ See(z, Seen(z, base[z], O2, acked[z]), q)
    BY DEF Send
  <1>3. Len(at[z]) \in Nat
    BY <1>1
  <1> HIDE DEF O
  <1>4. O2 = Append(O, w) /\ Len(O2) = Len(O) + 1 /\ Len(O) \in Nat
    BY <1>1
  <1>5. Len(O2) # acked[z]
    BY <1>1, <1>3, <1>4
  <1> HIDE DEF O2
  <1>6. Seen(z, base[z], O2, acked[z]) = Overlay(base[z], O2)
    BY <1>5 DEF Seen, Held
  <1>7. own'[z] = O2
    BY <1>1, <1>2
  <1> QED
    BY <1>2, <1>4, <1>6, <1>7 DEF Issued, Appends, See, O

LEMMA NothingAdded ==
    ASSUME NEW S, NEW s \in Seq(S)
    PROVE  s \o << >> = s
  OBVIOUS

LEMMA SendNothing ==
    ASSUME IndInv, NEW z \in Players, NEW q \in Seq(Game), Send(z, << >>, q)
    PROVE  own' = own /\ seen' = seen /\ cb' = [cb EXCEPT ![z] = q]
  <1> DEFINE O == own[z]
  <1>1. /\ own \in [Players -> Seq(Write)] /\ O \in Seq(Write) /\ seen \in [Players -> Game]
        /\ cb \in [Players -> Seq(Game)]
    BY RoundTyped
  <1>2. own' = [own EXCEPT ![z] = O \o << >>] /\ See(z, Seen(z, base[z], O \o << >>, acked[z]), q)
    BY DEF Send
  <1>3. O \o << >> = O
    BY <1>1, NothingAdded
  <1>4. Seen(z, base[z], O, acked[z]) = seen[z]
    BY DEF Seen, Held, IndInv, ViewsSound
  <1>5. See(z, seen[z], q)
    BY <1>2, <1>3, <1>4
  <1>6. q \o << >> = q
    BY NothingAdded
  <1>7. Told(z, seen[z]) = << >>
    BY DEF Told
  <1>8. own' = own
    BY ONLY <1>1, <1>2, <1>3 DEF O
  <1>9. seen' = seen /\ cb' = [cb EXCEPT ![z] = q]
    BY ONLY <1>1, <1>5, <1>6, <1>7 DEF See
  <1> QED
    BY ONLY <1>8, <1>9

\* checkForWinner ends the match, or issues nothing.
LEMMA CheckCloses ==
    ASSUME IndInv, NEW p \in Players, NEW g \in Game, NEW v \in VerdictSet, NEW q \in Seq(Game),
           Send(p, CheckedWrites(g, v), q), Judge(p, v), UNCHANGED <<server, base, feed, at, acked>>
    PROVE  /\ TakesElse(v) => Closes(p, updateGameMoves([g EXCEPT !.state = "finished"]))
           /\ ~TakesElse(v) => Silent /\ cb' = [cb EXCEPT ![p] = q]
  <1>1. judged \in [Players -> SUBSET {"win", "lose", "tie"}]
    BY RoundTyped
  <1>2. /\ judged'[p] = IF v = "waiting" THEN judged[p] ELSE judged[p] \cup {v}
        /\ \A x \in Players \ {p} : judged'[x] = judged[x]
    BY <1>1 DEF Judge
  <1>3. CASE TakesElse(v)
    <2> DEFINE w == updateGameMoves([g EXCEPT !.state = "finished"])
    <2>1. w \in Write /\ w.whole /\ w.doc.state = "finished"
      BY DEF updateGameMoves, Write, Game, GameState
    <2>2. CheckedWrites(g, v) = <<w>>
      BY <1>3 DEF CheckedWrites
    <2>3. Earned(p)'
      BY <1>2, <1>3 DEF Earned, TakesElse
    <2> HIDE DEF w
    <2>4. Issued(p, w)
      BY <2>1, <2>2, SendIssues
    <2>5. Closes(p, w)
      BY <1>2, <2>1, <2>3, <2>4 DEF Closes
    <2> QED
      BY <1>3, <2>5 DEF w
  <1>4. CASE ~TakesElse(v)
    <2>1. CheckedWrites(g, v) = << >>
      BY <1>4 DEF CheckedWrites
    <2>2. own' = own /\ seen' = seen /\ cb' = [cb EXCEPT ![p] = q]
      BY <2>1, SendNothing
    <2>3. \A x \in Players : Earned(x)' <=> Earned(x)
      BY <1>2, <1>4 DEF Earned, TakesElse
    <2>4. EarnedBy' = EarnedBy
      BY <2>3 DEF EarnedBy
    <2> QED
      BY <1>4, <2>2, <2>4 DEF Silent
  <1> QED
    BY <1>3, <1>4

LEMMA WonTyped ==
    ASSUME NEW p \in Players, game[p] \in Game
    PROVE  WonGame(p) \in Game /\ WonGame(p).state = "finished" /\ WonGame(p).winner = p
  BY DEF WonGame, Game, GameState

LEMMA PickedTyped ==
    ASSUME NEW p \in Players, game[p] \in Game, NEW m \in MoveSet
    PROVE  /\ PickedGame(p, m) \in Game
           /\ PickedGame(p, m).state = game[p].state
           /\ PickedGame(p, m).winner = game[p].winner
  BY DEF PickedGame, Game

LEMMA StepKinds ==
    ASSUME OnePick, LossInv, Next
    PROVE  \/ Silent
           \/ \E z \in Players : /\ Commit(z) \/ Ack(z) \/ \E k \in 1..Len(feed[z]) : Watch(z, k)
                                /\ judged' = judged
           \/ \E z \in Players : \E w : Opens(z, w) \/ Closes(z, w)
  <1>0. /\ RoundInv /\ IndInv /\ RoundTaps /\ game \in [Players -> Game] /\ cb \in [Players -> Seq(Game)]
        /\ judged \in [Players -> SUBSET {"win", "lose", "tie"}]
    BY RoundTyped DEF LossInv, RoundInv
  <1>1. judged' = judged => EarnedBy' = EarnedBy
    BY DEF EarnedBy, Earned
  <1>2. Tick => Silent
    BY <1>1 DEF Tick, Silent, network, history
  <1>3. ASSUME NEW p \in Players, IgnoreSnapshot(p) \/ RunResults(p) \/ Home(p)
        PROVE  Silent
    BY <1>1, <1>3 DEF IgnoreSnapshot, RunResults, Home, Silent, network, history
  <1>4. ASSUME NEW p \in Players, NEW finished \in BOOLEAN, RunKick(p, finished)
        PROVE  Silent
    BY <1>1, <1>4 DEF RunKick, Silent, network
  <1>5. ASSUME NEW p \in Players, UpdateGame(p)
        PROVE  Silent \/ \E w : Closes(p, w)
    <2> DEFINE g == Head(cb[p])
               v == VerdictOf(p, g)
               q == Tail(cb[p])
    <2>1. g \in Game /\ q \in Seq(Game)
      <3> DEFINE c == cb[p]
      <3>1. c \in Seq(Game) /\ c # << >>
        BY <1>0, <1>5 DEF UpdateGame
      <3> HIDE DEF c
      <3>2. Head(c) \in Game /\ Tail(c) \in Seq(Game)
        BY <3>1
      <3> QED
        BY <3>2 DEF c
    <2>2. v \in VerdictSet
      BY <2>1, VerdictsOppose, Opposite DEF VerdictOf, Game
    <2>3. /\ Send(p, CheckedWrites(g, v), q) /\ Judge(p, v)
          /\ UNCHANGED <<server, base, feed, at, acked>>
      BY <1>5 DEF UpdateGame, network
    <2> HIDE DEF g, v, q
    <2> QED
      BY <1>0, <2>1, <2>2, <2>3, CheckCloses
  <1>6. ASSUME NEW p \in Players, NEW finished \in BOOLEAN, RunCheck(p, finished)
        PROVE  Silent \/ \E w : Closes(p, w)
    <2> DEFINE v == IF finished THEN Head(agenda[p][0]).verdict ELSE "waiting"
    <2>1. v \in VerdictSet
      BY <1>0, <1>6, DueStep DEF RunCheck, SoundTasks, Task, VerdictSet, IndInv
    <2>2. /\ Send(p, CheckedWrites(game[p], v), cb[p]) /\ Judge(p, v)
          /\ UNCHANGED <<server, base, feed, at, acked>>
      BY <1>6 DEF RunCheck, network
    <2>3. game[p] \in Game /\ cb[p] \in Seq(Game)
      BY <1>0
    <2> HIDE DEF v
    <2> QED
      BY <1>0, <2>1, <2>2, <2>3, CheckCloses
  <1>7. ASSUME NEW p \in Players, RunSetWinner(p)
        PROVE  \E w : Closes(p, w)
    <2> DEFINE w == updateGameMoves(WonGame(p))
    <2>1. WonGame(p) \in Game /\ WonGame(p).state = "finished"
      <3>1. game[p] \in Game
        BY <1>0
      <3> QED
        BY <3>1, WonTyped
    <2>2. w \in Write /\ w.whole /\ w.doc.state = "finished"
      BY <2>1 DEF updateGameMoves, Write
    <2>3. Send(p, <<w>>, cb[p]) /\ UNCHANGED <<server, base, feed, at, acked, judged>>
      BY <1>7 DEF RunSetWinner, network, history
    <2>4. "win" \in judged[p]
      <3>1. Due(p, "setWinner")
        BY <1>7 DEF RunSetWinner
      <3>2. Head(agenda[p][0]) \in SoundTasks(judged[p]) /\ Head(agenda[p][0]).kind = "setWinner"
        BY <1>0, <3>1, DueStep DEF IndInv
      <3> QED
        BY <3>2 DEF SoundTasks
    <2> HIDE DEF w
    <2>5. Issued(p, w)
      BY <1>0, <2>2, <2>3, SendIssues
    <2> QED
      BY <2>2, <2>3, <2>4, <2>5 DEF Closes, Earned
  <1>8. Join => Opens(Requester, updateGameStatus("inprogress"))
    <2> SUFFICES ASSUME Join PROVE Opens(Requester, updateGameStatus("inprogress"))
      OBVIOUS
    <2> DEFINE w == updateGameStatus("inprogress")
               O == own[Requester]
    <2>1. Requester \in Players /\ own \in [Players -> Seq(Write)] /\ O \in Seq(Write)
      BY <1>0, RoundTyped DEF Players
    <2>2. w \in Write /\ w.doc.state = "inprogress" /\ w.doc.winner = NoOne
      BY DEF updateGameStatus, Created, Write, Game, GameState, MoveSet
    <2>3. /\ own' = [own EXCEPT ![Requester] = O \o <<w>>]
          /\ seen' = [seen EXCEPT ![Requester] = Overlay(base[Requester], O \o <<w>>)]
          /\ UNCHANGED <<server, base, feed, at, acked, judged>>
      BY DEF Join, network, history
    <2>4. judged[Requester] = {}
      BY <1>0, <2>1, JoinFirst DEF Join, RoundInv, JudgedFull
    <2> HIDE DEF w, O
    <2>5. O \o <<w>> = Append(O, w)
      BY <2>1, <2>2
    <2>6. own'[Requester] = O \o <<w>>
      BY <2>1, <2>3
    <2>7. Issued(Requester, w)
      BY <2>2, <2>3, <2>5, <2>6 DEF Issued, Appends, O
    <2>8. Opens(Requester, w)
      BY <2>2, <2>3, <2>4, <2>7 DEF Opens
    <2> QED
      BY <2>8 DEF w
  <1>9. ASSUME NEW p \in Players, NEW m \in Choices(p), Pick(p, m)
        PROVE  \E w : Opens(p, w)
    <2> DEFINE w == updateGameMoves(PickedGame(p, m))
    <2>1. taps[p] = << >> /\ game[p].state = "inprogress" /\ game[p].winner = NoOne
      BY <1>0, <1>9, PickTaps
    <2>2. m \in MoveSet
      BY DEF Choices, MoveSet
    <2>3. /\ PickedGame(p, m) \in Game /\ PickedGame(p, m).state = "inprogress"
          /\ PickedGame(p, m).winner = NoOne
      <3>1. game[p] \in Game
        BY <1>0
      <3> QED
        BY <2>1, <2>2, <3>1, PickedTyped
    <2>4. w \in Write /\ w.doc.state = "inprogress" /\ w.doc.winner = NoOne
      BY <2>3 DEF updateGameMoves, Write
    <2>5. Send(p, <<w>>, cb[p]) /\ UNCHANGED <<server, base, feed, at, acked, judged>>
      BY <1>9 DEF Pick, network
    <2>6. judged[p] = {}
      <3>1. ~Full(game[p])
        BY <1>0, <2>1, SeenPicked DEF Full
      <3> QED
        BY <1>0, <3>1 DEF RoundInv, JudgedFull
    <2> HIDE DEF w
    <2>7. Issued(p, w)
      BY <1>0, <2>4, <2>5, SendIssues
    <2> QED
      BY <2>4, <2>5, <2>6, <2>7 DEF Opens
  <1>10. ASSUME NEW p \in Players, Main(p)
         PROVE  Silent \/ \E w : Closes(p, w)
    BY <1>3, <1>4, <1>5, <1>6, <1>7, <1>10 DEF Main
  <1>11. ASSUME NEW p \in Players, User(p)
         PROVE  Silent \/ \E w : Opens(p, w)
    BY <1>0, <1>3, <1>9, <1>11, NobodyLeaves DEF User
  <1>12. ASSUME NEW p \in Players, Firestore(p)
         PROVE  /\ Commit(p) \/ Ack(p) \/ \E k \in 1..Len(feed[p]) : Watch(p, k)
                /\ judged' = judged
    BY <1>12 DEF Firestore, Commit, Ack, Watch, history
  <1>13. Requester \in Players
    BY DEF Players
  <1> QED
    BY <1>0, <1>2, <1>8, <1>10, <1>11, <1>12, <1>13, NobodyLeaves DEF Next

-----------------------------------------------------------------------------
(***************************************************************************)
(* A document with both moves belongs to a match that runs.                *)
(***************************************************************************)
Runs(d) == Full(d) => d.state # "starting"

FullRuns ==
    \A x \in Players :
        /\ Runs(base[x]) /\ Runs(seen[x])
        /\ \A i \in DOMAIN feed[x] : Runs(feed[x][i])
        /\ \A i \in DOMAIN cb[x] : Runs(cb[x][i])

BasesRun == \A x \in Players : Runs(base[x])
ViewsRun == \A x \in Players : Runs(Overlay(base[x], own[x]))

LEMMA WritesRun ==
    ASSUME NEW x \in Players, NEW i, WriteSound(x, i)
    PROVE  own[x][i].doc.state \in {"inprogress", "finished"}
  BY DEF WriteSound, updateGameStatus, Created

LEMMA ViewsRunning == IndInv /\ OwnSound /\ BasesRun => ViewsRun
  <1> SUFFICES ASSUME IndInv, OwnSound, BasesRun, NEW x \in Players
               PROVE  Runs(Overlay(base[x], own[x]))
    BY DEF ViewsRun
  <1> DEFINE O == own[x]
             b == base[x]
             n == Len(O)
  <1>1. O \in Seq(Write) /\ b \in Game
    BY RoundTyped
  <1>2. \A i \in DOMAIN O : O[i].doc.state \in {"inprogress", "finished"}
    BY WritesRun DEF OwnSound
  <1>3. Runs(b)
    BY DEF BasesRun
  <1> HIDE DEF O, b
  <1>4. O = << >> => Runs(Overlay(b, O))
    BY <1>1, <1>3, NothingOverlaid
  <1>5. ASSUME O # << >>
        PROVE  Runs(Overlay(b, O))
    <2>1. n \in DOMAIN O /\ Overlay(b, O).state = O[n].doc.state
      BY <1>1, <1>5 DEF Overlay
    <2> QED
      BY <1>2, <2>1 DEF Runs
  <1> QED
    BY <1>4, <1>5 DEF O, b

LEMMA FullRunsStep ==
    ASSUME RoundInv, RoundInv', FullRuns, Next
    PROVE  FullRuns'
  <1>0. IndInv /\ IndInv' /\ OwnSound'
    BY DEF RoundInv
  <1>a. Runs(server')
    <2>1. Requester \in Players
      BY DEF Players
    <2>2. server'.state = "starting" => ~NotIdle(server', Requester)
      BY <2>1 DEF RoundInv, ServerSound, NotIdle
    <2> QED
      BY <2>1, <2>2 DEF Runs, Full
  <1>1. \A x \in Players : Runs(base'[x]) /\ \A i \in DOMAIN feed'[x] : Runs(feed'[x][i])
    BY <1>0, <1>a, StepVersions DEF FullRuns
  <1>2. BasesRun'
    BY <1>1 DEF BasesRun, Runs, Full, NotIdle
  <1>3. ViewsRun'
    BY <1>0, <1>2, ViewsRunning, PTL
  <1>4. \A x \in Players : Runs(Overlay(base'[x], own'[x]))
    BY <1>3 DEF ViewsRun, Runs, Full, NotIdle
  <1>5. \A x \in Players : Runs(seen'[x])
    BY <1>0, <1>4, StepTold DEF FullRuns
  <1>6. \A x \in Players : \A i \in DOMAIN cb'[x] : Runs(cb'[x][i])
    BY <1>0, <1>5, StepTold DEF FullRuns
  <1> QED
    BY <1>1, <1>5, <1>6 DEF FullRuns, Runs, Full, NotIdle

\* A device that has not judged the moves yet has not got both of them in its game.
JudgedGame == \A x \in Players : judged[x] = {} => ~Full(game[x])

\* Verdicts are added, and so are the players who did not lose.
LEMMA JudgedKept ==
    ASSUME IndInv, Next, NEW x \in Players
    PROVE  judged[x] \subseteq judged'[x] /\ (Earned(x) => Earned(x)')
  <1>0. judged \in [Players -> SUBSET {"win", "lose", "tie"}]
    BY RoundTyped
  <1>1. ASSUME NEW p \in Players, NEW v, Judge(p, v)
        PROVE  judged[x] \subseteq judged'[x]
    BY <1>0, <1>1 DEF Judge
  <1>2. ASSUME NEW p \in Players, Main(p)
        PROVE  judged' = judged \/ \E v : Judge(p, v)
    BY <1>2 DEF Main, UpdateGame, IgnoreSnapshot, RunCheck, RunKick, RunSetWinner, RunResults, history
  <1>3. Tick \/ Join => judged' = judged
    BY DEF Tick, Join, history
  <1>4. ASSUME NEW p \in Players, User(p) \/ Firestore(p) \/ Break(p)
        PROVE  judged' = judged
    BY <1>4 DEF User, Pick, OpenAlert, CancelAlert, Exit, Home, Kill, Firestore, Commit, Ack, Watch,
       Break, history
  <1>5. judged[x] \subseteq judged'[x]
    BY <1>1, <1>2, <1>3, <1>4 DEF Next
  <1> QED
    BY <1>5 DEF Earned

LEMMA JudgedGameStep ==
    ASSUME OnePick, RoundInv, EndsFull, JudgedGame, Next
    PROVE  JudgedGame'
  <1> SUFFICES ASSUME NEW x \in Players, judged'[x] = {}
               PROVE  ~Full(game'[x])
    BY DEF JudgedGame, Full, NotIdle
  <1>0. IndInv /\ judged \in [Players -> SUBSET {"win", "lose", "tie"}]
    BY RoundTyped DEF RoundInv
  <1>1. ~Full(game[x])
    BY <1>0, JudgedKept DEF JudgedGame
  <1>2. CASE game'[x].moves = game[x].moves
    BY <1>1, <1>2 DEF Full, NotIdle
  <1>3. CASE UpdateGame(x)
    <2>1. PICK g \in Game, v \in VerdictSet :
              /\ g = Head(cb[x]) /\ v = VerdictOf(x, g)
              /\ v # "waiting" <=> Full(g)
              /\ game'[x] = CheckedGame(g, v) \/ game'[x] = [CheckedGame(g, v) EXCEPT !.winner = x]
      BY <1>3, Updated
    <2>2. game'[x].moves = g.moves
      <3>1. CheckedGame(g, v).moves = g.moves /\ [CheckedGame(g, v) EXCEPT !.winner = x].moves = g.moves
        BY CheckedMoves
      <3> QED
        BY <2>1, <3>1
    <2>3. Judge(x, v)
      BY <1>3, <2>1 DEF UpdateGame
    <2>4. v = "waiting"
      BY <1>0, <2>3 DEF Judge
    <2> QED
      BY <2>1, <2>2, <2>4 DEF Full, NotIdle
  <1>4. CASE x = Requester /\ Join
    BY <1>4, Joining
  <1> QED
    BY <1>2, <1>3, <1>4, GamesKept, DueMoves

-----------------------------------------------------------------------------
(***************************************************************************)
(* Nothing says that the match is over, and nobody is named in it, before  *)
(* a device has judged the moves and its player did not lose.              *)
(***************************************************************************)
OverEarned == \A x \in Players : Over(x) => \E y \in Players : Earned(y)

OwnNamed ==
    \A x \in Players : \A i \in DOMAIN own[x] : own[x][i].doc.winner # NoOne => Earned(x)

\* The network brings nothing to an end that was not there.
LEMMA NetworkEnds ==
    ASSUME RoundInv, NEW z \in Players, Commit(z) \/ Ack(z) \/ \E k \in 1..Len(feed[z]) : Watch(z, k),
           NEW x \in Players
    PROVE  /\ Over(x)' => \E y \in Players : Over(y)
           /\ \A i \in DOMAIN own'[x] : \E j \in DOMAIN own[x] : own'[x][i] = own[x][j]
  <1>0. IndInv
    BY DEF RoundInv
  <1>1. CASE Commit(z)
    <2> DEFINE n == Len(at[z]) + 1
               w == own[z][n]
    <2>1. /\ n \in Waiting(z) /\ \A i \in Waiting(z) : i \in Nat /\ i >= n
          /\ WaitSound(z, n) /\ server' = Merge(server, w) /\ own' = own /\ n \in Nat
      BY <1>1, NextWrite
    <2>2. Waiting(x)' \subseteq Waiting(x)
      BY <1>1, CommitWaits
    <2>3. server'.state = "finished" => w.doc.state = "finished"
      <3>1. server \in Game /\ w \in Write
        BY <1>0, <1>1, RoundTyped, NextWrite
      <3> HIDE DEF w
      <3> QED
        BY <2>1, <3>1 DEF Merge, Write, Game
    <2>4. w.doc.winner # NoOne => server.state = "finished"
      <3>1. \A j \in Waiting(z) : ~(j < n)
        BY <2>1
      <3> QED
        BY <2>1, <3>1 DEF WaitSound
    <2>5. w.doc.state = "finished" => Over(z)
      BY <2>1, <2>4 DEF Over, IsFinish
    <2>6. Over(x)' => Over(x) \/ server'.state = "finished"
      BY <2>1, <2>2 DEF Over
    <2> QED
      BY <2>1, <2>3, <2>5, <2>6
  <1>2. ASSUME NEW n, NEW d, Forgotten(z, n, d), server' = server, taps' = taps
        PROVE  /\ Over(x)' => Over(x)
               /\ \A i \in DOMAIN own'[x] : \E j \in DOMAIN own[x] : own'[x][i] = own[x][j]
    BY <1>0, <1>2, ForgetKeeps, ForgetOwn
  <1>3. CASE Ack(z)
    <2>1. server' = server /\ taps' = taps
      BY <1>3 DEF Ack, history
    <2>2. CASE at[z][acked[z] + 1] > Shown(z)
      <3>1. own' = own /\ at' = at
        BY <1>0, <1>3, <2>2, AckForgets
      <3> QED
        BY <2>1, <3>1 DEF Over, Waiting
    <2>3. CASE ~(at[z][acked[z] + 1] > Shown(z))
      <3>1. Forgotten(z, acked[z] + 1, 1)
        BY <1>0, <1>3, <2>3, AckForgets
      <3> QED
        BY <1>2, <2>1, <3>1
    <2> QED
      BY <2>2, <2>3
  <1>4. ASSUME NEW k \in 1..Len(feed[z]), Watch(z, k)
        PROVE  /\ Over(x)' => Over(x)
               /\ \A i \in DOMAIN own'[x] : \E j \in DOMAIN own[x] : own'[x][i] = own[x][j]
    <2>1. server' = server /\ taps' = taps
      BY <1>4 DEF Watch, history
    <2>2. Forgotten(z, 1, acked[z])
      BY <1>0, <1>4, WatchForgets
    <2> QED
      BY <1>2, <2>1, <2>2
  <1> QED
    BY <1>1, <1>3, <1>4

LEMMA IssuedOwn ==
    ASSUME IndInv, NEW z \in Players, NEW w, Issued(z, w), NEW x \in Players
    PROVE  /\ w \in Write /\ Appends(z, w)
           /\ x # z => own'[x] = own[x]
           /\ \A i \in DOMAIN own'[x] : \/ x = z /\ own'[x][i] = w
                                        \/ i \in DOMAIN own[x] /\ own'[x][i] = own[x][i]
  <1>1. w \in Write /\ Appends(z, w)
    BY DEF Issued
  <1> QED
    BY <1>1, Appended

LEMMA OverEarnedStep ==
    ASSUME OnePick, LossInv, OverEarned, Next
    PROVE  OverEarned'
  <1>0. IndInv /\ RoundInv
    BY DEF LossInv, RoundInv
  <1> SUFFICES ASSUME NEW x \in Players, Over(x)'
               PROVE  \E y \in Players : Earned(y)'
    BY DEF OverEarned
  <1>1. (\E y \in Players : Over(y)) => \E y \in Players : Earned(y)'
    BY <1>0, JudgedKept DEF OverEarned
  <1>2. CASE Silent
    <2>1. Over(x)
      BY <1>2 DEF Silent, Over, Waiting
    <2> QED
      BY <1>1, <2>1
  <1>3. ASSUME NEW z \in Players, Commit(z) \/ Ack(z) \/ \E k \in 1..Len(feed[z]) : Watch(z, k)
        PROVE  \E y \in Players : Earned(y)'
    BY <1>0, <1>1, <1>3, NetworkEnds
  <1>4. ASSUME NEW z \in Players, NEW w, Opens(z, w)
        PROVE  \E y \in Players : Earned(y)'
    <2>1. w \in Write /\ Appends(z, w) /\ ~IsFinish(w)
      BY <1>4 DEF Opens, Issued, IsFinish
    <2>2. Over(x)
      BY <1>0, <2>1, AppendWaits
    <2> QED
      BY <1>1, <2>2
  <1>5. ASSUME NEW z \in Players, NEW w, Closes(z, w)
        PROVE  \E y \in Players : Earned(y)'
    BY <1>5 DEF Closes
  <1> QED
    BY <1>2, <1>3, <1>4, <1>5, StepKinds

LEMMA OwnNamedStep ==
    ASSUME OnePick, LossInv, OwnNamed, Next
    PROVE  OwnNamed'
  <1>0. IndInv /\ RoundInv
    BY DEF LossInv, RoundInv
  <1> SUFFICES ASSUME NEW x \in Players, NEW i \in DOMAIN own'[x], own'[x][i].doc.winner # NoOne
               PROVE  Earned(x)'
    BY DEF OwnNamed
  <1>1. (\E j \in DOMAIN own[x] : own'[x][i] = own[x][j]) => Earned(x)'
    BY <1>0, JudgedKept DEF OwnNamed
  <1>2. CASE Silent
    BY <1>1, <1>2 DEF Silent
  <1>3. ASSUME NEW z \in Players, Commit(z) \/ Ack(z) \/ \E k \in 1..Len(feed[z]) : Watch(z, k)
        PROVE  Earned(x)'
    BY <1>0, <1>1, <1>3, NetworkEnds
  <1>4. ASSUME NEW z \in Players, NEW w, Opens(z, w) \/ Closes(z, w)
        PROVE  Earned(x)'
    <2>1. Issued(z, w) /\ (w.doc.winner = NoOne \/ Earned(z)')
      BY <1>4 DEF Opens, Closes
    <2>2. (x = z /\ own'[x][i] = w) \/ \E j \in DOMAIN own[x] : own'[x][i] = own[x][j]
      BY <1>0, <2>1, IssuedOwn
    <2> QED
      BY <1>1, <2>1, <2>2
  <1> QED
    BY <1>2, <1>3, <1>4, StepKinds

-----------------------------------------------------------------------------
(***************************************************************************)
(* A set of documents that is not left again once the backend has entered  *)
(* it: the finished ones, those that name the winner.  b is what a device  *)
(* was sent, F the versions on their way, O its writes and A their places. *)
(***************************************************************************)
Rises(S, b, F) ==
    /\ b \in S => \A i \in DOMAIN F : F[i] \in S
    /\ \A i, j \in DOMAIN F : i < j /\ F[i] \in S => F[j] \in S

\* A write in S is committed in a version in S.
Place(b, F, a) == IF a = 0 THEN b ELSE F[a]
Lands(S, b, F, O, A) == \A i \in DOMAIN A : O[i].doc \in S => Place(b, F, A[i]) \in S

\* And only such a write is.
Exact(S, F, O, A) == \A i \in DOMAIN A : A[i] # 0 /\ F[A[i]] \in S => O[i].doc \in S

\* Or the backend got there by an earlier write of the device.
HasTo(S, b, O, n) == b \in S \/ \E j \in 1..n : O[j].doc \in S
Comes(S, b, F, O, A) == \A i \in DOMAIN A : A[i] # 0 /\ F[A[i]] \in S => HasTo(S, b, O, i)

\* From the n-th on, d items of s are gone.
Shifted(s, s2, n, d) ==
    /\ Len(s2) = Len(s) - d /\ n - 1 + d <= Len(s)
    /\ \A i \in 1..(n - 1) : s2[i] = s[i]
    /\ \A i \in n..(Len(s) - d) : s2[i] = s[i + d]

\* What an acknowledgement takes away: the first write that had none, which is in no
\* later version than the ones before it.
Acknowledges(m, A) ==
    /\ m + 1 <= Len(A)
    /\ m = 0 => A[1] = 0
    /\ m > 0 => A[m] # 0 /\ A[m + 1] = A[m]

LEMMA Indices ==
    ASSUME NEW k \in Nat, NEW l \in Nat, NEW m \in Nat, m + 1 <= k, k <= l, NEW i \in 1..(k - 1)
    PROVE  /\ i < m + 1 => i \in 1..((m + 1) - 1) /\ i \in 1..k /\ i \in 0..m
           /\ ~(i < m + 1) => /\ i \in (m + 1)..(k - 1) /\ i \in (m + 1)..(l - 1)
                              /\ i + 1 \in 1..k /\ i + 1 \in (m + 1)..l /\ (i + 1) - 1 = i
  OBVIOUS

LEMMA AckKeepsLands ==
    ASSUME NEW S, NEW b, NEW F, NEW O \in Seq(Write), NEW A \in Seq(Nat), NEW m \in Nat,
           NEW O2 \in Seq(Write), NEW A2 \in Seq(Nat), Acknowledges(m, A), Len(A) <= Len(O),
           Shifted(O, O2, m + 1, 1), Shifted(A, A2, m + 1, 1)
    PROVE  /\ Lands(S, b, F, O, A) => Lands(S, b, F, O2, A2)
           /\ Exact(S, F, O, A) => Exact(S, F, O2, A2)
  <1>0. /\ Len(A) \in Nat /\ Len(O) \in Nat /\ m + 1 <= Len(A) /\ m + 1 <= Len(O) /\ (m + 1) - 1 = m
        /\ DOMAIN A2 = 1..(Len(A) - 1) /\ DOMAIN A = 1..Len(A)
    <2>1. m + 1 <= Len(A) /\ Len(A2) = Len(A) - 1
      BY DEF Acknowledges, Shifted
    <2>2. Len(A) \in Nat /\ Len(O) \in Nat /\ DOMAIN A2 = 1..Len(A2) /\ DOMAIN A = 1..Len(A)
      OBVIOUS
    <2> QED
      BY <2>1, <2>2
  <1>1. ASSUME NEW i \in DOMAIN A2
        PROVE  \E j \in DOMAIN A : A2[i] = A[j] /\ O2[i] = O[j]
    <2>1. CASE i < m + 1
      <3>1. i \in 1..((m + 1) - 1) /\ i \in 1..Len(A)
        BY <1>0, <2>1, Indices
      <3> QED
        BY <1>0, <3>1 DEF Shifted
    <2>2. CASE ~(i < m + 1)
      <3>1. i \in (m + 1)..(Len(A) - 1) /\ i \in (m + 1)..(Len(O) - 1) /\ i + 1 \in 1..Len(A)
        BY <1>0, <2>2, Indices
      <3> QED
        BY <1>0, <3>1 DEF Shifted
    <2> QED
      BY <2>1, <2>2
  <1> QED
    BY <1>1 DEF Lands, Exact

\* Without the write everything is still reached.
LEMMA AckKeepsHas ==
    ASSUME NEW S, NEW b, NEW F, NEW O \in Seq(Write), NEW A \in Seq(Nat), NEW m \in Nat,
           NEW O2 \in Seq(Write), Acknowledges(m, A), Len(A) <= Len(O),
           Shifted(O, O2, m + 1, 1), Lands(S, b, F, O, A), Comes(S, b, F, O, A)
    PROVE  /\ \A i \in 0..m : HasTo(S, b, O, i) => HasTo(S, b, O2, i)
           /\ \A i \in (m + 1)..Len(O) : HasTo(S, b, O, i) => HasTo(S, b, O2, i - 1)
  <1>0. Len(A) \in Nat /\ Len(O) \in Nat /\ m + 1 <= Len(A) /\ m + 1 <= Len(O)
    BY DEF Acknowledges
  <1>1. /\ \A j \in 1..m : O2[j] = O[j]
        /\ \A j \in (m + 2)..Len(O) : j - 1 \in 1..(Len(O) - 1) /\ O2[j - 1] = O[j]
    <2>1. \A j \in 1..m : O2[j] = O[j]
      <3>1. (m + 1) - 1 = m
        OBVIOUS
      <3> QED
        BY <3>1 DEF Shifted
    <2>2. ASSUME NEW j \in (m + 2)..Len(O)
          PROVE  j - 1 \in 1..(Len(O) - 1) /\ O2[j - 1] = O[j]
      <3>1. j - 1 \in 1..(Len(O) - 1) /\ j - 1 \in (m + 1)..(Len(O) - 1) /\ (j - 1) + 1 = j
        BY <1>0
      <3> QED
        BY <3>1 DEF Shifted
    <2> QED
      BY <2>1, <2>2
  <1>2. O[m + 1].doc \in S => HasTo(S, b, O, m)
    <2> SUFFICES ASSUME O[m + 1].doc \in S PROVE HasTo(S, b, O, m)
      OBVIOUS
    <2>1. m + 1 \in DOMAIN A
      BY <1>0
    <2>2. Place(b, F, A[m + 1]) \in S
      BY <2>1 DEF Lands
    <2>3. CASE m = 0
      BY <2>2, <2>3 DEF Acknowledges, Place, HasTo
    <2>4. CASE m > 0
      <3>1. m \in DOMAIN A
        BY <1>0, <2>4
      <3>2. A[m] # 0 /\ F[A[m]] \in S
        BY <2>2, <2>4, <3>1 DEF Acknowledges, Place
      <3> QED
        BY <3>1, <3>2 DEF Comes
    <2> QED
      BY <2>3, <2>4
  <1>3. ASSUME NEW i \in 0..m, HasTo(S, b, O, i) PROVE HasTo(S, b, O2, i)
    <2>1. 1..i \subseteq 1..m
      OBVIOUS
    <2> QED
      BY ONLY <1>1, <1>3, <2>1 DEF HasTo
  <1>4. ASSUME NEW i \in (m + 1)..Len(O), HasTo(S, b, O, i)
        PROVE  HasTo(S, b, O2, i - 1)
    <2>1. CASE b \in S
      BY <2>1 DEF HasTo
    <2>2. ASSUME NEW j \in 1..i, O[j].doc \in S
          PROVE  HasTo(S, b, O2, i - 1)
      <3>1. CASE j <= m
        <4>1. j \in 1..(i - 1) /\ O2[j] = O[j]
          BY <1>0, <1>1, <3>1
        <4> QED
          BY <2>2, <4>1 DEF HasTo
      <3>2. CASE j = m + 1
        <4>1. HasTo(S, b, O2, m)
          BY <1>0, <1>2, <1>3, <2>2, <3>2
        <4>2. 1..m \subseteq 1..(i - 1)
          BY <1>0
        <4> QED
          BY <4>1, <4>2 DEF HasTo
      <3>3. CASE j > m + 1
        <4>1. j \in (m + 2)..Len(O) /\ j - 1 \in 1..(i - 1)
          BY <1>0, <3>3
        <4>2. O2[j - 1] = O[j]
          BY <1>1, <4>1
        <4> QED
          BY <2>2, <4>1, <4>2 DEF HasTo
      <3> QED
        BY <3>1, <3>2, <3>3
    <2> QED
      BY <1>4, <2>1, <2>2 DEF HasTo
  <1> QED
    BY <1>3, <1>4

LEMMA AckKeepsComes ==
    ASSUME NEW S, NEW b, NEW F, NEW O \in Seq(Write), NEW A \in Seq(Nat), NEW m \in Nat,
           NEW O2 \in Seq(Write), NEW A2 \in Seq(Nat), Acknowledges(m, A), Len(A) <= Len(O),
           Shifted(O, O2, m + 1, 1), Shifted(A, A2, m + 1, 1),
           Lands(S, b, F, O, A), Comes(S, b, F, O, A)
    PROVE  Comes(S, b, F, O2, A2)
  <1>0. /\ Len(A) \in Nat /\ Len(O) \in Nat /\ m + 1 <= Len(A) /\ m + 1 <= Len(O) /\ Len(A2) = Len(A) - 1
        /\ DOMAIN A = 1..Len(A)
    BY DEF Acknowledges, Shifted
  <1>a. /\ \A j \in 1..((m + 1) - 1) : A2[j] = A[j]
        /\ \A j \in (m + 1)..(Len(A) - 1) : A2[j] = A[j + 1]
    BY DEF Shifted
  <1> SUFFICES ASSUME NEW i \in DOMAIN A2, A2[i] # 0, F[A2[i]] \in S
               PROVE  HasTo(S, b, O2, i)
    BY DEF Comes
  <1>1. i \in 1..(Len(A) - 1)
    <2>1. DOMAIN A2 = 1..Len(A2)
      OBVIOUS
    <2> QED
      BY <1>0, <2>1
  <1>2. CASE i < m + 1
    <2>1. A2[i] = A[i] /\ i \in DOMAIN A /\ i \in 0..m
      <3>0. Len(A) <= Len(O) /\ m \in Nat
        OBVIOUS
      <3>1. i \in 1..((m + 1) - 1) /\ i \in 1..Len(A) /\ i \in 0..m
        BY ONLY <1>0, <1>1, <1>2, <3>0, Indices
      <3> QED
        BY <1>0, <1>a, <3>1
    <2>2. HasTo(S, b, O, i)
      BY <2>1 DEF Comes
    <2> QED
      BY <2>1, <2>2, AckKeepsHas
  <1>3. CASE ~(i < m + 1)
    <2>1. A2[i] = A[i + 1] /\ i + 1 \in DOMAIN A /\ i + 1 \in (m + 1)..Len(O) /\ (i + 1) - 1 = i
      <3>1. /\ i \in (m + 1)..(Len(A) - 1) /\ i + 1 \in 1..Len(A) /\ i + 1 \in (m + 1)..Len(O)
            /\ (i + 1) - 1 = i
        <4> DEFINE k == Len(A)
                   l == Len(O)
        <4>1. k \in Nat /\ l \in Nat /\ m \in Nat /\ m + 1 <= k /\ k <= l /\ i \in 1..(k - 1)
          BY <1>0, <1>1
        <4> HIDE DEF k, l
        <4>2. /\ i \in (m + 1)..(k - 1) /\ i + 1 \in 1..k /\ i + 1 \in (m + 1)..l
              /\ (i + 1) - 1 = i
          BY ONLY <1>3, <4>1, Indices
        <4> QED
          BY ONLY <4>2 DEF k, l
      <3> QED
        BY <1>0, <1>a, <3>1
    <2>2. HasTo(S, b, O, i + 1)
      BY <2>1 DEF Comes
    <2>3. HasTo(S, b, O2, (i + 1) - 1)
      BY <2>1, <2>2, AckKeepsHas
    <2> QED
      BY <2>1, <2>3
  <1> QED
    BY <1>2, <1>3

\* A version k is sent, and with it the first m writes are in what the device was sent.
Sends(m, k, F, A) ==
    /\ k \in 1..Len(F) /\ m <= Len(A)
    /\ \A i \in 1..m : A[i] <= k
    /\ \A i \in 1..Len(A) : A[i] <= Len(F)

Renumbered(A, A2, m, k) ==
    /\ Len(A2) = Len(A) - m
    /\ \A i \in 1..(Len(A) - m) : A2[i] = IF A[i + m] <= k THEN 0 ELSE A[i + m] - k

LEMMA WatchKeepsRises ==
    ASSUME NEW S, NEW b, NEW F \in Seq(Game), NEW F2 \in Seq(Game), NEW k \in 1..Len(F),
           Shifted(F, F2, 1, k), Rises(S, b, F)
    PROVE  Rises(S, F[k], F2)
  <1>0. /\ Len(F) \in Nat /\ k \in Nat /\ k >= 1 /\ DOMAIN F = 1..Len(F) /\ DOMAIN F2 = 1..(Len(F) - k)
        /\ k \in DOMAIN F
    BY DEF Shifted
  <1>1. \A i \in DOMAIN F2 : i + k \in DOMAIN F /\ k < i + k /\ F2[i] = F[i + k]
    <2>1. \A i \in 1..(Len(F) - k) : F2[i] = F[i + k]
      BY DEF Shifted
    <2>2. \A i \in 1..(Len(F) - k) : i + k \in 1..Len(F) /\ k < i + k
      BY <1>0
    <2> QED
      BY <1>0, <2>1, <2>2
  <1>2. \A i, j \in DOMAIN F2 : i < j => i + k < j + k
    BY <1>0
  <1> QED
    BY <1>0, <1>1, <1>2 DEF Rises

\* What was in S at a version not later than k is in S at k.
LEMMA Reached ==
    ASSUME NEW S, NEW b, NEW F \in Seq(Game), NEW k \in 1..Len(F), NEW a \in Nat, a <= k,
           Rises(S, b, F), Place(b, F, a) \in S
    PROVE  F[k] \in S
  <1>0. k \in DOMAIN F /\ (a > 0 => a \in DOMAIN F)
    OBVIOUS
  <1>1. CASE a = 0
    BY <1>0, <1>1 DEF Place, Rises
  <1>2. CASE a > 0
    <2>1. F[a] \in S /\ (a = k \/ a < k)
      BY <1>2 DEF Place
    <2> QED
      BY <1>0, <1>2, <2>1 DEF Rises
  <1> QED
    BY <1>1, <1>2

LEMMA Renumbering ==
    ASSUME NEW F \in Seq(Game), NEW F2 \in Seq(Game), NEW k \in 1..Len(F), NEW a \in Nat, a <= Len(F),
           Shifted(F, F2, 1, k)
    PROVE  a > k => /\ a - k \in Nat /\ a - k > 0 /\ a - k \in 1..(Len(F) - k)
                    /\ Place(F[k], F2, a - k) = F[a] /\ F2[a - k] = F[a]
  <1> SUFFICES ASSUME a > k
               PROVE  /\ a - k \in Nat /\ a - k > 0 /\ a - k \in 1..(Len(F) - k)
                      /\ Place(F[k], F2, a - k) = F[a] /\ F2[a - k] = F[a]
    OBVIOUS
  <1>1. /\ a - k \in Nat /\ a - k > 0 /\ a - k \in 1..(Len(F) - k) /\ (a - k) + k = a /\ a - k # 0
    OBVIOUS
  <1>2. F2[a - k] = F[a]
    BY <1>1 DEF Shifted
  <1> QED
    BY <1>1, <1>2 DEF Place

\* What is the i-th write then was the (i + m)-th one.
Item(F, O, A, F2, O2, A2, m, k, i) ==
    /\ i \in Nat /\ i + m \in DOMAIN A /\ i + m \in m..Len(O)
    /\ A[i + m] \in Nat /\ O2[i] = O[i + m] /\ A2[i] \in Nat
    /\ \/ A2[i] = 0 /\ A[i + m] <= k
       \/ A2[i] # 0 /\ A[i + m] # 0 /\ F2[A2[i]] = F[A[i + m]]

LEMMA LaterIndices ==
    ASSUME NEW f \in Nat, NEW l \in Nat, NEW m \in Nat, m <= f, f <= l, NEW i \in 1..(f - m)
    PROVE  i \in 1..(l - m) /\ i + m \in 1..f /\ i + m \in m..l /\ i \in Nat
  OBVIOUS

LEMMA WatchItems ==
    ASSUME NEW F \in Seq(Game), NEW O \in Seq(Write), NEW A \in Seq(Nat), NEW m \in Nat, NEW k \in Nat,
           NEW F2 \in Seq(Game), NEW O2 \in Seq(Write), NEW A2 \in Seq(Nat), NEW i \in DOMAIN A2,
           Sends(m, k, F, A), Len(A) <= Len(O),
           Shifted(F, F2, 1, k), Shifted(O, O2, 1, m), Renumbered(A, A2, m, k)
    PROVE  Item(F, O, A, F2, O2, A2, m, k, i)
  <1> DEFINE a == A[i + m]
             c == A2[i]
  <1>0. /\ Len(A) \in Nat /\ Len(O) \in Nat /\ m <= Len(A) /\ DOMAIN A = 1..Len(A) /\ DOMAIN A2 = 1..Len(A2)
        /\ c \in Nat
    BY DEF Sends
  <1>1. i \in 1..(Len(A) - m)
    BY <1>0 DEF Renumbered
  <1>2. i \in 1..(Len(O) - m) /\ i + m \in 1..Len(A) /\ i + m \in m..Len(O) /\ i \in Nat
    <2> DEFINE f == Len(A)
               l == Len(O)
    <2>1. f \in Nat /\ l \in Nat /\ m \in Nat /\ m <= f /\ f <= l /\ i \in 1..(f - m)
      BY <1>0, <1>1
    <2> HIDE DEF f, l
    <2>2. i \in 1..(l - m) /\ i + m \in 1..f /\ i + m \in m..l /\ i \in Nat
      BY ONLY <2>1, LaterIndices
    <2> QED
      BY ONLY <2>2 DEF f, l
  <1>3. O2[i] = O[i + m]
    BY <1>2 DEF Shifted
  <1>4. c = IF a <= k THEN 0 ELSE a - k
    BY <1>1 DEF Renumbered
  <1>5. a \in Nat
    <2>1. i + m \in DOMAIN A
      BY ONLY <1>0, <1>2
    <2> QED
      BY SMTT(60), <2>1
  <1>6. a <= Len(F)
    BY <1>2 DEF Sends
  <1>7. k \in 1..Len(F)
    BY DEF Sends
  <1> HIDE DEF a, c
  <1>8. a > k => a # 0 /\ a - k # 0 /\ F2[a - k] = F[a]
    BY <1>5, <1>6, <1>7, Renumbering
  <1>9. \/ c = 0 /\ a <= k
        \/ c # 0 /\ a # 0 /\ F2[c] = F[a]
    <2>1. CASE a <= k
      BY ONLY <1>4, <2>1
    <2>2. CASE ~(a <= k)
      <3>1. a > k
        BY ONLY <1>5, <1>7, <2>2
      <3> QED
        BY ONLY <1>4, <1>8, <2>2, <3>1
    <2> QED
      BY ONLY <2>1, <2>2
  <1> QED
    BY <1>0, <1>2, <1>3, <1>5, <1>9 DEF Item, a, c

LEMMA WatchKeepsLands ==
    ASSUME NEW S, NEW b, NEW F \in Seq(Game), NEW O \in Seq(Write), NEW A \in Seq(Nat), NEW m \in Nat,
           NEW k \in Nat,
           NEW F2 \in Seq(Game), NEW O2 \in Seq(Write), NEW A2 \in Seq(Nat),
           Sends(m, k, F, A), Len(A) <= Len(O),
           Shifted(F, F2, 1, k), Shifted(O, O2, 1, m), Renumbered(A, A2, m, k), Rises(S, b, F)
    PROVE  /\ Lands(S, b, F, O, A) => Lands(S, F[k], F2, O2, A2)
           /\ Exact(S, F, O, A) => Exact(S, F2, O2, A2)
  <1>0. k \in 1..Len(F)
    BY DEF Sends
  <1>1. ASSUME NEW i \in DOMAIN A2, Lands(S, b, F, O, A), O2[i].doc \in S
        PROVE  Place(F[k], F2, A2[i]) \in S
    <2> DEFINE a == A[i + m]
    <2>1. Item(F, O, A, F2, O2, A2, m, k, i)
      BY WatchItems
    <2>2. Place(b, F, a) \in S
      BY <1>1, <2>1 DEF Item, Lands
    <2>3. A2[i] = 0 /\ a <= k /\ a \in Nat => F[k] \in S
      BY <1>0, <2>2, Reached
    <2> QED
      BY <2>1, <2>2, <2>3 DEF Item, Place
  <1>2. ASSUME NEW i \in DOMAIN A2, Exact(S, F, O, A), A2[i] # 0, F2[A2[i]] \in S
        PROVE  O2[i].doc \in S
    <2>1. Item(F, O, A, F2, O2, A2, m, k, i)
      BY WatchItems
    <2>2. A[i + m] # 0 /\ F[A[i + m]] \in S
      BY <1>2, <2>1 DEF Item
    <2> QED
      BY <1>2, <2>1, <2>2 DEF Item, Exact
  <1> QED
    BY <1>1, <1>2 DEF Lands, Exact

LEMMA WatchKeepsHas ==
    ASSUME NEW S, NEW b, NEW F \in Seq(Game), NEW O \in Seq(Write), NEW A \in Seq(Nat), NEW m \in Nat,
           NEW k \in Nat, NEW O2 \in Seq(Write),
           Sends(m, k, F, A), Len(A) <= Len(O), Shifted(O, O2, 1, m), Rises(S, b, F), Lands(S, b, F, O, A)
    PROVE  \A i \in m..Len(O) : HasTo(S, b, O, i) => HasTo(S, F[k], O2, i - m)
  <1>0. Len(A) \in Nat /\ Len(O) \in Nat /\ m <= Len(A) /\ k \in 1..Len(F)
    BY DEF Sends
  <1> SUFFICES ASSUME NEW i \in m..Len(O), HasTo(S, b, O, i)
               PROVE  HasTo(S, F[k], O2, i - m)
    OBVIOUS
  <1>1. CASE b \in S
    <2>1. F[k] \in S
      BY <1>0, <1>1 DEF Rises
    <2> QED
      BY <2>1 DEF HasTo
  <1>2. ASSUME NEW j \in 1..i, O[j].doc \in S
        PROVE  HasTo(S, F[k], O2, i - m)
    <2>1. CASE j <= m
      <3>1. j \in 1..m /\ j \in DOMAIN A
        BY <1>0, <2>1
      <3>2. A[j] \in Nat /\ A[j] <= k
        BY <3>1 DEF Sends
      <3>3. Place(b, F, A[j]) \in S
        BY <1>2, <3>1 DEF Lands
      <3>4. F[k] \in S
        BY <1>0, <3>2, <3>3, Reached
      <3> QED
        BY <3>4 DEF HasTo
    <2>2. CASE j > m
      <3>1. j - m \in 1..(i - m) /\ j - m \in 1..(Len(O) - m) /\ (j - m) + m = j
        BY <1>0, <2>2
      <3>2. O2[j - m] = O[j]
        BY <3>1 DEF Shifted
      <3> QED
        BY <1>2, <3>1, <3>2 DEF HasTo
    <2> QED
      BY <2>1, <2>2
  <1> QED
    BY <1>1, <1>2 DEF HasTo

LEMMA WatchKeepsComes ==
    ASSUME NEW S, NEW b, NEW F \in Seq(Game), NEW O \in Seq(Write), NEW A \in Seq(Nat), NEW m \in Nat,
           NEW k \in Nat,
           NEW F2 \in Seq(Game), NEW O2 \in Seq(Write), NEW A2 \in Seq(Nat),
           Sends(m, k, F, A), Len(A) <= Len(O),
           Shifted(F, F2, 1, k), Shifted(O, O2, 1, m), Renumbered(A, A2, m, k), Rises(S, b, F),
           Lands(S, b, F, O, A), Comes(S, b, F, O, A)
    PROVE  Comes(S, F[k], F2, O2, A2)
  <1>0. k \in 1..Len(F)
    BY DEF Sends
  <1> SUFFICES ASSUME NEW i \in DOMAIN A2, A2[i] # 0, F2[A2[i]] \in S
               PROVE  HasTo(S, F[k], O2, i)
    BY DEF Comes
  <1>1. Item(F, O, A, F2, O2, A2, m, k, i)
    BY WatchItems
  <1>2. i + m \in DOMAIN A /\ A[i + m] # 0 /\ F[A[i + m]] \in S
    BY <1>1 DEF Item
  <1>3. HasTo(S, b, O, i + m)
    BY <1>2 DEF Comes
  <1>4. i + m \in m..Len(O) /\ i \in Nat
    BY <1>1 DEF Item
  <1>5. HasTo(S, F[k], O2, (i + m) - m)
    BY <1>3, <1>4, WatchKeepsHas
  <1>6. (i + m) - m = i
    BY <1>4
  <1> QED
    BY <1>5, <1>6

-----------------------------------------------------------------------------
(***************************************************************************)
(* What an acknowledgement, a version and a commit do to the trail of such *)
(* a set on a device.                                                      *)
(***************************************************************************)
LEMMA AckShape ==
    ASSUME RoundInv, NEW z \in Players, Ack(z), ~(at[z][acked[z] + 1] > Shown(z))
    PROVE  /\ Acknowledges(acked[z], at[z])
           /\ own'[z] \in Seq(Write) /\ Shifted(own[z], own'[z], acked[z] + 1, 1)
           /\ at'[z] \in Seq(Nat) /\ Shifted(at[z], at'[z], acked[z] + 1, 1)
           /\ UNCHANGED <<server, base, feed, acked>>
           /\ \A x \in Players \ {z} : own'[x] = own[x] /\ at'[x] = at[x]
  <1> DEFINE m == acked[z]
             A == at[z]
             O == own[z]
             A2 == at'[z]
             O2 == own'[z]
  <1>0. /\ IndInv /\ A \in Seq(Nat) /\ O \in Seq(Write) /\ m \in Nat /\ m <= Len(A) /\ Len(A) <= Len(O)
    BY RoundTyped DEF RoundInv
  <1>1. /\ Forgotten(z, m + 1, 1) /\ acked' = acked
        /\ \A i \in 1..(Len(A) - 1) : A2[i] = A[IF i < m + 1 THEN i ELSE i + 1]
    BY <1>0, AckForgets
  <1>2. /\ Len(O2) = Len(O) - 1 /\ Len(A2) = Len(A) - 1 /\ O2 \in Seq(Write) /\ A2 \in Seq(Nat)
        /\ \A i \in 1..(Len(O) - 1) : O2[i] = O[IF i < m + 1 THEN i ELSE i + 1]
        /\ \A x \in Players \ {z} : own'[x] = own[x] /\ at'[x] = at[x]
    BY <1>1 DEF Forgotten
  <1>3. m + 1 <= Len(A) /\ UNCHANGED <<server, base, feed>>
    BY DEF Ack
  <1>4. /\ \A i, j \in DOMAIN A : i < j => A[i] <= A[j]
        /\ m > 0 => A[m] > 0
    BY DEF RoundInv, FeedSound, Feeds
  <1>5. ~(A[m + 1] > IF m = 0 THEN 0 ELSE A[m])
    BY DEF Shown
  <1> HIDE DEF m, A, O, A2, O2
  <1>6. Len(A) \in Nat /\ Len(O) \in Nat /\ m + 1 \in DOMAIN A
    BY <1>0, <1>3
  <1>7. A[m + 1] \in Nat
    BY <1>0, <1>6
  <1>8. m > 0 => m \in DOMAIN A /\ A[m] \in Nat /\ m < m + 1
    BY <1>0, <1>6
  <1>9. Acknowledges(m, A)
    <2>1. m = 0 => A[1] = 0
      BY <1>5, <1>7
    <2>2. m > 0 => A[m] # 0 /\ A[m + 1] = A[m]
      BY <1>4, <1>5, <1>6, <1>7, <1>8
    <2> QED
      BY <1>3, <2>1, <2>2 DEF Acknowledges
  <1>10. \A l \in Nat : /\ \A i \in 1..((m + 1) - 1) : i < m + 1 /\ (m + 1 <= l => i \in 1..(l - 1))
                        /\ \A i \in (m + 1)..(l - 1) : ~(i < m + 1) /\ i \in 1..(l - 1)
    BY <1>0
  <1>11. m + 1 <= Len(A) /\ m + 1 <= Len(O) /\ (m + 1) - 1 + 1 = m + 1
    BY <1>0, <1>3, <1>6
  <1>12. Shifted(A, A2, m + 1, 1)
    BY <1>1, <1>2, <1>6, <1>10, <1>11 DEF Shifted
  <1>13. Shifted(O, O2, m + 1, 1)
    BY <1>2, <1>6, <1>10, <1>11 DEF Shifted
  <1> QED
    BY <1>1, <1>2, <1>3, <1>9, <1>12, <1>13 DEF m, A, O, A2, O2

LEMMA WatchShape ==
    ASSUME RoundInv, NEW z \in Players, NEW k \in 1..Len(feed[z]), Watch(z, k)
    PROVE  /\ Sends(acked[z], k, feed[z], at[z])
           /\ own'[z] \in Seq(Write) /\ Shifted(own[z], own'[z], 1, acked[z])
           /\ at'[z] \in Seq(Nat) /\ Renumbered(at[z], at'[z], acked[z], k)
           /\ feed'[z] \in Seq(Game) /\ Shifted(feed[z], feed'[z], 1, k)
           /\ base'[z] = feed[z][k] /\ server' = server
           /\ \A x \in Players \ {z} : /\ own'[x] = own[x] /\ at'[x] = at[x]
                                       /\ base'[x] = base[x] /\ feed'[x] = feed[x]
  <1> DEFINE m == acked[z]
             A == at[z]
             O == own[z]
             F == feed[z]
             A2 == at'[z]
             O2 == own'[z]
             F2 == feed'[z]
  <1>0. /\ IndInv /\ A \in Seq(Nat) /\ O \in Seq(Write) /\ m \in Nat /\ m <= Len(A) /\ Len(A) <= Len(O)
        /\ F \in Seq(Game) /\ base \in [Players -> Game] /\ feed \in [Players -> Seq(Game)]
    BY RoundTyped DEF RoundInv
  <1>1. /\ Forgotten(z, 1, m)
        /\ \A i \in 1..(Len(A) - m) : A2[i] = IF A[i + m] <= k THEN 0 ELSE A[i + m] - k
    BY <1>0, WatchForgets
  <1>2. /\ Len(O2) = Len(O) - m /\ Len(A2) = Len(A) - m /\ O2 \in Seq(Write) /\ A2 \in Seq(Nat)
        /\ \A i \in 1..(Len(O) - m) : O2[i] = O[IF i < 1 THEN i ELSE i + m]
        /\ \A x \in Players \ {z} : own'[x] = own[x] /\ at'[x] = at[x]
    BY <1>1 DEF Forgotten
  <1>3. /\ Shown(z) <= k /\ server' = server
        /\ base' = [base EXCEPT ![z] = F[k]]
        /\ feed' = [feed EXCEPT ![z] = SubSeq(F, k + 1, Len(F))]
    BY DEF Watch
  <1>4. /\ \A i, j \in DOMAIN A : i < j => A[i] <= A[j]
        /\ \A i \in DOMAIN A : A[i] <= Len(F)
    BY DEF RoundInv, FeedSound, Feeds
  <1>5. m = 0 \/ A[m] <= k
    BY <1>3 DEF Shown
  <1>6. F2 = SubSeq(F, k + 1, Len(F)) /\ base'[z] = F[k]
        /\ \A x \in Players \ {z} : base'[x] = base[x] /\ feed'[x] = feed[x]
    BY <1>0, <1>3
  <1>7. k \in 1..Len(F)
    OBVIOUS
  <1> HIDE DEF m, A, O, F, A2, O2, F2
  <1>8. Len(A) \in Nat /\ Len(O) \in Nat /\ Len(F) \in Nat /\ k \in Nat /\ k >= 1 /\ k <= Len(F)
        /\ DOMAIN A = 1..Len(A)
    BY <1>0, <1>7
  <1>9. F2 \in Seq(Game) /\ Len(F2) = Len(F) - k /\ \A i \in 1..(Len(F) - k) : F2[i] = F[i + k]
    BY <1>0, <1>6, <1>8, CutItems
  <1>10. Shifted(F, F2, 1, k)
    <2>1. 1 - 1 + k <= Len(F) /\ \A i \in 1..(1 - 1) : FALSE
      BY <1>8
    <2> QED
      BY <1>9, <2>1 DEF Shifted
  <1>11. Shifted(O, O2, 1, m)
    <2>1. 1 - 1 + m <= Len(O) /\ \A i \in 1..(1 - 1) : FALSE
      BY <1>0, <1>8
    <2>2. \A i \in 1..(Len(O) - m) : ~(i < 1)
      BY <1>0, <1>8
    <2> QED
      BY <1>2, <2>1, <2>2 DEF Shifted
  <1>12. Renumbered(A, A2, m, k)
    BY <1>1, <1>2 DEF Renumbered
  <1>13. Sends(m, k, F, A)
    <2>1. ASSUME NEW i \in 1..m
          PROVE  A[i] <= k
      <3>1. i \in DOMAIN A /\ m \in DOMAIN A /\ m # 0 /\ (i = m \/ i < m)
        BY <1>0, <1>8
      <3>2. A[i] \in Nat /\ A[m] \in Nat
        BY <1>0, <3>1
      <3> QED
        BY <1>4, <1>5, <1>8, <3>1, <3>2
    <2> QED
      BY <1>0, <1>4, <1>7, <1>8, <2>1 DEF Sends
  <1> QED
    BY <1>2, <1>3, <1>6, <1>9, <1>10, <1>11, <1>12, <1>13 DEF m, A, O, F, A2, O2, F2

\* The last word of a device.
LastIn(S, b, O) == IF O = << >> THEN b \in S ELSE O[Len(O)].doc \in S

LEMMA AckKeepsLast ==
    ASSUME NEW S, NEW b, NEW F, NEW O \in Seq(Write), NEW A \in Seq(Nat), NEW m \in Nat,
           NEW O2 \in Seq(Write), Acknowledges(m, A), Len(A) <= Len(O), Shifted(O, O2, m + 1, 1),
           Lands(S, b, F, O, A), Exact(S, F, O, A), LastIn(S, b, O)
    PROVE  LastIn(S, b, O2)
  <1> DEFINE n == Len(O)
  <1>0. /\ Len(A) \in Nat /\ n \in Nat /\ m + 1 <= Len(A) /\ m + 1 <= n /\ O # << >>
        /\ DOMAIN A = 1..Len(A)
    BY DEF Acknowledges
  <1>1. Len(O2) = n - 1 /\ (O2 = << >> <=> n - 1 = 0)
    BY DEF Shifted
  <1>2. O[n].doc \in S
    BY <1>0 DEF LastIn
  <1>3. CASE m + 1 < n
    <2>1. n - 1 \in (m + 1)..(n - 1) /\ n - 1 # 0 /\ (n - 1) + 1 = n
      <3> HIDE DEF n
      <3> QED
        BY <1>0, <1>3
    <2>2. O2[n - 1] = O[n]
      BY <2>1 DEF Shifted
    <2> QED
      BY <1>1, <1>2, <2>1, <2>2 DEF LastIn
  <1>4. CASE m + 1 = n
    <2>1. m + 1 \in DOMAIN A /\ n - 1 = m
      BY <1>0, <1>4
    <2>2. Place(b, F, A[m + 1]) \in S
      BY <1>2, <1>4, <2>1 DEF Lands
    <2>3. CASE m = 0
      BY <1>1, <2>1, <2>2, <2>3 DEF Acknowledges, Place, LastIn
    <2>4. CASE m > 0
      <3>1. m \in DOMAIN A /\ m \in 1..((m + 1) - 1) /\ m # 0
        BY <1>0, <2>4
      <3>2. A[m] # 0 /\ F[A[m]] \in S
        BY <2>2, <2>4 DEF Acknowledges, Place
      <3>3. O[m].doc \in S
        BY <3>1, <3>2 DEF Exact
      <3>4. O2[m] = O[m]
        BY <3>1 DEF Shifted
      <3> QED
        BY <1>1, <2>1, <3>1, <3>3, <3>4 DEF LastIn
    <2> QED
      BY <2>3, <2>4
  <1> QED
    BY <1>0, <1>3, <1>4

LEMMA WatchKeepsLast ==
    ASSUME NEW S, NEW b, NEW F \in Seq(Game), NEW O \in Seq(Write), NEW A \in Seq(Nat), NEW m \in Nat,
           NEW k \in Nat, NEW O2 \in Seq(Write),
           Sends(m, k, F, A), Len(A) <= Len(O), Shifted(O, O2, 1, m), Rises(S, b, F), Lands(S, b, F, O, A),
           LastIn(S, b, O)
    PROVE  LastIn(S, F[k], O2)
  <1> DEFINE n == Len(O)
  <1>0. /\ Len(A) \in Nat /\ n \in Nat /\ m <= Len(A) /\ k \in 1..Len(F) /\ k \in DOMAIN F
        /\ DOMAIN A = 1..Len(A)
    BY DEF Sends
  <1>1. Len(O2) = n - m /\ (O2 = << >> <=> n - m = 0) /\ (O = << >> <=> n = 0)
    BY DEF Shifted
  <1>2. CASE m < n
    <2>1. n - m \in 1..(n - m) /\ n - m # 0 /\ (n - m) + m = n /\ n # 0
      BY <1>0, <1>2
    <2>2. O2[n - m] = O[n]
      BY <2>1 DEF Shifted
    <2> QED
      BY <1>1, <2>1, <2>2 DEF LastIn
  <1>3. CASE m = n
    <2>1. O2 = << >>
      BY <1>0, <1>1, <1>3
    <2>2. CASE m = 0
      <3>1. b \in S
        BY <1>1, <1>3, <2>2 DEF LastIn
      <3> QED
        BY <1>0, <2>1, <3>1 DEF Rises, LastIn
    <2>3. CASE m > 0
      <3>1. m \in 1..m /\ m \in DOMAIN A /\ O # << >>
        BY <1>0, <1>1, <1>3, <2>3
      <3>2. A[m] \in Nat /\ A[m] <= k
        BY <3>1 DEF Sends
      <3>3. Place(b, F, A[m]) \in S
        BY <1>3, <3>1 DEF Lands, LastIn
      <3>4. F[k] \in S
        BY <1>0, <3>2, <3>3, Reached
      <3> QED
        BY <2>1, <3>4 DEF LastIn
    <2> QED
      BY <2>2, <2>3
  <1> QED
    BY <1>0, <1>2, <1>3

\* The trail of S on x's device.
Trail(S, x) == Rises(S, base[x], feed[x]) /\ Lands(S, base[x], feed[x], own[x], at[x])
Exactly(S, x) == Exact(S, feed[x], own[x], at[x])
Has(S, x) == HasTo(S, base[x], own[x], Len(own[x]))
Sourced(S, x) ==
    /\ Comes(S, base[x], feed[x], own[x], at[x])
    /\ server \in S => HasTo(S, base[x], own[x], Len(at[x]))
Ending(S, x) == LastIn(S, base[x], own[x])

LEMMA AckTrail ==
    ASSUME RoundInv, NEW z \in Players, Ack(z), NEW S, Trail(S, z)
    PROVE  /\ Trail(S, z)'
           /\ Exactly(S, z) => Exactly(S, z)' /\ (Ending(S, z) => Ending(S, z)')
           /\ Sourced(S, z) => Sourced(S, z)' /\ (Has(S, z) => Has(S, z)')
  <1> DEFINE m == acked[z]
             A == at[z]
             O == own[z]
             F == feed[z]
             b == base[z]
             A2 == at'[z]
             O2 == own'[z]
             F2 == feed'[z]
             b2 == base'[z]
  <1>0. IndInv /\ A \in Seq(Nat) /\ O \in Seq(Write) /\ m \in Nat /\ Len(A) <= Len(O)
    BY RoundTyped DEF RoundInv
  <1>1. CASE at[z][acked[z] + 1] > Shown(z)
    <2>1. own' = own /\ at' = at
      BY <1>0, <1>1, AckForgets
    <2>2. UNCHANGED <<server, base, feed>>
      BY DEF Ack
    <2> QED
      BY <2>1, <2>2 DEF Trail, Exactly, Sourced, Has, Ending
  <1>2. CASE ~(at[z][acked[z] + 1] > Shown(z))
    <2>1. /\ Acknowledges(m, A)
          /\ O2 \in Seq(Write) /\ Shifted(O, O2, m + 1, 1)
          /\ A2 \in Seq(Nat) /\ Shifted(A, A2, m + 1, 1)
          /\ server' = server /\ b2 = b /\ F2 = F
      BY <1>2, AckShape
    <2>2. Rises(S, b, F) /\ Lands(S, b, F, O, A)
      BY DEF Trail
    <2> HIDE DEF m, A, O, F, b, A2, O2, F2, b2
    <2>3. Lands(S, b, F, O2, A2) /\ (Exact(S, F, O, A) => Exact(S, F, O2, A2))
      BY <1>0, <2>1, <2>2, AckKeepsLands
    <2>4. Exact(S, F, O, A) /\ LastIn(S, b, O) => LastIn(S, b, O2)
      BY <1>0, <2>1, <2>2, AckKeepsLast
    <2>5. ASSUME Comes(S, b, F, O, A)
          PROVE  /\ Comes(S, b, F, O2, A2)
                 /\ HasTo(S, b, O, Len(O)) => HasTo(S, b, O2, Len(O2))
                 /\ HasTo(S, b, O, Len(A)) => HasTo(S, b, O2, Len(A2))
      <3>1. Comes(S, b, F, O2, A2)
        BY <1>0, <2>1, <2>2, <2>5, AckKeepsComes
      <3>2. \A i \in (m + 1)..Len(O) : HasTo(S, b, O, i) => HasTo(S, b, O2, i - 1)
        BY <1>0, <2>1, <2>2, <2>5, AckKeepsHas
      <3>3. m + 1 <= Len(A) /\ Len(O2) = Len(O) - 1 /\ Len(A2) = Len(A) - 1
        BY <2>1 DEF Acknowledges, Shifted
      <3>4. Len(O) \in (m + 1)..Len(O) /\ Len(A) \in (m + 1)..Len(O)
        BY <1>0, <3>3
      <3> QED
        BY <3>1, <3>2, <3>3, <3>4
    <2>6. Trail(S, z)'
      BY <2>1, <2>2, <2>3 DEF Trail, A2, O2, F2, b2
    <2>7. Exactly(S, z) => Exactly(S, z)' /\ (Ending(S, z) => Ending(S, z)')
      BY <2>1, <2>3, <2>4 DEF Exactly, Ending, A, O, F, b, A2, O2, F2, b2
    <2>8. Sourced(S, z) => Sourced(S, z)' /\ (Has(S, z) => Has(S, z)')
      BY <2>1, <2>5 DEF Sourced, Has, A, O, F, b, A2, O2, F2, b2
    <2> QED
      BY <2>6, <2>7, <2>8
  <1> QED
    BY <1>1, <1>2

LEMMA WatchTrail ==
    ASSUME RoundInv, NEW z \in Players, NEW k \in 1..Len(feed[z]), Watch(z, k), NEW S, Trail(S, z)
    PROVE  /\ Trail(S, z)'
           /\ Exactly(S, z) => Exactly(S, z)' /\ (Ending(S, z) => Ending(S, z)')
           /\ Sourced(S, z) => Sourced(S, z)' /\ (Has(S, z) => Has(S, z)')
  <1> DEFINE m == acked[z]
             A == at[z]
             O == own[z]
             F == feed[z]
             b == base[z]
             A2 == at'[z]
             O2 == own'[z]
             F2 == feed'[z]
             b2 == base'[z]
  <1>0. /\ IndInv /\ A \in Seq(Nat) /\ O \in Seq(Write) /\ m \in Nat /\ Len(A) <= Len(O)
        /\ F \in Seq(Game) /\ k \in Nat
    BY RoundTyped DEF RoundInv
  <1>1. /\ Sends(m, k, F, A)
        /\ O2 \in Seq(Write) /\ Shifted(O, O2, 1, m)
        /\ A2 \in Seq(Nat) /\ Renumbered(A, A2, m, k)
        /\ F2 \in Seq(Game) /\ Shifted(F, F2, 1, k)
        /\ b2 = F[k] /\ server' = server
    BY WatchShape
  <1>2. Rises(S, b, F) /\ Lands(S, b, F, O, A) /\ k \in 1..Len(F)
    BY DEF Trail
  <1> HIDE DEF m, A, O, F, b, A2, O2, F2, b2
  <1>3. Rises(S, F[k], F2)
    BY <1>0, <1>1, <1>2, WatchKeepsRises
  <1>4. Lands(S, F[k], F2, O2, A2) /\ (Exact(S, F, O, A) => Exact(S, F2, O2, A2))
    BY <1>0, <1>1, <1>2, WatchKeepsLands
  <1>5. LastIn(S, b, O) => LastIn(S, F[k], O2)
    BY <1>0, <1>1, <1>2, WatchKeepsLast
  <1>6. Comes(S, b, F, O, A) => Comes(S, F[k], F2, O2, A2)
    BY <1>0, <1>1, <1>2, WatchKeepsComes
  <1>7. /\ HasTo(S, b, O, Len(O)) => HasTo(S, F[k], O2, Len(O2))
        /\ HasTo(S, b, O, Len(A)) => HasTo(S, F[k], O2, Len(A2))
    <2>1. \A i \in m..Len(O) : HasTo(S, b, O, i) => HasTo(S, F[k], O2, i - m)
      BY <1>0, <1>1, <1>2, WatchKeepsHas
    <2>2. m <= Len(A) /\ Len(O2) = Len(O) - m /\ Len(A2) = Len(A) - m
      BY <1>1 DEF Sends, Shifted, Renumbered
    <2>3. Len(O) \in m..Len(O) /\ Len(A) \in m..Len(O)
      BY <1>0, <2>2
    <2> QED
      BY <2>1, <2>2, <2>3
  <1>8. Trail(S, z)'
    BY <1>1, <1>3, <1>4 DEF Trail, A2, O2, F2, b2
  <1>9. Exactly(S, z) => Exactly(S, z)' /\ (Ending(S, z) => Ending(S, z)')
    BY <1>1, <1>4, <1>5 DEF Exactly, Ending, A, O, F, b, A2, O2, F2, b2
  <1>10. Sourced(S, z) => Sourced(S, z)' /\ (Has(S, z) => Has(S, z)')
    <2>1. server' = server
      BY <1>1
    <2>2. Sourced(S, z) => /\ Comes(S, F[k], F2, O2, A2)
                           /\ server \in S => HasTo(S, F[k], O2, Len(A2))
      BY <1>6, <1>7 DEF Sourced, A, O, F, b
    <2> QED
      BY <1>1, <1>7, <2>1, <2>2 DEF Sourced, Has, A, O, F, b, A2, O2, F2, b2
  <1> QED
    BY <1>8, <1>9, <1>10

\* The backend has the last version on its way, or the one the device was sent.
LEMMA RisesServer ==
    ASSUME RoundInv, NEW x \in Players, NEW S, Rises(S, base[x], feed[x])
    PROVE  /\ base[x] \in S => server \in S
           /\ \A i \in DOMAIN feed[x] : feed[x][i] \in S => server \in S
  <1> DEFINE F == feed[x]
             b == base[x]
  <1>1. F \in Seq(Game)
    BY RoundTyped DEF RoundInv
  <1>2. server = IF F = << >> THEN b ELSE F[Len(F)]
    BY DEF RoundInv, FeedSound, Feeds
  <1> HIDE DEF F, b
  <1>3. F # << >> => Len(F) \in DOMAIN F
    BY <1>1
  <1>4. \A i \in DOMAIN F : F # << >> /\ (i = Len(F) \/ i < Len(F))
    BY <1>1
  <1> QED
    BY <1>2, <1>3, <1>4 DEF Rises, F, b

LEMMA CommitItems ==
    ASSUME RoundInv, NEW z \in Players, Commit(z), NEW x \in Players
    PROVE  /\ base' = base /\ own' = own
           /\ \A i \in DOMAIN at'[x] :
                  \/ /\ i \in DOMAIN at[x] /\ at'[x][i] = at[x][i]
                     /\ at[x][i] # 0 => at[x][i] \in DOMAIN feed[x]
                  \/ x = z /\ i = Len(at[z]) + 1 /\ at'[x][i] = Len(feed'[x])
           /\ Len(at'[x]) = IF x = z THEN Len(at[x]) + 1 ELSE Len(at[x])
  <1> DEFINE A == at[x]
             A2 == at'[x]
             F == feed[x]
             n == Len(feed'[x])
  <1>0. A \in Seq(Nat) /\ F \in Seq(Game)
    BY RoundTyped DEF RoundInv
  <1>1. base' = base /\ own' = own
    BY DEF Commit
  <1>2. \A i \in DOMAIN A : A[i] <= Len(F)
    BY DEF RoundInv, FeedSound, Feeds
  <1>3. IF x = z THEN A2 = Append(A, n) ELSE A2 = A
    BY CommitWaits
  <1> HIDE DEF A, A2, F, n
  <1>4. \A i \in DOMAIN A : A[i] # 0 => A[i] \in DOMAIN F
    BY <1>0, <1>2
  <1>5. x = z => /\ Len(A2) = Len(A) + 1
                 /\ \A i \in DOMAIN A2 : \/ i \in DOMAIN A /\ A2[i] = A[i]
                                         \/ i = Len(A) + 1 /\ A2[i] = n
    BY <1>0, <1>3
  <1>6. x # z => Len(A2) = Len(A) /\ \A i \in DOMAIN A2 : i \in DOMAIN A /\ A2[i] = A[i]
    BY <1>3
  <1> QED
    BY <1>1, <1>4, <1>5, <1>6 DEF A, A2, F, n

LEMMA CommitTrail ==
    ASSUME RoundInv, NEW z \in Players, Commit(z), NEW x \in Players, NEW S, Trail(S, x),
           server \in S => server' \in S,
           own[z][Len(at[z]) + 1].doc \in S => server' \in S
    PROVE  /\ Trail(S, x)'
           /\ Exactly(S, x) /\ (server' \in S => own[z][Len(at[z]) + 1].doc \in S) => Exactly(S, x)'
           /\ Sourced(S, x) /\ (server' \in S => server \in S \/ (x = z /\ own[z][Len(at[z]) + 1].doc \in S))
                  => Sourced(S, x)'
           /\ (Has(S, x) <=> Has(S, x)') /\ (Ending(S, x) <=> Ending(S, x)')
  <1> DEFINE A == at[x]
             O == own[x]
             F == feed[x]
             b == base[x]
             A2 == at'[x]
             F2 == feed'[x]
             s == server
             s2 == server'
             n == Len(at[z]) + 1
             d == own[z][n].doc
  <1>0. A \in Seq(Nat) /\ Len(A) \in Nat
    <2>1. A \in Seq(Nat)
      BY RoundTyped DEF RoundInv
    <2> QED
      BY <2>1
  <1>1. /\ F \in Seq(Game) /\ F2 \in Seq(Game)
        /\ \A i \in DOMAIN F : i \in DOMAIN F2 /\ F2[i] = F[i]
        /\ \A i \in DOMAIN F2 : i \in DOMAIN F \/ (i = Len(F2) /\ F2[i] = s2)
        /\ s2 = IF F2 = << >> THEN b ELSE F2[Len(F2)]
    BY CommitFeeds
  <1>2. /\ b \in S => s \in S
        /\ \A i \in DOMAIN F : F[i] \in S => s \in S
    BY RisesServer DEF Trail
  <1>3. /\ base' = base /\ own' = own
        /\ \A i \in DOMAIN A2 : \/ i \in DOMAIN A /\ A2[i] = A[i] /\ (A[i] # 0 => A[i] \in DOMAIN F)
                                \/ x = z /\ i = n /\ A2[i] = Len(F2)
        /\ Len(A2) = IF x = z THEN Len(A) + 1 ELSE Len(A)
    BY CommitItems
  <1>4. Rises(S, b, F) /\ Lands(S, b, F, O, A)
    BY DEF Trail
  <1>5. (s \in S => s2 \in S) /\ (d \in S => s2 \in S)
    OBVIOUS
  <1>6. x = z => d = O[n].doc /\ n = Len(A) + 1
    OBVIOUS
  <1> HIDE DEF A, O, F, b, A2, F2, s, s2, n, d
  <1>7. \A i \in DOMAIN F2 : i \in Nat /\ i <= Len(F2)
    BY <1>1
  <1>8. Place(b, F2, Len(F2)) = s2
    <2>1. F2 = << >> <=> Len(F2) = 0
      BY <1>1
    <2> QED
      BY <1>1, <2>1 DEF Place
  <1>9. Rises(S, b, F2)
    <2>1. ASSUME b \in S, NEW i \in DOMAIN F2
          PROVE  F2[i] \in S
      BY <1>1, <1>2, <1>4, <1>5, <2>1 DEF Rises
    <2>2. ASSUME NEW i \in DOMAIN F2, NEW j \in DOMAIN F2, i < j, F2[i] \in S
          PROVE  F2[j] \in S
      <3>1. i \in DOMAIN F
        <4>1. i # Len(F2)
          BY <1>7, <2>2
        <4> QED
          BY <1>1, <4>1
      <3>2. F[i] \in S /\ s2 \in S
        BY <1>1, <1>2, <1>5, <2>2, <3>1
      <3>3. j \in DOMAIN F => F[j] \in S
        BY <1>4, <2>2, <3>1, <3>2 DEF Rises
      <3> QED
        BY <1>1, <3>2, <3>3
    <2> QED
      BY <2>1, <2>2 DEF Rises
  <1>10. Lands(S, b, F2, O, A2)
    <2> SUFFICES ASSUME NEW i \in DOMAIN A2, O[i].doc \in S
                 PROVE  Place(b, F2, A2[i]) \in S
      BY DEF Lands
    <2>1. CASE i \in DOMAIN A /\ A2[i] = A[i] /\ (A[i] # 0 => A[i] \in DOMAIN F)
      <3>1. Place(b, F, A[i]) \in S
        BY <1>4, <2>1 DEF Lands
      <3> QED
        BY <1>1, <2>1, <3>1 DEF Place
    <2>2. CASE x = z /\ i = n /\ A2[i] = Len(F2)
      BY <1>5, <1>6, <1>8, <2>2
    <2> QED
      BY <1>3, <2>1, <2>2
  <1>11. Exact(S, F, O, A) /\ (s2 \in S => d \in S) => Exact(S, F2, O, A2)
    <2> SUFFICES ASSUME Exact(S, F, O, A), s2 \in S => d \in S,
                        NEW i \in DOMAIN A2, A2[i] # 0, F2[A2[i]] \in S
                 PROVE  O[i].doc \in S
      BY DEF Exact
    <2>1. CASE i \in DOMAIN A /\ A2[i] = A[i] /\ (A[i] # 0 => A[i] \in DOMAIN F)
      BY <1>1, <2>1 DEF Exact
    <2>2. CASE x = z /\ i = n /\ A2[i] = Len(F2)
      BY <1>6, <1>8, <2>2 DEF Place
    <2> QED
      BY <1>3, <2>1, <2>2
  <1>12. ASSUME Comes(S, b, F, O, A), s \in S => HasTo(S, b, O, Len(A)),
                s2 \in S => s \in S \/ (x = z /\ d \in S)
         PROVE  /\ Comes(S, b, F2, O, A2)
                /\ s2 \in S => HasTo(S, b, O, Len(A2))
    <2>1. s2 \in S => HasTo(S, b, O, Len(A2))
      <3>1. HasTo(S, b, O, Len(A)) => HasTo(S, b, O, Len(A2))
        <4>1. 1..Len(A) \subseteq 1..Len(A2)
          BY <1>0, <1>3
        <4> QED
          BY <4>1 DEF HasTo
      <3>2. x = z /\ d \in S => HasTo(S, b, O, Len(A2))
        <4>1. x = z => n \in 1..Len(A2)
          BY <1>0, <1>3, <1>6
        <4> QED
          BY <1>6, <4>1 DEF HasTo
      <3> QED
        BY <1>12, <3>1, <3>2
    <2>2. ASSUME NEW i \in DOMAIN A2, A2[i] # 0, F2[A2[i]] \in S
          PROVE  HasTo(S, b, O, i)
      <3>1. CASE i \in DOMAIN A /\ A2[i] = A[i] /\ (A[i] # 0 => A[i] \in DOMAIN F)
        BY <1>1, <1>12, <2>2, <3>1 DEF Comes
      <3>2. CASE x = z /\ i = n /\ A2[i] = Len(F2)
        <4>1. s2 \in S /\ i = Len(A2)
          BY <1>3, <1>6, <1>8, <2>2, <3>2 DEF Place
        <4> QED
          BY <2>1, <4>1
      <3> QED
        BY <1>3, <2>2, <3>1, <3>2
    <2> QED
      BY <2>1, <2>2 DEF Comes
  <1>13. Trail(S, x)'
    BY <1>3, <1>9, <1>10 DEF Trail, A2, O, F2, b
  <1>14. Exactly(S, x) /\ (s2 \in S => d \in S) => Exactly(S, x)'
    BY <1>3, <1>11 DEF Exactly, A, A2, O, F, F2
  <1>15. Sourced(S, x) /\ (s2 \in S => s \in S \/ (x = z /\ d \in S)) => Sourced(S, x)'
    BY <1>3, <1>12 DEF Sourced, A, A2, O, F, F2, b, s, s2
  <1>16. (Has(S, x) <=> Has(S, x)') /\ (Ending(S, x) <=> Ending(S, x)')
    BY <1>3 DEF Has, Ending
  <1> QED
    BY <1>13, <1>14, <1>15, <1>16 DEF s, s2, d, n

\* A new write is behind all that were committed.
LEMMA IssueTrail ==
    ASSUME IndInv, NEW z \in Players, NEW w, Issued(z, w), NEW x \in Players, NEW S
    PROVE  /\ Trail(S, x) => Trail(S, x)'
           /\ Exactly(S, x) => Exactly(S, x)'
           /\ Sourced(S, x) => Sourced(S, x)'
           /\ Has(S, x)' <=> Has(S, x) \/ (x = z /\ w.doc \in S)
           /\ Ending(S, x)' <=> IF x = z THEN w.doc \in S ELSE Ending(S, x)
  <1> DEFINE A == at[x]
             O == own[x]
             O2 == own'[x]
  <1>0. /\ A \in Seq(Nat) /\ O \in Seq(Write) /\ Len(A) <= Len(O) /\ own \in [Players -> Seq(Write)]
    BY RoundTyped
  <1>1. /\ w \in Write /\ UNCHANGED <<server, base, feed, at>>
        /\ IF x = z THEN O2 = Append(O, w) ELSE O2 = O
    BY <1>0 DEF Issued, Appends
  <1> HIDE DEF A, O, O2
  <1>2. \A i \in 1..Len(O) : O2[i] = O[i]
    <2>1. \A i \in 1..Len(O) : Append(O, w)[i] = O[i]
      BY <1>0
    <2> QED
      BY <1>1, <2>1
  <1>3. x = z => Len(O2) = Len(O) + 1 /\ O2[Len(O2)] = w /\ O2 # << >>
    BY <1>0, <1>1
  <1>4. Len(A) \in Nat /\ Len(O) \in Nat /\ DOMAIN A = 1..Len(A) /\ 1..Len(A) \subseteq 1..Len(O)
    BY <1>0
  <1>5. \A b : \A n \in 0..Len(O) : HasTo(S, b, O2, n) <=> HasTo(S, b, O, n)
    <2>1. \A n \in 0..Len(O) : 1..n \subseteq 1..Len(O)
      BY <1>4
    <2> QED
      BY <1>2, <2>1 DEF HasTo
  <1>6. \A b, F : Lands(S, b, F, O, A) => Lands(S, b, F, O2, A)
    BY <1>2, <1>4 DEF Lands
  <1>7. \A F : Exact(S, F, O, A) => Exact(S, F, O2, A)
    BY <1>2, <1>4 DEF Exact
  <1>8. \A b, F : Comes(S, b, F, O, A) => Comes(S, b, F, O2, A)
    <2>1. \A i \in DOMAIN A : i \in 0..Len(O)
      BY <1>0, <1>4
    <2> QED
      BY <1>5, <2>1 DEF Comes
  <1>9. \A b : HasTo(S, b, O, Len(A)) => HasTo(S, b, O2, Len(A))
    <2>1. Len(A) \in 0..Len(O)
      BY <1>0, <1>4
    <2> QED
      BY <1>5, <2>1
  <1>10. \A b : HasTo(S, b, O2, Len(O2)) <=> HasTo(S, b, O, Len(O)) \/ (x = z /\ w.doc \in S)
    <2>1. CASE x = z
      <3>1. 1..Len(O2) = 1..Len(O) \cup {Len(O2)}
        BY <1>3, <1>4, <2>1
      <3> QED
        BY <1>2, <1>3, <2>1, <3>1 DEF HasTo
    <2>2. CASE x # z
      BY <1>1, <2>2
    <2> QED
      BY <2>1, <2>2
  <1>11. \A b : LastIn(S, b, O2) <=> IF x = z THEN w.doc \in S ELSE LastIn(S, b, O)
    BY <1>1, <1>3 DEF LastIn
  <1>12. Trail(S, x) => Trail(S, x)'
    BY <1>1, <1>6 DEF Trail, O, O2, A
  <1>13. Exactly(S, x) => Exactly(S, x)'
    BY <1>1, <1>7 DEF Exactly, O, O2, A
  <1>14. Sourced(S, x) => Sourced(S, x)'
    BY <1>1, <1>8, <1>9 DEF Sourced, O, O2, A
  <1>15. Has(S, x)' <=> Has(S, x) \/ (x = z /\ w.doc \in S)
    BY <1>1, <1>10 DEF Has, O, O2
  <1>16. Ending(S, x)' <=> IF x = z THEN w.doc \in S ELSE Ending(S, x)
    BY <1>1, <1>11 DEF Ending, O, O2
  <1> QED
    BY <1>12, <1>13, <1>14, <1>15, <1>16

-----------------------------------------------------------------------------
(***************************************************************************)
(* The player whose move wins.                                             *)
(***************************************************************************)
Beats(p) == \E m \in Picked(p), o \in Picked(Opponent(p)) : Verdict(m, o) = "win"

\* The documents of the match, wherever they are kept but in the local games.
Kept == SoundDocs(PickedBy, EarnedBy)

\* Nobody else comes to be named winner, and full documents have the same moves.
Decided(p) ==
    /\ judged[p] \subseteq {"win"} /\ ~Earned(Opponent(p))
    /\ \A d \in Kept : /\ d.winner \in {NoOne, p} /\ (d.winner = p => Earned(p))
                       /\ Full(d) => VerdictOf(p, d) = "win"
AllDecided == \A p \in Players : Beats(p) => Decided(p)
OnlyOne ==
    \A d, e \in Kept : Full(d) /\ Full(e) /\ d.state = e.state /\ d.winner = e.winner => d = e

LEMMA Decides == IndInv /\ RoundTaps => AllDecided /\ OnlyOne
  <1> SUFFICES ASSUME IndInv, RoundTaps
               PROVE  AllDecided /\ OnlyOne
    OBVIOUS
  <1>1. ASSUME NEW p \in Players, Beats(p)
        PROVE  Decided(p)
    <2> DEFINE q == Opponent(p)
    <2>1. q \in Players /\ q # p /\ Opponent(q) = p /\ Players = {p, q}
      BY Opposite
    <2>2. PICK m \in Picked(p), o \in Picked(q) : Verdict(m, o) = "win"
      BY <1>1 DEF Beats
    <2>3. /\ \A a \in Picked(p) : a = m
          /\ \A a \in Picked(q) : a = o
      BY <2>1, <2>2, OneMove
    <2>4. m \in MoveSet /\ o \in MoveSet
      <3>1. taps \in [Players -> Seq(PickSet)]
        BY RoundTyped
      <3>2. \A x \in Players : Picked(x) \subseteq MoveSet
        <4> SUFFICES ASSUME NEW x \in Players, NEW i \in DOMAIN taps[x] PROVE taps[x][i] \in MoveSet
          BY DEF Picked
        <4>1. taps[x] \in Seq(PickSet)
          BY <3>1
        <4>2. taps[x][i] \in PickSet
          BY <4>1
        <4> QED
          BY <4>2 DEF MoveSet
      <3> QED
        BY <2>1, <2>2, <3>2
    <2>5. Verdict(o, m) = "lose"
      BY <2>2, <2>4, VerdictsOppose
    <2>6. judged[p] \subseteq {"win"}
      BY <2>2, <2>3 DEF IndInv, JudgedSound
    <2>7. ~Earned(q)
      <3>1. \A v \in judged[q] : v = "lose"
        BY <2>1, <2>3, <2>5 DEF IndInv, JudgedSound
      <3> QED
        BY <3>1 DEF Earned
    <2>8. ASSUME NEW d \in Kept
          PROVE  /\ d.winner \in {NoOne, p} /\ (d.winner = p => Earned(p))
                 /\ Full(d) => VerdictOf(p, d) = "win"
      <3>1. \A x \in Players : d.winner = x => Earned(x)
        BY DEF Kept, SoundDocs, EarnedBy
      <3>2. d.winner \in Players \cup {NoOne}
        BY DEF Kept, SoundDocs, Game
      <3>3. Full(d) => d.moves[p] \in Picked(p) /\ d.moves[q] \in Picked(q)
        BY <2>1 DEF Kept, SoundDocs, PickedBy, Full, NotIdle
      <3>4. Full(d) => VerdictOf(p, d) = "win"
        BY <2>2, <2>3, <3>3 DEF VerdictOf
      <3> QED
        BY <2>1, <2>7, <3>1, <3>2, <3>4
    <2> QED
      BY <2>6, <2>7, <2>8 DEF Decided
  <1>2. ASSUME NEW d \in Kept, NEW e \in Kept, Full(d), Full(e), d.state = e.state, d.winner = e.winner
        PROVE  d = e
    <2>1. \A x \in Players : d.moves[x] = e.moves[x]
      BY <1>2, OneMoveKept DEF Kept, Full
    <2>2. d \in Game /\ e \in Game
      BY DEF Kept, SoundDocs
    <2>3. d.moves \in [Players -> MoveSet] /\ e.moves \in [Players -> MoveSet]
      BY <2>2 DEF Game
    <2>4. d.moves = e.moves
      BY <2>1, <2>3
    <2> QED
      BY <1>2, <2>2, <2>4 DEF Game
  <1> QED
    BY <1>1, <1>2 DEF AllDecided, OnlyOne

LEMMA OnlyMoves == IndInv /\ RoundTaps => OneMoveEach
  BY OneMove DEF OneMoveEach

\* A victory on the moves stays one, and was one before anybody judged.
LEMMA BeatsKept ==
    ASSUME IndInv, RoundTaps, IndInv', RoundTaps', Next, NEW p \in Players
    PROVE  /\ Beats(p) => Beats(p)'
           /\ Beats(p)' /\ judged'[p] # {} => Beats(p)
  <1> DEFINE q == Opponent(p)
  <1>1. q \in Players /\ \A x \in Players : Picked(x) \subseteq Picked(x)'
    BY PickedKept, Opposite
  <1>2. ASSUME Beats(p)', judged'[p] # {}
        PROVE  Beats(p)
    <2>1. CASE taps' = taps
      BY <1>2, <2>1 DEF Beats, Picked
    <2>2. CASE judged' = judged
      <3>1. PICK a \in Picked(p), b \in Picked(q) : TRUE
        BY <1>2, <2>2 DEF IndInv, JudgedSound
      <3>2. PICK m \in Picked(p)', o \in Picked(q)' : Verdict(m, o) = "win"
        BY <1>2 DEF Beats
      <3>3. OneMoveEach'
        BY OnlyMoves, PTL
      <3>4. m = a /\ o = b
        BY <1>1, <3>1, <3>2, <3>3 DEF OneMoveEach, Picked
      <3> QED
        BY <3>1, <3>2, <3>4 DEF Beats
    <2> QED
      BY <2>1, <2>2, PickedKept
  <1> QED
    BY <1>1, <1>2 DEF Beats

\* What a view shows is sound, like everything it is made from.
SeenSound == \A x \in Players : seen[x] \in Kept

LEMMA SeenSoundStep ==
    ASSUME IndInv, IndInv', SeenSound, Next
    PROVE  SeenSound'
  <1> SUFFICES ASSUME NEW x \in Players
               PROVE  seen'[x] \in Kept'
    BY DEF SeenSound
  <1>1. Kept \subseteq Kept'
    <2>1. \A p \in Players : PickedBy[p] \subseteq PickedBy'[p]
      BY PickedKept DEF PickedBy
    <2>2. EarnedBy \subseteq EarnedBy'
      BY JudgedKept DEF EarnedBy
    <2> QED
      BY <2>1, <2>2, SoundGrows DEF Kept
  <1>2. Overlay(base'[x], own'[x]) \in Kept'
    <2>1. base'[x] \in Kept' /\ own'[x] \in Seq(SoundWrites(PickedBy', EarnedBy'))
      BY DEF IndInv, MatchSound, QueuesSound, Kept
    <2> QED
      BY <2>1, OverlaySound DEF Kept
  <1>3. seen'[x] = seen[x] \/ seen'[x] = Overlay(base'[x], own'[x])
    BY StepTold
  <1> QED
    BY <1>1, <1>2, <1>3 DEF SeenSound

-----------------------------------------------------------------------------
(***************************************************************************)
(* What a view shows of the end of the match and of its winner.            *)
(***************************************************************************)
Ended == {d \in Game : d.state = "finished"}
WonBy(p) == {d \in Game : d.winner = p}

\* A set of positions has a last one: the one closest to the end.
LEMMA LastExists ==
    ASSUME NEW n \in Nat, NEW I, I \subseteq 1..n, I # {}
    PROVE  \E i \in I : IsLast(I, i)
  <1> DEFINE R == {ss \in Nat \X Nat : ss[1] < ss[2]}
             T == {k \in Nat : k <= n /\ n - k \in I}
  <1>1. IsWellFoundedOn(R, Nat)
    BY NatLessThanWellFounded DEF OpToRel
  <1>2. T \subseteq Nat
    OBVIOUS
  <1>3. PICK e \in I : TRUE
    OBVIOUS
  <1>4. e \in Nat /\ e <= n /\ n - e \in Nat /\ n - (n - e) = e /\ n - e <= n
    BY <1>3
  <1>5. T # {}
    BY <1>3, <1>4
  <1> HIDE DEF R, T
  <1>6. \E x \in T : \A y \in T : ~(<<y, x>> \in R)
    BY <1>1, <1>2, <1>5, WFMin
  <1>7. PICK k \in T : \A y \in T : ~(<<y, k>> \in R)
    BY <1>6
  <1>8. k \in Nat /\ k <= n /\ n - k \in I
    BY <1>7 DEF T
  <1>9. ASSUME NEW j \in I PROVE j <= n - k
    <2>1. j \in Nat /\ j <= n /\ n - j \in Nat /\ n - (n - j) = j /\ n - j <= n
      BY <1>9
    <2>2. n - j \in T
      BY <2>1, <1>9 DEF T
    <2>3. ~(n - j < k)
      <3>1. ~(<<n - j, k>> \in R)
        BY <2>2, <1>7
      <3> QED
        BY <3>1, <2>1, <1>8 DEF R
    <2> QED
      BY <2>1, <2>3, <1>8
  <1> QED
    BY <1>8, <1>9 DEF IsLast

\* The view names a winner if the version sent does or a write on top of it.
LEMMA OverlayNames ==
    ASSUME NEW p \in Players, NEW b \in Game, NEW O \in Seq(Write), b.winner \in {NoOne, p},
           \A i \in DOMAIN O : /\ O[i].doc.winner \in {NoOne, p}
                               /\ ~O[i].whole => O[i].doc.winner = NoOne
    PROVE  HasTo(WonBy(p), b, O, Len(O)) <=> Overlay(b, O) \in WonBy(p)
  <1> DEFINE I == Winners(O)
             v == Overlay(b, O).winner
  <1>1. Overlay(b, O) \in Game
    BY OverlayTyped
  <1>2. p # NoOne
    BY PlayersAssumption DEF Players
  <1>3. I \subseteq 1..Len(O) /\ Len(O) \in Nat /\ DOMAIN O = 1..Len(O)
    BY DEF Winners, Wholes
  <1>4. \A i \in 1..Len(O) : O[i].doc \in Game /\ (O[i].doc \in WonBy(p) <=> i \in I)
    <2> SUFFICES ASSUME NEW i \in 1..Len(O)
                 PROVE  O[i].doc \in Game /\ (O[i].doc \in WonBy(p) <=> i \in I)
      OBVIOUS
    <2>1. O[i] \in Write /\ i \in DOMAIN O
      BY <1>3
    <2>2. O[i].doc \in Game
      BY <2>1 DEF Write
    <2>3. O[i].doc.winner \in {NoOne, p} /\ (~O[i].whole => O[i].doc.winner = NoOne)
      BY <2>1
    <2>4. i \in I <=> O[i].whole /\ O[i].doc.winner # NoOne
      BY <2>1 DEF Winners, Wholes
    <2>5. O[i].doc \in WonBy(p) <=> O[i].doc.winner = p
      BY <2>2 DEF WonBy
    <2> QED
      BY <1>2, <2>2, <2>3, <2>4, <2>5
  <1>5. v = IF \E i \in I : IsLast(I, i) THEN O[CHOOSE i \in I : IsLast(I, i)].doc.winner ELSE b.winner
    BY DEF Overlay
  <1>6. b \in WonBy(p) <=> b.winner = p
    BY DEF WonBy
  <1>7. Overlay(b, O) \in WonBy(p) <=> v = p
    BY <1>1 DEF WonBy
  <1> HIDE DEF v
  <1>8. CASE I = {}
    <2>1. v = b.winner
      BY <1>5, <1>8
    <2>2. HasTo(WonBy(p), b, O, Len(O)) <=> b \in WonBy(p)
      BY <1>4, <1>8 DEF HasTo
    <2> QED
      BY <2>1, <2>2, <1>6, <1>7
  <1>9. CASE I # {}
    <2> DEFINE i == CHOOSE j \in I : IsLast(I, j)
    <2>1. \E j \in I : IsLast(I, j)
      BY <1>3, <1>9, LastExists
    <2>2. i \in I
      BY <2>1
    <2>3. v = O[i].doc.winner
      BY <1>5, <2>1
    <2> HIDE DEF i
    <2>4. i \in 1..Len(O) /\ O[i].doc \in WonBy(p)
      BY <1>3, <1>4, <2>2
    <2>5. v = p
      BY <2>3, <2>4 DEF WonBy
    <2>6. HasTo(WonBy(p), b, O, Len(O))
      BY <2>4 DEF HasTo
    <2> QED
      BY <2>5, <2>6, <1>7
  <1> QED
    BY <1>8, <1>9

\* The view shows the state of the last write.
LEMMA OverlayEnds ==
    ASSUME NEW b \in Game, NEW O \in Seq(Write)
    PROVE  LastIn(Ended, b, O) <=> Overlay(b, O) \in Ended
  <1>1. Overlay(b, O) \in Game
    BY OverlayTyped
  <1>2. CASE O = << >>
    <2>1. Overlay(b, O).state = b.state
      BY <1>2 DEF Overlay
    <2> QED
      BY <1>1, <1>2, <2>1 DEF LastIn, Ended
  <1>3. CASE O # << >>
    <2>1. Overlay(b, O).state = O[Len(O)].doc.state
      BY <1>3 DEF Overlay
    <2>2. O[Len(O)] \in Write
      BY <1>3
    <2>3. O[Len(O)].doc \in Game
      BY <2>2 DEF Write
    <2> QED
      BY <1>1, <1>3, <2>1, <2>3 DEF LastIn, Ended
  <1> QED
    BY <1>2, <1>3

\* What a device is sent moves nothing of the other one.
LEMMA OtherTrail ==
    ASSUME RoundInv, NEW z \in Players, Ack(z) \/ \E k \in 1..Len(feed[z]) : Watch(z, k),
           NEW x \in Players \ {z}
    PROVE  /\ base'[x] = base[x] /\ feed'[x] = feed[x] /\ own'[x] = own[x] /\ at'[x] = at[x]
           /\ server' = server
  <1>1. CASE Ack(z)
    <2>1. UNCHANGED <<server, base, feed>>
      BY <1>1 DEF Ack
    <2>2. own'[x] = own[x] /\ at'[x] = at[x]
      BY <1>1, AckForgets DEF RoundInv, Forgotten
    <2> QED
      BY <2>1, <2>2
  <1>2. CASE \E k \in 1..Len(feed[z]) : Watch(z, k)
    BY <1>2, WatchShape
  <1> QED
    BY <1>1, <1>2

\* Nothing undoes the end of the match.  A device that has ended it wrote last that it
\* is finished, and shows it finished.
EndedTrail(x) ==
    /\ Trail(Ended, x) /\ Exactly(Ended, x)
    /\ Earned(x) => Ending(Ended, x) /\ seen[x] \in Ended
EndedTrails == \A x \in Players : EndedTrail(x)

LEMMA SentEnds ==
    ASSUME RoundInv, RoundInv', NEW z \in Players, Ack(z) \/ \E k \in 1..Len(feed[z]) : Watch(z, k),
           EndedTrails, judged' = judged, Next
    PROVE  EndedTrails'
  <1> SUFFICES ASSUME NEW x \in Players PROVE EndedTrail(x)'
    BY DEF EndedTrails
  <1>1. EndedTrail(x) /\ EndedTrail(z)
    BY DEF EndedTrails
  <1>2. Earned(x)' <=> Earned(x)
    BY DEF Earned
  <1>3. Trail(Ended, x)' /\ Exactly(Ended, x)' /\ (Ending(Ended, x) => Ending(Ended, x)')
    <2>1. CASE x = z
      <3>1. CASE Ack(z)
        BY <1>1, <2>1, <3>1, AckTrail DEF EndedTrail
      <3>2. CASE \E k \in 1..Len(feed[z]) : Watch(z, k)
        BY <1>1, <2>1, <3>2, WatchTrail DEF EndedTrail
      <3> QED
        BY <3>1, <3>2
    <2>2. CASE x # z
      <3>1. base'[x] = base[x] /\ feed'[x] = feed[x] /\ own'[x] = own[x] /\ at'[x] = at[x]
        BY <2>2, OtherTrail
      <3> QED
        BY <1>1, <3>1 DEF EndedTrail, Trail, Exactly, Ending
    <2> QED
      BY <2>1, <2>2
  <1>4. Earned(x) => seen'[x] \in Ended
    <2>0. IndInv'
      BY DEF RoundInv
    <2>a. Typed'
      BY <2>0, IndTyped, PTL
    <2>1. base'[x] \in Game /\ own'[x] \in Seq(Write)
      BY <2>a DEF Typed
    <2>2. seen'[x] = seen[x] \/ seen'[x] = Overlay(base'[x], own'[x])
      BY StepTold DEF RoundInv
    <2>3. Ending(Ended, x)' => Overlay(base'[x], own'[x]) \in Ended
      BY <2>1, OverlayEnds DEF Ending
    <2> QED
      BY <1>1, <1>3, <2>2, <2>3 DEF EndedTrail
  <1> QED
    BY <1>1, <1>2, <1>3, <1>4 DEF EndedTrail

LEMMA CommitEnds ==
    ASSUME RoundInv, NEW z \in Players, Commit(z), EndedTrails
    PROVE  EndedTrails'
  <1> DEFINE n == Len(at[z]) + 1
             w == own[z][n]
  <1>1. w \in Write /\ server' = Merge(server, w) /\ UNCHANGED <<seen, judged>>
    BY NextWrite DEF history
  <1>2. server' \in Game /\ server \in Game
    BY CommitAdvances, RoundTyped DEF RoundInv
  <1>3. w.doc \in Game /\ server'.state = w.doc.state
    BY <1>1 DEF Merge, Write, Game
  <1>4. server' \in Ended <=> w.doc \in Ended
    BY <1>2, <1>3 DEF Ended
  <1>5. server \in Ended => server' \in Ended
    BY <1>2, CommitAdvances DEF Ended
  <1> SUFFICES ASSUME NEW x \in Players PROVE EndedTrail(x)'
    BY DEF EndedTrails
  <1>6. EndedTrail(x)
    BY DEF EndedTrails
  <1>7. Earned(x)' <=> Earned(x)
    BY <1>1 DEF Earned
  <1>8. Trail(Ended, x)' /\ Exactly(Ended, x)' /\ (Ending(Ended, x) <=> Ending(Ended, x)')
    BY <1>4, <1>5, <1>6, CommitTrail DEF EndedTrail
  <1> QED
    BY <1>1, <1>6, <1>7, <1>8 DEF EndedTrail

LEMMA IssueEnds ==
    ASSUME RoundInv, NEW z \in Players, NEW w, Opens(z, w) \/ Closes(z, w), EndedTrails
    PROVE  EndedTrails'
  <1>1. Issued(z, w) /\ w \in Write
    BY DEF Opens, Closes, Issued
  <1>2. base' = base /\ base[z] \in Game /\ own'[z] \in Seq(Write) /\ w.doc \in Game
    <2>1. own[z] \in Seq(Write) /\ own \in [Players -> Seq(Write)] /\ base[z] \in Game
      BY RoundTyped DEF RoundInv
    <2>2. own'[z] = Append(own[z], w) /\ base' = base
      BY <1>1, <2>1 DEF Issued, Appends
    <2> QED
      BY <1>1, <2>1, <2>2 DEF Write
  <1>3. seen'[z] = Overlay(base[z], own'[z]) /\ \A y \in Players \ {z} : seen'[y] = seen[y]
    BY <1>1, RoundTyped DEF Issued, RoundInv
  <1> SUFFICES ASSUME NEW x \in Players PROVE EndedTrail(x)'
    BY DEF EndedTrails
  <1>4. EndedTrail(x)
    BY DEF EndedTrails
  <1>5. /\ Trail(Ended, x)' /\ Exactly(Ended, x)'
        /\ Ending(Ended, x)' <=> IF x = z THEN w.doc \in Ended ELSE Ending(Ended, x)
    BY <1>1, <1>4, IssueTrail DEF EndedTrail, RoundInv
  <1>6. Earned(x)' => Ending(Ended, x)' /\ seen'[x] \in Ended
    <2>1. CASE x # z
      <3>1. judged'[x] = judged[x]
        BY <2>1 DEF Opens, Closes
      <3> QED
        BY <2>1, <3>1, <1>3, <1>4, <1>5 DEF Earned, EndedTrail
    <2>2. CASE x = z /\ Opens(z, w)
      BY <2>2 DEF Opens, Earned
    <2>3. CASE x = z /\ Closes(z, w)
      <3>1. w.doc \in Ended
        BY <2>3, <1>2 DEF Closes, Ended
      <3>2. Ending(Ended, x)'
        BY <2>3, <3>1, <1>5
      <3>3. Overlay(base[z], own'[z]) \in Ended
        BY <3>2, <2>3, <1>2, OverlayEnds DEF Ending
      <3> QED
        BY <3>2, <3>3, <2>3, <1>3
    <2> QED
      BY <2>1, <2>2, <2>3
  <1> QED
    BY <1>5, <1>6 DEF EndedTrail

LEMMA EndedTrailsStep ==
    ASSUME OnePick, LossInv, RoundInv', EndedTrails, Next
    PROVE  EndedTrails'
  <1>0. RoundInv
    BY DEF LossInv
  <1>1. CASE Silent
    <2> SUFFICES ASSUME NEW x \in Players PROVE EndedTrail(x)'
      BY DEF EndedTrails
    <2>1. EndedTrail(x)
      BY DEF EndedTrails
    <2>2. Earned(x)' <=> Earned(x)
      BY <1>1 DEF Silent, EarnedBy
    <2> QED
      BY <1>1, <2>1, <2>2 DEF Silent, EndedTrail, Trail, Exactly, Ending
  <1>2. ASSUME NEW z \in Players, Commit(z) \/ Ack(z) \/ \E k \in 1..Len(feed[z]) : Watch(z, k),
               judged' = judged
        PROVE  EndedTrails'
    BY <1>0, <1>2, CommitEnds, SentEnds
  <1>3. ASSUME NEW z \in Players, NEW w, Opens(z, w) \/ Closes(z, w)
        PROVE  EndedTrails'
    BY <1>0, <1>3, IssueEnds
  <1> QED
    BY <1>1, <1>2, <1>3, StepKinds

\* A victory on the way: the versions sent to the winner's device name it from one on,
\* they come from its own writes, and its view names it if one of these or its base does.
WonTrail(p) ==
    /\ Trail(WonBy(p), p) /\ Sourced(WonBy(p), p)
    /\ Has(WonBy(p), p) <=> seen[p] \in WonBy(p)
WonTrails == \A p \in Players : Beats(p) => WonTrail(p)

\* Before the winner's device has judged nobody is named anywhere.
UnwonTrails == \A p \in Players : Beats(p) /\ ~Earned(p) => WonTrail(p)

LEMMA Unwon == RoundInv /\ AllDecided /\ SeenSound => UnwonTrails
  <1> SUFFICES ASSUME RoundInv, AllDecided, SeenSound, NEW p \in Players, Beats(p), ~Earned(p)
               PROVE  WonTrail(p)
    BY DEF UnwonTrails
  <1>0. IndInv
    BY DEF RoundInv
  <1> DEFINE S == WonBy(p)
  <1>1. \A d \in Kept : d \notin S
    BY DEF AllDecided, Decided, WonBy
  <1>2. /\ server \notin S /\ base[p] \notin S /\ seen[p] \notin S
        /\ \A i \in DOMAIN feed[p] : feed[p][i] \notin S
        /\ \A i \in DOMAIN own[p] : own[p][i].doc \notin S
    BY <1>0, <1>1, SoundKept DEF Kept, SeenSound
  <1> HIDE DEF S
  <1>3. /\ own[p] \in Seq(Write) /\ at[p] \in Seq(Nat) /\ Len(at[p]) <= Len(own[p])
        /\ feed[p] \in Seq(Game)
    BY <1>0, RoundTyped
  <1>4. \A i \in DOMAIN at[p] : i \in DOMAIN own[p]
    BY <1>3
  <1>5. \A i \in DOMAIN at[p] : own[p][i].doc \notin S
    BY <1>2, <1>4
  <1>6. Trail(S, p)
    BY <1>2, <1>5 DEF Trail, Rises, Lands
  <1>7. ASSUME NEW i \in DOMAIN at[p], at[p][i] # 0
        PROVE  feed[p][at[p][i]] \notin S
    <2>1. at[p][i] \in Nat /\ at[p][i] <= Len(feed[p])
      BY <1>3, <1>7 DEF RoundInv, FeedSound, Feeds
    <2>2. at[p][i] \in DOMAIN feed[p]
      BY <1>3, <1>7, <2>1
    <2> QED
      BY <1>2, <2>2
  <1> QED
    BY <1>2, <1>6, <1>7 DEF WonTrail, Sourced, Comes, Has, HasTo, S

\* With only p ever named, a view names p when the version sent or a write does.
NamedViews ==
    \A p \in Players : Beats(p) =>
        (Has(WonBy(p), p) <=> Overlay(base[p], own[p]) \in WonBy(p))

LEMMA ViewsNamed == RoundInv /\ AllDecided => NamedViews
  <1> SUFFICES ASSUME RoundInv, AllDecided, NEW p \in Players, Beats(p)
               PROVE  Has(WonBy(p), p) <=> Overlay(base[p], own[p]) \in WonBy(p)
    BY DEF NamedViews
  <1>0. IndInv
    BY DEF RoundInv
  <1>1. base[p] \in Game /\ own[p] \in Seq(Write)
    BY <1>0, RoundTyped
  <1>2. \A d \in Kept : d.winner \in {NoOne, p}
    BY DEF AllDecided, Decided
  <1>3. base[p].winner \in {NoOne, p} /\ \A i \in DOMAIN own[p] : own[p][i].doc.winner \in {NoOne, p}
    BY <1>0, <1>2, SoundKept DEF Kept
  <1>4. \A i \in DOMAIN own[p] : ~own[p][i].whole => own[p][i].doc.winner = NoOne
    BY DEF RoundInv, OwnSound, WriteSound, updateGameStatus, Created
  <1> QED
    BY <1>1, <1>3, <1>4, OverlayNames DEF Has

\* A commit names p if p was named before, or if p's own write does.
LEMMA CommitNames ==
    ASSUME RoundInv, AllDecided, OwnNamed, NEW z \in Players, Commit(z), NEW p \in Players, Beats(p)
    PROVE  LET n == Len(at[z]) + 1
           IN  /\ server' \in WonBy(p) <=> server \in WonBy(p) \/ own[z][n].doc \in WonBy(p)
               /\ own[z][n].doc \in WonBy(p) => z = p
  <1> DEFINE n == Len(at[z]) + 1
             w == own[z][n]
  <1>0. IndInv
    BY DEF RoundInv
  <1>1. /\ n \in DOMAIN own[z] /\ w \in Write /\ WriteSound(z, n) /\ server' = Merge(server, w)
        /\ server \in Game /\ server' \in Game
    BY <1>0, NextWrite, CommitAdvances, RoundTyped
  <1>2. w.doc \in Kept /\ server \in Kept
    BY <1>0, <1>1, SoundKept DEF Kept
  <1>3. w.doc.winner \in {NoOne, p} /\ server.winner \in {NoOne, p} /\ ~Earned(Opponent(p))
    BY <1>2 DEF AllDecided, Decided
  <1>4. ~w.whole => w.doc.winner = NoOne
    BY <1>1 DEF WriteSound, updateGameStatus, Created
  <1>5. w.doc \in Game /\ p # NoOne
    BY <1>1, PlayersAssumption DEF Write, Players
  <1>6. server'.winner = IF w.doc.winner = NoOne THEN server.winner ELSE w.doc.winner
    BY <1>1, <1>4, <1>5 DEF Merge, Game
  <1>7. server' \in WonBy(p) <=> server \in WonBy(p) \/ w.doc \in WonBy(p)
    BY <1>1, <1>3, <1>5, <1>6 DEF WonBy
  <1>8. w.doc \in WonBy(p) => z = p
    <2>1. w.doc.winner # NoOne => Earned(z)
      BY <1>1 DEF OwnNamed
    <2>2. z = p \/ z = Opponent(p)
      BY Opposite
    <2> QED
      BY <2>1, <2>2, <1>3, <1>5 DEF WonBy
  <1> QED
    BY <1>7, <1>8

\* What the device is sent names p only if its writes, or its base, did.
LEMMA SentNames ==
    ASSUME RoundInv, NEW p \in Players, Ack(p) \/ \E k \in 1..Len(feed[p]) : Watch(p, k), Next,
           NEW S, Trail(S, p), Sourced(S, p), Has(S, p)'
    PROVE  Has(S, p)
  <1>0. IndInv
    BY DEF RoundInv
  <1>1. own[p] \in Seq(Write) /\ at[p] \in Seq(Nat) /\ Len(at[p]) <= Len(own[p])
    BY <1>0, RoundTyped
  <1>2. server \in S => Has(S, p)
    BY <1>1 DEF Sourced, Has, HasTo
  <1>3. /\ base[p] \in S => server \in S
        /\ \A i \in DOMAIN feed[p] : feed[p][i] \in S => server \in S
    BY RisesServer DEF Trail
  <1>4. base'[p] \in S => Has(S, p)
    BY <1>0, <1>2, <1>3, StepVersions
  <1>5. \A i \in DOMAIN own'[p] : \E j \in DOMAIN own[p] : own'[p][i] = own[p][j]
    BY NetworkEnds
  <1>6. own'[p] \in Seq(Write)
    <2>1. CASE Ack(p)
      <3>1. CASE at[p][acked[p] + 1] > Shown(p)
        BY <1>0, <1>1, <2>1, <3>1, AckForgets
      <3>2. CASE ~(at[p][acked[p] + 1] > Shown(p))
        BY <2>1, <3>2, AckShape
      <3> QED
        BY <3>1, <3>2
    <2>2. CASE \E k \in 1..Len(feed[p]) : Watch(p, k)
      BY <2>2, WatchShape
    <2> QED
      BY <2>1, <2>2
  <1>7. ASSUME NEW i \in 1..Len(own'[p]), own'[p][i].doc \in S
        PROVE  Has(S, p)
    <2>1. i \in DOMAIN own'[p]
      BY <1>6
    <2>2. PICK j \in DOMAIN own[p] : own'[p][i] = own[p][j]
      BY <2>1, <1>5
    <2>3. j \in 1..Len(own[p])
      BY <1>1
    <2> QED
      BY <1>7, <2>2, <2>3 DEF Has, HasTo
  <1> QED
    BY <1>4, <1>7 DEF Has, HasTo

LEMMA SentHas ==
    ASSUME RoundInv, NEW p \in Players, Ack(p) \/ \E k \in 1..Len(feed[p]) : Watch(p, k), Next,
           NEW S, Trail(S, p), Sourced(S, p)
    PROVE  Trail(S, p)' /\ Sourced(S, p)' /\ (Has(S, p)' <=> Has(S, p))
  <1>1. Trail(S, p)' /\ Sourced(S, p)' /\ (Has(S, p) => Has(S, p)')
    <2>1. CASE Ack(p)
      BY <2>1, AckTrail
    <2>2. CASE \E k \in 1..Len(feed[p]) : Watch(p, k)
      BY <2>2, WatchTrail
    <2> QED
      BY <2>1, <2>2
  <1>2. Has(S, p)' => Has(S, p)
    BY SentNames
  <1> QED
    BY <1>1, <1>2

LEMMA SentWins ==
    ASSUME RoundInv, NamedViews', NEW z \in Players, Ack(z) \/ \E k \in 1..Len(feed[z]) : Watch(z, k), Next,
           NEW p \in Players, Beats(p)', WonTrail(p)
    PROVE  WonTrail(p)'
  <1> DEFINE S == WonBy(p)
  <1>0. IndInv
    BY DEF RoundInv
  <1>1. Trail(S, p) /\ Sourced(S, p) /\ (Has(S, p) <=> seen[p] \in S)
    BY DEF WonTrail
  <1>2. Has(S, p)' <=> Overlay(base'[p], own'[p]) \in S
    BY DEF NamedViews
  <1> HIDE DEF S
  <1>3. Trail(S, p)' /\ Sourced(S, p)' /\ (Has(S, p)' <=> Has(S, p))
    <2>1. CASE z = p
      BY <1>1, <2>1, SentHas
    <2>2. CASE z # p
      <3>1. /\ base'[p] = base[p] /\ feed'[p] = feed[p] /\ own'[p] = own[p] /\ at'[p] = at[p]
            /\ server' = server
        BY <2>2, OtherTrail
      <3> QED
        BY <1>1, <3>1 DEF Trail, Sourced, Has
    <2> QED
      BY <2>1, <2>2
  <1>4. seen'[p] = seen[p] \/ seen'[p] = Overlay(base'[p], own'[p])
    BY <1>0, StepTold
  <1>5. Has(S, p)' <=> seen'[p] \in S
    BY <1>1, <1>2, <1>3, <1>4
  <1> QED
    BY <1>3, <1>5 DEF WonTrail, S

LEMMA WonTrailsStep ==
    ASSUME OnePick, LossInv, RoundInv', IndInv', AllDecided, OwnNamed, NamedViews', UnwonTrails',
           WonTrails, Next
    PROVE  WonTrails'
  <1>0. RoundInv /\ IndInv /\ RoundTaps /\ RoundTaps'
    BY DEF LossInv, RoundInv
  <1> SUFFICES ASSUME NEW p \in Players, Beats(p)' PROVE WonTrail(p)'
    BY DEF WonTrails
  <1>1. CASE ~Earned(p)'
    BY <1>1 DEF UnwonTrails
  <1>2. CASE Earned(p)'
    <2> DEFINE S == WonBy(p)
    <2>1. Beats(p)
      BY <1>0, <1>2, BeatsKept DEF Earned
    <2>2. WonTrail(p)
      BY <2>1 DEF WonTrails
    <2>3. Trail(S, p) /\ Sourced(S, p) /\ (Has(S, p) <=> seen[p] \in S)
      BY <2>2 DEF WonTrail
    <2>4. Has(S, p)' <=> Overlay(base'[p], own'[p]) \in S
      BY DEF NamedViews
    <2>5. CASE Silent
      BY <2>2, <2>5 DEF Silent, WonTrail, Trail, Sourced, Has
    <2>6. ASSUME NEW z \in Players, Commit(z) PROVE WonTrail(p)'
      <3> DEFINE d == own[z][Len(at[z]) + 1].doc
      <3>1. (server' \in S <=> server \in S \/ d \in S) /\ (d \in S => z = p)
        BY <1>0, <2>1, <2>6, CommitNames
      <3>2. seen' = seen
        BY <1>0, <2>6, NextWrite
      <3> HIDE DEF S
      <3>3. Trail(S, p)' /\ Sourced(S, p)' /\ (Has(S, p) <=> Has(S, p)')
        BY <1>0, <2>3, <2>6, <3>1, CommitTrail
      <3>4. Has(S, p)' <=> seen'[p] \in S
        BY <2>3, <3>2, <3>3
      <3> QED
        BY <3>3, <3>4 DEF WonTrail, S
    <2>7. ASSUME NEW z \in Players, Ack(z) \/ \E k \in 1..Len(feed[z]) : Watch(z, k)
          PROVE  WonTrail(p)'
      BY <1>0, <2>2, <2>7, SentWins
    <2>8. ASSUME NEW z \in Players, NEW w, Opens(z, w) \/ Closes(z, w)
          PROVE  WonTrail(p)'
      <3> HIDE DEF S
      <3>1. Issued(z, w)
        BY <2>8 DEF Opens, Closes
      <3>2. Trail(S, p)' /\ Sourced(S, p)' /\ (Has(S, p)' <=> Has(S, p) \/ (p = z /\ w.doc \in S))
        BY <1>0, <2>3, <3>1, IssueTrail
      <3>3. Has(S, p)' <=> seen'[p] \in S
        <4>0. seen \in [Players -> Game]
          BY <1>0, RoundTyped
        <4>1. base' = base /\ seen' = [seen EXCEPT ![z] = Overlay(base[z], own'[z])]
          BY <3>1 DEF Issued, Appends
        <4>2. CASE z = p
          BY <2>4, <4>0, <4>1, <4>2
        <4>3. CASE z # p
          BY <2>3, <3>2, <4>0, <4>1, <4>3
        <4> QED
          BY <4>2, <4>3
      <3> QED
        BY <3>2, <3>3 DEF WonTrail, S
    <2> QED
      BY <2>5, <2>6, <2>7, <2>8, StepKinds
  <1> QED
    BY <1>1, <1>2

-----------------------------------------------------------------------------
(***************************************************************************)
(* The screens of a device nobody leaves, and the snapshots its listener   *)
(* has not been called with.                                               *)
(***************************************************************************)
ScreenMoves(x) ==
    \/ screen'[x] = screen[x] /\ shown'[x] = shown[x]
    \/ screen[x] = "leaving" /\ screen'[x] = "gone" /\ shown'[x] = shown[x]
    \/ Home(x) /\ screen[x] = "results" /\ screen'[x] = "leaving" /\ shown'[x] = shown[x]
    \/ Join /\ x = Requester /\ screen'[x] = "game" /\ shown'[x] = shown[x]
    \/ /\ RunResults(x) /\ screen[x] = "game"
       /\ screen'[x] = "results" /\ shown'[x] = Announced(game[x])

LEMMA ScreensMove ==
    ASSUME OnePick, IndInv, RoundTaps, Next, NEW x \in Players
    PROVE  ScreenMoves(x)
  <1>0. screen \in [Players -> Screen] /\ shown \in [Players -> Players \cup {"draw", "nothing"}]
    BY DEF IndInv, MatchSound, DevicesTyped
  <1>1. CASE Tick
    BY <1>0, <1>1 DEF Tick, ScreenMoves
  <1>2. CASE Join
    BY <1>0, <1>2 DEF Join, ScreenMoves, Players
  <1>3. ASSUME NEW z \in Players, Home(z) PROVE ScreenMoves(x)
    BY <1>0, <1>3 DEF Home, ScreenMoves
  <1>4. ASSUME NEW z \in Players, RunResults(z) PROVE ScreenMoves(x)
    <2>1. CASE screen[z] = "game" /\ ~alert[z]
      <3>1. screen' = [screen EXCEPT ![z] = "results"] /\ shown' = [shown EXCEPT ![z] = Announced(game[z])]
        BY <1>4, <2>1 DEF RunResults
      <3>2. CASE x = z
        BY ONLY <1>0, <1>4, <2>1, <3>1, <3>2 DEF ScreenMoves
      <3>3. CASE x # z
        <4>1. screen'[x] = screen[x] /\ shown'[x] = shown[x]
          BY <1>0, <3>1, <3>3
        <4> QED
          BY ONLY <4>1 DEF ScreenMoves
      <3> QED
        BY <3>2, <3>3
    <2>2. CASE ~(screen[z] = "game" /\ ~alert[z])
      BY SMTT(60), <1>4, <2>2 DEF RunResults, ScreenMoves
    <2> QED
      BY <2>1, <2>2
  <1>5. ASSUME NEW z \in Players,
               \/ UpdateGame(z) \/ IgnoreSnapshot(z) \/ RunSetWinner(z)
               \/ \E finished \in BOOLEAN : RunCheck(z, finished) \/ RunKick(z, finished)
               \/ \E m \in Choices(z) : Pick(z, m)
               \/ Firestore(z)
        PROVE  screen' = screen /\ shown' = shown
    BY <1>5 DEF UpdateGame, IgnoreSnapshot, RunSetWinner, RunCheck, RunKick, Pick,
                Firestore, Commit, Ack, Watch, device
  <1>6. \A z \in Players : ~OpenAlert(z) /\ ~CancelAlert(z) /\ ~Exit(z) /\ ~Kill(z) /\ ~Break(z)
    BY NobodyLeaves
  <1> QED
    BY <1>1, <1>2, <1>3, <1>4, <1>5, <1>6 DEF Next, Main, User, ScreenMoves

\* The result screen comes after a verdict, and takes the place of the game.
Screens ==
    /\ \A p \in Players :
           /\ shown[p] = "nothing" => screen[p] \in {"loading", "game"}
           /\ shown[p] # "nothing" => judged[p] # {} /\ screen[p] \in {"results", "leaving", "gone"}
    /\ screen[Acceptor] # "loading"

LEMMA ScreensStep ==
    ASSUME OnePick, LossInv, JudgedGame, Screens, Next
    PROVE  Screens'
  <1>0. RoundInv /\ IndInv /\ RoundTaps
    BY DEF LossInv, RoundInv
  <1>1. \A x \in Players : ScreenMoves(x) /\ judged[x] \subseteq judged'[x]
    BY <1>0, ScreensMove, JudgedKept
  <1>2. ASSUME NEW x \in Players, RunResults(x)
        PROVE  judged[x] # {} /\ Announced(game[x]) # "nothing"
    <2>1. agenda[x] # EmptyAgenda
      BY <1>0, <1>2, DueMoves
    <2>2. judged[x] # {}
      BY <2>1 DEF LossInv, TasksFull, JudgedGame
    <2>3. game[x].winner \in Players \cup {NoOne}
      BY <1>0, RoundTyped DEF Game
    <2> QED
      BY <2>2, <2>3, PlayersAssumption DEF Announced
  <1>3. ASSUME Join PROVE screen[Requester] = "loading"
    BY <1>3 DEF Join
  <1>4. Acceptor \in Players /\ Acceptor # Requester
    BY PlayersAssumption DEF Players
  <1>5. screen'[Acceptor] # "loading"
    BY <1>1, <1>4 DEF ScreenMoves, Screens
  <1>6. ASSUME NEW p \in Players
        PROVE  /\ shown'[p] = "nothing" => screen'[p] \in {"loading", "game"}
               /\ shown'[p] # "nothing" => judged'[p] # {} /\ screen'[p] \in {"results", "leaving", "gone"}
    <2>1. /\ shown[p] = "nothing" => screen[p] \in {"loading", "game"}
          /\ shown[p] # "nothing" => judged[p] # {} /\ screen[p] \in {"results", "leaving", "gone"}
          /\ judged[p] # {} => judged'[p] # {}
      BY <1>1 DEF Screens
    <2>2. ScreenMoves(p)
      BY <1>1
    <2> QED
      BY <1>2, <1>3, <2>1, <2>2 DEF ScreenMoves
  <1> QED
    BY <1>5, <1>6 DEF Screens

\* What a step adds to the snapshots of a device, and takes from them.
Hears(x) ==
    \/ cb'[x] = cb[x] \o Told(x, seen'[x])
    \/ UpdateGame(x) /\ cb'[x] = Tail(cb[x]) \o Told(x, seen'[x])
    \/ IgnoreSnapshot(x) /\ cb[x] # << >> /\ ~Alive(x)
    \/ Join /\ x = Requester /\ cb'[x] = <<seen'[x]>>

LEMMA NothingNew ==
    ASSUME IndInv, NEW x \in Players, cb'[x] = cb[x], seen'[x] = seen[x]
    PROVE  Hears(x)
  <1>1. cb[x] \in Seq(Game)
    BY RoundTyped
  <1>2. cb[x] \o << >> = cb[x]
    BY <1>1, NothingAdded
  <1> QED
    BY <1>2 DEF Hears, Told

LEMMA SeeTells ==
    ASSUME IndInv, NEW z \in Players, NEW doc, NEW q, See(z, doc, q)
    PROVE  /\ seen'[z] = doc /\ cb'[z] = q \o Told(z, doc)
           /\ \A x \in Players \ {z} : cb'[x] = cb[x] /\ seen'[x] = seen[x]
  <1>1. seen \in [Players -> Game] /\ cb \in [Players -> Seq(Game)]
    BY RoundTyped
  <1> QED
    BY <1>1 DEF See

LEMMA SendTells ==
    ASSUME IndInv, NEW z \in Players, NEW ws, NEW q, Send(z, ws, q)
    PROVE  /\ cb'[z] = q \o Told(z, seen'[z])
           /\ \A x \in Players \ {z} : cb'[x] = cb[x] /\ seen'[x] = seen[x]
  <1> DEFINE doc == Seen(z, base[z], own[z] \o ws, acked[z])
  <1>1. See(z, doc, q)
    BY DEF Send
  <1> HIDE DEF doc
  <1> QED
    BY <1>1, SeeTells

LEMMA StepHears ==
    ASSUME OnePick, IndInv, RoundTaps, Next, NEW x \in Players
    PROVE  Hears(x)
  <1>0. /\ cb \in [Players -> Seq(Game)] /\ seen \in [Players -> Game] /\ cb[x] \in Seq(Game)
    BY RoundTyped
  <1>1. CASE Tick
    BY <1>1, NothingNew DEF Tick
  <1>2. CASE Join
    <2>1. Requester \in Players
      BY DEF Players
    <2>2. CASE x # Requester
      BY <1>0, <1>2, <2>2, NothingNew DEF Join
    <2>3. CASE x = Requester
      <3>1. \E doc : seen' = [seen EXCEPT ![Requester] = doc] /\ cb' = [cb EXCEPT ![Requester] = <<doc>>]
        BY <1>2 DEF Join
      <3>2. cb'[x] = <<seen'[x]>>
        BY <1>0, <2>1, <2>3, <3>1
      <3> QED
        BY <1>2, <2>3, <3>2 DEF Hears
    <2> QED
      BY <2>2, <2>3
  <1>3. ASSUME NEW z \in Players, UpdateGame(z) PROVE Hears(x)
    <2> DEFINE g == Head(cb[z])
               v == VerdictOf(z, g)
    <2>1. Send(z, CheckedWrites(g, v), Tail(cb[z]))
      BY <1>3 DEF UpdateGame
    <2> HIDE DEF g, v
    <2>2. /\ cb'[z] = Tail(cb[z]) \o Told(z, seen'[z])
          /\ \A y \in Players \ {z} : cb'[y] = cb[y] /\ seen'[y] = seen[y]
      BY <2>1, SendTells
    <2> QED
      BY <1>3, <2>2, NothingNew DEF Hears
  <1>4. ASSUME NEW z \in Players, IgnoreSnapshot(z) PROVE Hears(x)
    <2>1. CASE x = z
      BY <1>4, <2>1 DEF IgnoreSnapshot, Hears
    <2>2. CASE x # z
      BY <1>0, <1>4, <2>2, NothingNew DEF IgnoreSnapshot
    <2> QED
      BY <2>1, <2>2
  <1>5. ASSUME NEW z \in Players, \E ws : Send(z, ws, cb[z])
        PROVE  Hears(x)
    <2>1. /\ cb'[z] = cb[z] \o Told(z, seen'[z])
          /\ \A y \in Players \ {z} : cb'[y] = cb[y] /\ seen'[y] = seen[y]
      BY <1>5, SendTells
    <2> QED
      BY <2>1, NothingNew DEF Hears
  <1>6. ASSUME NEW z \in Players,
               \/ RunSetWinner(z)
               \/ \E finished \in BOOLEAN : RunCheck(z, finished)
               \/ \E m \in Choices(z) : Pick(z, m)
        PROVE  Hears(x)
    <2>1. \E ws : Send(z, ws, cb[z])
      BY <1>6 DEF RunSetWinner, RunCheck, Pick
    <2> QED
      BY <2>1, <1>5
  <1>7. ASSUME NEW z \in Players,
               \/ RunResults(z) \/ Home(z) \/ Commit(z)
               \/ \E finished \in BOOLEAN : RunKick(z, finished)
        PROVE  Hears(x)
    <2>1. cb' = cb /\ seen' = seen
      BY <1>7 DEF RunResults, Home, Commit, RunKick
    <2> QED
      BY <2>1, NothingNew
  <1>8. ASSUME NEW z \in Players, NEW doc, See(z, doc, cb[z])
        PROVE  Hears(x)
    <2>1. /\ seen'[z] = doc /\ cb'[z] = cb[z] \o Told(z, doc)
          /\ \A y \in Players \ {z} : cb'[y] = cb[y] /\ seen'[y] = seen[y]
      BY <1>8, SeeTells
    <2> QED
      BY <2>1, NothingNew DEF Hears
  <1>9. ASSUME NEW z \in Players, Ack(z) PROVE Hears(x)
    <2>1. CASE at[z][acked[z] + 1] <= Shown(z)
      BY <1>8, <1>9, <2>1 DEF Ack
    <2>2. CASE ~(at[z][acked[z] + 1] <= Shown(z))
      <3>1. cb' = cb /\ seen' = seen
        BY <1>9, <2>2 DEF Ack
      <3> QED
        BY <3>1, NothingNew
    <2> QED
      BY <2>1, <2>2
  <1>10. ASSUME NEW z \in Players, NEW k \in 1..Len(feed[z]), Watch(z, k) PROVE Hears(x)
    BY <1>8, <1>10 DEF Watch
  <1>11. \A z \in Players : ~OpenAlert(z) /\ ~CancelAlert(z) /\ ~Exit(z) /\ ~Kill(z) /\ ~Break(z)
    BY NobodyLeaves
  <1> QED
    BY <1>1, <1>2, <1>3, <1>4, <1>6, <1>7, <1>9, <1>10, <1>11 DEF Next, Main, User, Firestore

\* The device that still shows LoadingView has not seen both moves.
LoadingBlank == screen[Requester] = "loading" => ~Full(seen[Requester])

LEMMA LoadingSees == RoundInv => LoadingBlank
  <1> SUFFICES ASSUME RoundInv, screen[Requester] = "loading"
               PROVE  ~Full(seen[Requester])
    BY DEF LoadingBlank
  <1>0. Requester \in Players /\ IndInv
    BY DEF Players, RoundInv
  <1>1. own[Requester] = << >> /\ ~Full(base[Requester])
    BY JoinFirst DEF RoundInv, StartSound
  <1>2. base[Requester] \in Game
    BY <1>0, RoundTyped
  <1>3. seen[Requester] = Overlay(base[Requester], own[Requester])
    BY <1>0, <1>1 DEF IndInv, ViewsSound
  <1> QED
    BY <1>1, <1>2, <1>3, NothingOverlaid

\* Until the winner's device has judged, the documents in which it sees both moves are
\* those of a match in progress, which nobody has won.
Fresh(d) == Full(d) => d.state = "inprogress" /\ d.winner = NoOne
FreshLooks ==
    \A p \in Players : Beats(p) /\ judged[p] = {} =>
        Fresh(seen[p]) /\ \A i \in DOMAIN cb[p] : Fresh(cb[p][i])

LEMMA LooksFresh == RoundInv /\ FullRuns /\ OverEarned /\ AllDecided => FreshLooks
  <1> SUFFICES ASSUME RoundInv, FullRuns, OverEarned, AllDecided, NEW p \in Players,
                      Beats(p), judged[p] = {}
               PROVE  Fresh(seen[p]) /\ \A i \in DOMAIN cb[p] : Fresh(cb[p][i])
    BY DEF FreshLooks
  <1>0. IndInv
    BY DEF RoundInv
  <1>1. ~Over(p)
    <2>1. ~Earned(p) /\ ~Earned(Opponent(p)) /\ Players = {p, Opponent(p)}
      BY Opposite DEF AllDecided, Decided, Earned
    <2> QED
      BY <2>1 DEF OverEarned
  <1>2. ASSUME NEW d \in Game, Local(p, d), Runs(d)
        PROVE  Fresh(d)
    BY <1>1, <1>2 DEF Local, Closing, Runs, Fresh, Game, GameState
  <1>3. seen[p] \in Game /\ \A i \in DOMAIN cb[p] : cb[p][i] \in Game
    <2>1. seen[p] \in Game /\ cb[p] \in Seq(Game)
      BY <1>0, RoundTyped
    <2> QED
      BY <2>1
  <1>4. Local(p, seen[p]) /\ \A i \in DOMAIN cb[p] : Local(p, cb[p][i])
    BY DEF RoundInv, CopiesSound
  <1>5. Runs(seen[p]) /\ \A i \in DOMAIN cb[p] : Runs(cb[p][i])
    BY DEF FullRuns
  <1> QED
    BY <1>2, <1>3, <1>4, <1>5

\* Who wins on the moves of a document both players have moved in.
LEMMA FullBeats ==
    ASSUME IndInv, RoundTaps, IndInv', RoundTaps', Next, NEW p \in Players, Beats(p)',
           NEW d \in Kept, Full(d)
    PROVE  Beats(p)
  <1> DEFINE m == d.moves[p]
             o == d.moves[Opponent(p)]
  <1>0. Opponent(p) \in Players
    BY Opposite
  <1>1. m \in Picked(p) /\ o \in Picked(Opponent(p))
    BY <1>0 DEF Full, NotIdle, Kept, SoundDocs, PickedBy
  <1>2. m \in Picked(p)' /\ o \in Picked(Opponent(p))'
    BY <1>0, <1>1, PickedKept
  <1>3. PICK a \in Picked(p)', b \in Picked(Opponent(p))' : Verdict(a, b) = "win"
    BY DEF Beats
  <1>4. OneMoveEach'
    BY OnlyMoves, PTL
  <1>5. a = m /\ b = o
    BY <1>0, <1>2, <1>3, <1>4 DEF OneMoveEach
  <1> QED
    BY <1>1, <1>3, <1>5 DEF Beats

\* Of the snapshots the winner's device has not been called with before it judges, one
\* has both moves: the last one, and it is there as soon as the view has both.
EndsFullIn(q, d) ==
    /\ \A i \in DOMAIN q : Full(q[i]) => i = Len(q)
    /\ Full(d) => q # << >> /\ Full(q[Len(q)])
FirstLook(p) == EndsFullIn(cb[p], seen[p])
FirstLooks == \A p \in Players : Beats(p) /\ judged[p] = {} => FirstLook(p)

LEMMA QueueGrows ==
    ASSUME NEW q \in Seq(Game), NEW d \in Game, \A i \in DOMAIN q : ~Full(q[i])
    PROVE  /\ EndsFullIn(q \o <<d>>, d)
           /\ ~Full(d) => EndsFullIn(q, d)
  <1> DEFINE q2 == q \o <<d>>
  <1>1. Len(q) \in Nat /\ Len(q2) = Len(q) + 1 /\ q2 \in Seq(Game)
    OBVIOUS
  <1>2. /\ q2[Len(q) + 1] = d
        /\ \A i \in DOMAIN q2 : i = Len(q) + 1 \/ (i \in DOMAIN q /\ q2[i] = q[i])
    OBVIOUS
  <1>3. q2 # << >>
    BY <1>1
  <1> HIDE DEF q2
  <1>4. EndsFullIn(q2, d)
    BY <1>1, <1>2, <1>3 DEF EndsFullIn
  <1>5. ~Full(d) => EndsFullIn(q, d)
    BY DEF EndsFullIn
  <1> QED
    BY <1>4, <1>5 DEF q2

LEMMA QueueMoves ==
    ASSUME NEW q \in Seq(Game), NEW d, q # << >>, ~Full(Head(q)), EndsFullIn(q, d)
    PROVE  EndsFullIn(Tail(q), d)
  <1> DEFINE t == Tail(q)
  <1>1. /\ Len(q) \in Nat /\ Len(q) >= 1 /\ Len(t) = Len(q) - 1 /\ t \in Seq(Game)
        /\ Head(q) = q[1]
    OBVIOUS
  <1>2. \A i \in DOMAIN t : i \in Nat /\ i + 1 \in DOMAIN q /\ t[i] = q[i + 1]
    OBVIOUS
  <1>3. \A i \in 1..(Len(q) - 1) : t[i] = q[i + 1]
    OBVIOUS
  <1> HIDE DEF t
  <1>4. t = << >> <=> Len(q) = 1
    BY <1>1
  <1>5. \A i \in DOMAIN t : Full(t[i]) => i = Len(t)
    BY <1>1, <1>2 DEF EndsFullIn
  <1>6. ASSUME Full(d) PROVE t # << >> /\ Full(t[Len(t)])
    <2>1. Full(q[Len(q)])
      BY <1>6 DEF EndsFullIn
    <2>2. Len(q) # 1
      BY <1>1, <2>1
    <2>3. t[Len(t)] = q[Len(q)]
      BY <1>1, <1>3, <2>2
    <2> QED
      BY <1>4, <2>1, <2>2, <2>3
  <1> QED
    BY <1>5, <1>6 DEF EndsFullIn, t

LEMMA JoinHears ==
    ASSUME IndInv, Join
    PROVE  cb'[Requester] = <<seen'[Requester]>>
  <1>1. /\ cb \in [Players -> Seq(Game)] /\ seen \in [Players -> Game] /\ Requester \in Players
    BY RoundTyped DEF Players
  <1>2. \E doc : seen' = [seen EXCEPT ![Requester] = doc] /\ cb' = [cb EXCEPT ![Requester] = <<doc>>]
    BY DEF Join
  <1> QED
    BY <1>1, <1>2

\* A verdict is one that checkForWinner has reached on the document it is called with.
LEMMA UpdateJudges ==
    ASSUME IndInv, NEW p \in Players, UpdateGame(p)
    PROVE  LET v == VerdictOf(p, Head(cb[p]))
           IN  /\ Head(cb[p]) \in Game /\ v \in VerdictSet /\ cb[p] # << >>
               /\ judged'[p] = IF v = "waiting" THEN judged[p] ELSE judged[p] \cup {v}
               /\ v = "waiting" <=> ~Full(Head(cb[p]))
               /\ v = "waiting" => seen' = seen /\ cb' = [cb EXCEPT ![p] = Tail(cb[p])]
  <1> DEFINE g == Head(cb[p])
             v == VerdictOf(p, g)
  <1>1. cb[p] # << >> /\ cb[p] \in Seq(Game) /\ Judge(p, v) /\ Send(p, CheckedWrites(g, v), Tail(cb[p]))
    BY RoundTyped DEF UpdateGame
  <1>2. g \in Game /\ Tail(cb[p]) \in Seq(Game)
    BY <1>1
  <1> HIDE DEF g
  <1>3. v \in VerdictSet /\ (v = "waiting" <=> ~Full(g))
    <2>1. p \in Players /\ Opponent(p) \in Players /\ Players = {p, Opponent(p)}
      BY Opposite
    <2>2. g.moves[p] \in MoveSet /\ g.moves[Opponent(p)] \in MoveSet
      BY <1>2, <2>1 DEF Game
    <2> QED
      BY <2>1, <2>2, VerdictsOppose DEF VerdictOf, Full, NotIdle
  <1> HIDE DEF v
  <1>4. judged'[p] = IF v = "waiting" THEN judged[p] ELSE judged[p] \cup {v}
    BY <1>1, RoundTyped DEF Judge
  <1>5. v = "waiting" => CheckedWrites(g, v) = << >>
    BY DEF CheckedWrites, TakesElse
  <1>6. v = "waiting" => seen' = seen /\ cb' = [cb EXCEPT ![p] = Tail(cb[p])]
    BY <1>1, <1>2, <1>5, SendNothing
  <1> QED
    BY <1>1, <1>2, <1>3, <1>4, <1>6 DEF v, g

LEMMA KeptGrows ==
    ASSUME IndInv, Next
    PROVE  Kept \subseteq Kept'
  <1>1. \A q \in Players : PickedBy[q] \subseteq PickedBy'[q]
    BY PickedKept DEF PickedBy
  <1>2. EarnedBy \subseteq EarnedBy'
    BY JudgedKept DEF EarnedBy
  <1> QED
    BY <1>1, <1>2, SoundGrows DEF Kept

LEMMA FirstLooksStep ==
    ASSUME OnePick, LossInv, RoundInv', SeenSound, SeenSound', OnlyOne', FreshLooks, FreshLooks',
           LoadingBlank, LoadingBlank', Screens, FirstLooks, Next
    PROVE  FirstLooks'
  <1>0. RoundInv /\ IndInv /\ RoundTaps /\ IndInv' /\ RoundTaps' /\ ViewFull /\ ViewFull'
    BY DEF LossInv, RoundInv
  <1> SUFFICES ASSUME NEW p \in Players, Beats(p)', judged'[p] = {}
               PROVE  FirstLook(p)'
    BY DEF FirstLooks
  <1>1. judged[p] = {}
    BY <1>0, JudgedKept
  <1>2. ~Alive(p) => p = Requester /\ screen[p] = "loading" /\ ~Full(seen[p])
    <2>1. screen[p] \in {"loading", "game"} /\ screen[Acceptor] # "loading"
      BY <1>1 DEF Screens
    <2>2. p \in {Requester, Acceptor}
      BY DEF Players
    <2> QED
      BY <2>1, <2>2 DEF Alive, LoadingBlank
  <1>3. seen[p] \in Kept /\ seen'[p] \in Kept' /\ Kept \subseteq Kept'
    BY <1>0, KeptGrows DEF SeenSound
  <1>4. Full(seen[p]) => Beats(p)
    BY <1>0, <1>3, FullBeats
  <1>5. Full(seen[p]) => FirstLook(p)
    BY <1>1, <1>4 DEF FirstLooks
  <1>6. Full(seen[p]) /\ Full(seen'[p]) => seen'[p] = seen[p]
    <2> SUFFICES ASSUME Full(seen[p]), Full(seen'[p]) PROVE seen'[p] = seen[p]
      OBVIOUS
    <2>1. seen[p].state = "inprogress" /\ seen[p].winner = NoOne
      BY <1>1, <1>4 DEF FreshLooks, Fresh
    <2>2. Fresh(seen[p])'
      BY DEF FreshLooks
    <2>3. seen'[p].state = "inprogress" /\ seen'[p].winner = NoOne
      BY <2>2 DEF Fresh, Full, NotIdle
    <2>4. \A d, e \in Kept' : Full(d) /\ Full(e) /\ d.state = e.state /\ d.winner = e.winner => d = e
      BY DEF OnlyOne, Full, NotIdle
    <2> QED
      BY <1>3, <2>1, <2>3, <2>4
  <1>7. cb[p] \in Seq(Game) /\ seen[p] \in Game /\ seen'[p] \in Game
    <2>1. Typed'
      BY <1>0, IndTyped, PTL
    <2> QED
      BY <1>0, <2>1, RoundTyped DEF Typed
  <1>8. \A i \in DOMAIN cb[p] : Full(cb[p][i]) => Full(seen[p])
    BY <1>0 DEF ViewFull
  <1>9. \A i \in DOMAIN cb'[p] : Full(cb'[p][i]) => Full(seen'[p])
    BY <1>0 DEF ViewFull, Full, NotIdle
  <1>10. FirstLook(p)' <=> EndsFullIn(cb'[p], seen'[p])
    BY DEF FirstLook, EndsFullIn, Full, NotIdle
  <1>11. ~Full(seen[p]) => EndsFullIn(cb[p], seen[p])
    BY <1>8 DEF EndsFullIn
  <1>12. EndsFullIn(cb[p], seen[p])
    BY <1>5, <1>11 DEF FirstLook
  <1>13. ScreenMoves(p)
    BY <1>0, ScreensMove
  <1>14. CASE Join /\ p = Requester
    <2>1. cb'[p] = <<seen'[p]>>
      BY <1>0, <1>14, JoinHears
    <2> QED
      BY <1>10, <2>1 DEF EndsFullIn
  <1>15. CASE cb'[p] = cb[p] \o Told(p, seen'[p]) /\ ~(Join /\ p = Requester)
    <2>1. CASE seen'[p] = seen[p]
      <3>1. cb'[p] = cb[p]
        BY <1>7, <1>15, <2>1, NothingAdded DEF Told
      <3> QED
        BY <1>10, <1>12, <2>1, <3>1
    <2>2. CASE seen'[p] # seen[p] /\ Alive(p)
      <3>1. cb'[p] = cb[p] \o <<seen'[p]>>
        BY <1>15, <2>2 DEF Told
      <3>2. ~Full(seen[p])
        <4> SUFFICES ASSUME Full(seen[p]) PROVE FALSE
          OBVIOUS
        <4>1. cb[p] # << >> /\ Full(cb[p][Len(cb[p])])
          BY <1>12 DEF EndsFullIn
        <4>2. Len(cb[p]) \in DOMAIN cb'[p] /\ cb'[p][Len(cb[p])] = cb[p][Len(cb[p])]
          BY <1>7, <3>1, <4>1
        <4> QED
          BY <1>6, <1>9, <2>2, <4>1, <4>2
      <3> QED
        BY <1>7, <1>8, <1>10, <3>1, <3>2, QueueGrows
    <2>3. CASE seen'[p] # seen[p] /\ ~Alive(p)
      <3>1. cb'[p] = cb[p]
        BY <1>7, <1>15, <2>3, NothingAdded DEF Told
      <3>2. screen'[p] = "loading"
        BY <1>2, <1>13, <1>15, <2>3 DEF ScreenMoves, Home
      <3>3. ~Full(seen'[p])
        BY <1>2, <2>3, <3>2 DEF LoadingBlank, Full, NotIdle
      <3> QED
        BY <1>2, <1>7, <1>8, <1>10, <2>3, <3>1, <3>3, QueueGrows
    <2> QED
      BY <2>1, <2>2, <2>3
  <1>16. CASE UpdateGame(p)
    <2> DEFINE v == VerdictOf(p, Head(cb[p]))
    <2>1. /\ v \in VerdictSet /\ cb[p] # << >>
          /\ judged'[p] = IF v = "waiting" THEN judged[p] ELSE judged[p] \cup {v}
          /\ v = "waiting" <=> ~Full(Head(cb[p]))
          /\ v = "waiting" => seen' = seen /\ cb' = [cb EXCEPT ![p] = Tail(cb[p])]
      BY <1>0, <1>16, UpdateJudges
    <2> HIDE DEF v
    <2>2. v = "waiting"
      BY <2>1
    <2>3. seen'[p] = seen[p] /\ cb'[p] = Tail(cb[p])
      BY <1>0, <2>1, <2>2, RoundTyped
    <2> QED
      BY <1>7, <1>10, <1>12, <2>1, <2>2, <2>3, QueueMoves
  <1>17. CASE IgnoreSnapshot(p) /\ cb[p] # << >> /\ ~Alive(p)
    <2>1. seen'[p] = seen[p] /\ cb'[p] = Tail(cb[p])
      BY <1>0, <1>17, RoundTyped DEF IgnoreSnapshot
    <2>2. ~Full(Head(cb[p]))
      <3>1. 1 \in DOMAIN cb[p] /\ Head(cb[p]) = cb[p][1]
        BY <1>7, <1>17
      <3> QED
        BY <1>2, <1>8, <1>17, <3>1
    <2> QED
      BY <1>7, <1>10, <1>12, <1>17, <2>1, <2>2, QueueMoves
  <1> QED
    BY <1>0, <1>14, <1>15, <1>16, <1>17, StepHears DEF Hears

-----------------------------------------------------------------------------
(***************************************************************************)
(* The timetable of the winner's device: its second check, its kick, its   *)
(* setWinner and its results are due at fixed distances from each other.   *)
(***************************************************************************)
Kinds == {"check", "kick", "setWinner", "results"}
Holds(ag, d, kind) == \E i \in DOMAIN ag[d] : ag[d][i].kind = kind

\* A task due in d seconds, when the first results are due in r.
OnTime(t, d, r) ==
    /\ t.kind = "check" => t.verdict = "win" /\ r \in {d + 4, d + 2}
    /\ t.kind = "kick" => t.verdict = "win" /\ r \in {d + 5, d + 3, d + 1}
    /\ t.kind = "setWinner" => r \in {d + 3, d + 1} \/ d = r + 1
    /\ t.kind = "results" => r <= d
Punctual(ag, r) ==
    \A d \in 0..ResultsSeconds : \A i \in DOMAIN ag[d] : OnTime(ag[d][i], d, r)

LEMMA Afters ==
    ASSUME NEW ag \in Agenda, NEW d \in 0..ResultsSeconds, NEW t \in Task
    PROVE  /\ After(ag, d, t) \in Agenda
           /\ \A e \in 0..ResultsSeconds, kind \in Kinds :
                  Holds(ag, e, kind) => Holds(After(ag, d, t), e, kind)
           /\ Holds(After(ag, d, t), d, t.kind)
           /\ \A r : Punctual(ag, r) /\ OnTime(t, d, r) => Punctual(After(ag, d, t), r)
  <1> DEFINE ag2 == After(ag, d, t)
             s == Append(ag[d], t)
  <1>1. ag \in [0..ResultsSeconds -> Seq(Task)] /\ ag[d] \in Seq(Task)
    BY DEF Agenda
  <1>2. ag2 = [ag EXCEPT ![d] = s]
    BY DEF After
  <1>3. /\ s \in Seq(Task) /\ Len(ag[d]) + 1 \in DOMAIN s /\ s[Len(ag[d]) + 1] = t
        /\ \A i \in DOMAIN s : s[i] = t \/ (i \in DOMAIN ag[d] /\ s[i] = ag[d][i])
        /\ \A i \in DOMAIN ag[d] : i \in DOMAIN s /\ s[i] = ag[d][i]
    BY <1>1
  <1> HIDE DEF s, ag2
  <1>4. ag2 \in Agenda /\ ag2[d] = s /\ \A e \in (0..ResultsSeconds) \ {d} : ag2[e] = ag[e]
    BY <1>1, <1>2, <1>3 DEF Agenda
  <1>5. ASSUME NEW e \in 0..ResultsSeconds, NEW kind \in Kinds, Holds(ag, e, kind)
        PROVE  Holds(ag2, e, kind)
    <2>1. CASE e = d
      BY <1>3, <1>4, <1>5, <2>1 DEF Holds
    <2>2. CASE e # d
      BY <1>4, <1>5, <2>2 DEF Holds
    <2> QED
      BY <2>1, <2>2
  <1>6. Holds(ag2, d, t.kind)
    BY <1>3, <1>4 DEF Holds
  <1>7. ASSUME NEW r, Punctual(ag, r), OnTime(t, d, r),
               NEW e \in 0..ResultsSeconds, NEW i \in DOMAIN ag2[e]
        PROVE  OnTime(ag2[e][i], e, r)
    <2>1. CASE e = d
      BY <1>3, <1>4, <1>7, <2>1 DEF Punctual
    <2>2. CASE e # d
      BY <1>4, <1>7, <2>2 DEF Punctual
    <2> QED
      BY <2>1, <2>2
  <1>8. \A r : Punctual(ag, r) /\ OnTime(t, d, r) => Punctual(ag2, r)
    BY <1>7 DEF Punctual
  <1> QED
    BY <1>4, <1>5, <1>6, <1>8 DEF ag2

LEMMA Rests ==
    ASSUME NEW p \in Players, agenda[p] \in Agenda, agenda[p][0] # << >>
    PROVE  /\ Rest(p) \in Agenda /\ Head(agenda[p][0]) \in Task
           /\ \A e \in 0..ResultsSeconds, kind \in Kinds :
                  Holds(agenda[p], e, kind) /\ (e = 0 => kind # Head(agenda[p][0]).kind)
                      => Holds(Rest(p), e, kind)
           /\ \A r : Punctual(agenda[p], r) => Punctual(Rest(p), r) /\ OnTime(Head(agenda[p][0]), 0, r)
  <1> DEFINE ag == agenda[p]
             ag2 == Rest(p)
             s == ag[0]
             u == Tail(s)
             t == Head(s)
  <1>1. ag \in [0..ResultsSeconds -> Seq(Task)] /\ 0 \in 0..ResultsSeconds /\ s \in Seq(Task) /\ s # << >>
    BY DEF Agenda, ResultsSeconds
  <1>2. ag2 = [ag EXCEPT ![0] = u]
    BY DEF Rest
  <1> HIDE DEF s
  <1>3. /\ u \in Seq(Task) /\ t \in Task /\ 1 \in DOMAIN s /\ t = s[1]
        /\ \A i \in DOMAIN u : i + 1 \in DOMAIN s /\ u[i] = s[i + 1]
        /\ \A i \in DOMAIN s : i = 1 \/ (i - 1 \in DOMAIN u /\ u[i - 1] = s[i])
    <2>1. /\ u \in Seq(Task) /\ Len(u) = Len(s) - 1 /\ Len(s) \in Nat /\ Len(s) >= 1
          /\ t = s[1] /\ DOMAIN u = 1..Len(u) /\ DOMAIN s = 1..Len(s)
      BY <1>1
    <2>2. \A i \in 1..(Len(s) - 1) : u[i] = s[i + 1]
      BY <1>1
    <2>3. t \in Task /\ 1 \in DOMAIN s
      BY <1>1, <2>1
    <2> HIDE DEF u, t
    <2>4. \A i \in DOMAIN u : i + 1 \in DOMAIN s /\ u[i] = s[i + 1]
      BY <2>1, <2>2
    <2>5. ASSUME NEW i \in DOMAIN s, i # 1
          PROVE  i - 1 \in DOMAIN u /\ u[i - 1] = s[i]
      <3>1. i - 1 \in 1..(Len(s) - 1) /\ (i - 1) + 1 = i
        BY <2>1, <2>5
      <3> QED
        BY <2>1, <2>2, <3>1
    <2> QED
      BY <2>1, <2>3, <2>4, <2>5
  <1> HIDE DEF u, t, ag2, ag
  <1>4. ag2 \in Agenda /\ ag2[0] = u /\ \A e \in (0..ResultsSeconds) \ {0} : ag2[e] = ag[e]
    BY <1>1, <1>2, <1>3 DEF Agenda
  <1>5. ASSUME NEW e \in 0..ResultsSeconds, NEW kind \in Kinds, Holds(ag, e, kind), e = 0 => kind # t.kind
        PROVE  Holds(ag2, e, kind)
    <2>1. CASE e = 0
      <3>1. PICK i \in DOMAIN s : s[i].kind = kind
        BY <1>5, <2>1 DEF Holds, s
      <3>2. i # 1
        BY <1>3, <1>5, <2>1, <3>1
      <3> QED
        BY <1>3, <1>4, <2>1, <3>1, <3>2 DEF Holds
    <2>2. CASE e # 0
      BY <1>4, <1>5, <2>2 DEF Holds
    <2> QED
      BY <2>1, <2>2
  <1>6. ASSUME NEW r, Punctual(ag, r)
        PROVE  Punctual(ag2, r) /\ OnTime(t, 0, r)
    <2>1. \A i \in DOMAIN s : OnTime(s[i], 0, r)
      BY <1>1, <1>6 DEF Punctual, s
    <2>2. ASSUME NEW e \in 0..ResultsSeconds, NEW i \in DOMAIN ag2[e]
          PROVE  OnTime(ag2[e][i], e, r)
      <3>1. CASE e = 0
        BY <1>3, <1>4, <2>1, <2>2, <3>1
      <3>2. CASE e # 0
        BY <1>4, <1>6, <2>2, <3>2 DEF Punctual
      <3> QED
        BY <3>1, <3>2
    <2>3. OnTime(t, 0, r)
      BY <1>3, <2>1
    <2> QED
      BY <2>2, <2>3 DEF Punctual
  <1> QED
    BY <1>3, <1>4, <1>5, <1>6 DEF ag2, ag, s, t

LEMMA Sooner ==
    ASSUME NEW t \in Task, NEW d \in Nat, NEW r \in Nat, r >= 1, OnTime(t, d + 1, r)
    PROVE  OnTime(t, d, r - 1)
  <1>1. /\ r \in {(d + 1) + 4, (d + 1) + 2} => r - 1 \in {d + 4, d + 2}
        /\ r \in {(d + 1) + 5, (d + 1) + 3, (d + 1) + 1} => r - 1 \in {d + 5, d + 3, d + 1}
        /\ r \in {(d + 1) + 3, (d + 1) + 1} => r - 1 \in {d + 3, d + 1}
        /\ d + 1 = r + 1 => d = (r - 1) + 1
        /\ r <= d + 1 => r - 1 <= d
    OBVIOUS
  <1> QED
    BY <1>1 DEF OnTime

LEMMA Laters ==
    ASSUME NEW ag \in Agenda, ag[0] = << >>, NEW r \in 0..ResultsSeconds, Punctual(ag, r)
    PROVE  /\ \A e \in 1..ResultsSeconds, kind \in Kinds :
                  Holds(ag, e, kind) => Holds(OneSecondLater(ag), e - 1, kind)
           /\ \A kind : ~Holds(ag, 0, kind)
           /\ r >= 1 => Punctual(OneSecondLater(ag), r - 1)
  <1> DEFINE ag2 == OneSecondLater(ag)
  <1>1. /\ \A d \in 0..(ResultsSeconds - 1) : ag2[d] = ag[d + 1] /\ d \in Nat
        /\ ag2[ResultsSeconds] = << >>
    BY DEF OneSecondLater, ResultsSeconds
  <1>2. \A e \in 1..ResultsSeconds : e - 1 \in 0..(ResultsSeconds - 1) /\ (e - 1) + 1 = e
    BY DEF ResultsSeconds
  <1>3. \A d \in 0..ResultsSeconds : d = ResultsSeconds \/ (d \in 0..(ResultsSeconds - 1) /\ d + 1 \in 0..ResultsSeconds)
    BY DEF ResultsSeconds
  <1> HIDE DEF ag2
  <1>4. ASSUME NEW e \in 1..ResultsSeconds, NEW kind \in Kinds, Holds(ag, e, kind)
        PROVE  Holds(ag2, e - 1, kind)
    <2>1. ag2[e - 1] = ag[e]
      BY <1>1, <1>2
    <2> QED
      BY <1>4, <2>1 DEF Holds
  <1>5. \A kind : ~Holds(ag, 0, kind)
    BY DEF Holds
  <1>6. ASSUME r >= 1, NEW d \in 0..ResultsSeconds, NEW i \in DOMAIN ag2[d]
        PROVE  OnTime(ag2[d][i], d, r - 1)
    <2>1. d \in 0..(ResultsSeconds - 1) /\ d + 1 \in 0..ResultsSeconds
      BY <1>1, <1>3, <1>6
    <2>2. ag2[d] = ag[d + 1] /\ d \in Nat
      BY <1>1, <2>1
    <2>3. ag[d + 1] \in Seq(Task)
      BY <2>1 DEF Agenda
    <2>4. ag[d + 1][i] \in Task /\ OnTime(ag[d + 1][i], d + 1, r)
      BY <1>6, <2>1, <2>2, <2>3 DEF Punctual
    <2>5. r \in Nat
      BY DEF ResultsSeconds
    <2> QED
      BY <1>6, <2>2, <2>4, <2>5, Sooner
  <1> QED
    BY <1>4, <1>5, <1>6 DEF Punctual, ag2

\* What checkForWinner puts off after a win.
LEMMA WinAgenda ==
    ASSUME NEW ag \in Agenda
    PROVE  LET ag2 == CheckedAgenda(ag, "win")
           IN  /\ ag2 \in Agenda
               /\ \A e \in 0..ResultsSeconds, kind \in Kinds : Holds(ag, e, kind) => Holds(ag2, e, kind)
               /\ Holds(ag2, 1, "kick") /\ Holds(ag2, 6, "results")
               /\ \A r \in {2, 4, 6} : Punctual(ag, r) => Punctual(ag2, r)
  <1> DEFINE ag1 == After(ag, 1, Kick("win"))
             ag2 == After(ag1, 6, ResultsTask)
  <1>0. 1 \in 0..ResultsSeconds /\ 6 \in 0..ResultsSeconds /\ ResultsSeconds = 6
    BY DEF ResultsSeconds
  <1>1. CheckedAgenda(ag, "win") = ag2
    BY DEF CheckedAgenda, TakesElse, continueToResults, KickSeconds, ResultsSeconds
  <1>2. /\ Kick("win") \in Task /\ Kick("win").kind = "kick"
        /\ ResultsTask \in Task /\ ResultsTask.kind = "results"
        /\ \A r \in {2, 4, 6} : OnTime(Kick("win"), 1, r) /\ OnTime(ResultsTask, 6, r)
    BY DEF Kick, ResultsTask, Task, VerdictSet, OnTime
  <1>3. /\ ag1 \in Agenda /\ Holds(ag1, 1, "kick")
        /\ \A e \in 0..ResultsSeconds, kind \in Kinds : Holds(ag, e, kind) => Holds(ag1, e, kind)
        /\ \A r \in {2, 4, 6} : Punctual(ag, r) => Punctual(ag1, r)
    BY <1>0, <1>2, Afters
  <1> HIDE DEF ag1
  <1>4. /\ ag2 \in Agenda /\ Holds(ag2, 6, "results")
        /\ \A e \in 0..ResultsSeconds, kind \in Kinds : Holds(ag1, e, kind) => Holds(ag2, e, kind)
        /\ \A r \in {2, 4, 6} : Punctual(ag1, r) => Punctual(ag2, r)
    BY <1>0, <1>2, <1>3, Afters
  <1> HIDE DEF ag2
  <1>5. Holds(ag2, 1, "kick")
    BY <1>0, <1>3, <1>4 DEF Kinds
  <1> QED
    BY <1>1, <1>3, <1>4, <1>5

\* While no write of the device names its player, a second check is to come: it writes the
\* forfeit that updateGame has only noted.
Waits(ag, q, g, p, r) ==
    /\ r >= 4 /\ Holds(ag, r - 4, "check")
    /\ q # << >> => r = 6
    /\ q = << >> => g.winner = p
\* Once it is named in the view, a setWinner comes before the results, or has come.
Named(ag, q, g, p, r) ==
    /\ r <= 4
    /\ q # << >> => r = 4
    /\ \/ r >= 1 /\ Holds(ag, r - 1, "setWinner")
       \/ r >= 3 /\ Holds(ag, r - 3, "kick")
       \/ r <= 1 /\ g.winner = p
\* The agenda ag, the snapshots q, the game g and the view v of the winner p, r seconds
\* before the results.
Timetable(ag, q, g, v, p, r) ==
    /\ Holds(ag, r, "results") /\ Punctual(ag, r)
    /\ q \in {<< >>, <<v>>}
    /\ IF v.winner = p THEN Named(ag, q, g, p, r) ELSE Waits(ag, q, g, p, r)

LEMMA TableLater ==
    ASSUME NEW ag \in Agenda, ag[0] = << >>, NEW r \in 0..ResultsSeconds, NEW g, NEW v, NEW p,
           Timetable(ag, << >>, g, v, p, r)
    PROVE  r - 1 \in 0..ResultsSeconds /\ Timetable(OneSecondLater(ag), << >>, g, v, p, r - 1)
  <1> DEFINE ag2 == OneSecondLater(ag)
  <1>0. r \in Nat /\ r <= 6 /\ {"check", "kick", "setWinner", "results"} = Kinds
    BY DEF ResultsSeconds, Kinds
  <1>1. /\ \A e \in 1..ResultsSeconds, kind \in Kinds : Holds(ag, e, kind) => Holds(ag2, e - 1, kind)
        /\ \A kind : ~Holds(ag, 0, kind)
        /\ r >= 1 => Punctual(ag2, r - 1)
    BY Laters DEF Timetable
  <1> HIDE DEF ag2
  <1>2. r # 0 /\ r >= 1 /\ r - 1 \in 0..ResultsSeconds /\ r \in 1..ResultsSeconds
    BY <1>0, <1>1 DEF Timetable, ResultsSeconds
  <1>3. Holds(ag2, r - 1, "results") /\ Punctual(ag2, r - 1)
    BY <1>0, <1>1, <1>2 DEF Timetable
  <1>4. CASE v.winner = p
    <2>1. Named(ag, << >>, g, p, r)
      BY <1>4 DEF Timetable
    <2>2. Named(ag2, << >>, g, p, r - 1)
      <3>1. CASE r >= 1 /\ Holds(ag, r - 1, "setWinner")
        <4>1. r - 1 # 0
          BY <1>1, <3>1
        <4>2. r - 1 \in 1..ResultsSeconds /\ r - 1 >= 1 /\ r - 1 <= 4
          BY <1>0, <1>2, <2>1, <4>1 DEF ResultsSeconds, Named
        <4>3. Holds(ag2, (r - 1) - 1, "setWinner")
          BY <1>0, <1>1, <3>1, <4>2
        <4> QED
          BY <4>2, <4>3 DEF Named
      <3>2. CASE r >= 3 /\ Holds(ag, r - 3, "kick")
        <4>1. r - 3 # 0
          BY <1>1, <3>2
        <4>2. r - 3 \in 1..ResultsSeconds /\ r - 1 >= 3 /\ (r - 3) - 1 = (r - 1) - 3 /\ r - 1 <= 4
          BY <1>0, <2>1, <3>2, <4>1 DEF ResultsSeconds, Named
        <4>3. Holds(ag2, (r - 1) - 3, "kick")
          BY <1>0, <1>1, <3>2, <4>2
        <4> QED
          BY <4>2, <4>3 DEF Named
      <3>3. CASE r <= 1 /\ g.winner = p
        <4>1. r - 1 <= 1 /\ r - 1 <= 4
          BY <1>0, <3>3
        <4> QED
          BY <3>3, <4>1 DEF Named
      <3> QED
        BY <2>1, <3>1, <3>2, <3>3 DEF Named
    <2> QED
      BY <1>2, <1>3, <1>4, <2>2 DEF Timetable, ag2
  <1>5. CASE v.winner # p
    <2>1. Waits(ag, << >>, g, p, r)
      BY <1>5 DEF Timetable
    <2>2. r >= 4 /\ Holds(ag, r - 4, "check") /\ g.winner = p
      BY <2>1 DEF Waits
    <2>3. r - 4 # 0
      BY <1>1, <2>2
    <2>4. r - 4 \in 1..ResultsSeconds /\ r - 1 >= 4 /\ (r - 4) - 1 = (r - 1) - 4
      BY <1>0, <2>2, <2>3 DEF ResultsSeconds
    <2>5. Holds(ag2, (r - 1) - 4, "check")
      BY <1>0, <1>1, <2>2, <2>4
    <2>6. Waits(ag2, << >>, g, p, r - 1)
      BY <2>2, <2>4, <2>5 DEF Waits
    <2> QED
      BY <1>2, <1>3, <1>5, <2>6 DEF Timetable, ag2
  <1> QED
    BY <1>4, <1>5

\* A second check that does, or does not, find its player named in the view leaves the
\* agenda ag2: then what it shows the listener may name the player for the first time.
Rechecked(ag2, q, g, v, p, r) ==
    /\ v.winner = p => \A g2 : Timetable(ag2, q, g2, v, p, r)
    /\ v.winner # p =>
           /\ q = << >> /\ g.winner = p
           /\ \A g2, v2 : v2.winner = p => \A q2 \in {<< >>, <<v2>>} : Timetable(ag2, q2, g2, v2, p, r)

LEMMA TableCheck ==
    ASSUME NEW p \in Players, agenda[p] \in Agenda, agenda[p][0] # << >>,
           Head(agenda[p][0]).kind = "check", NEW r \in 0..ResultsSeconds, NEW q, NEW g, NEW v,
           Timetable(agenda[p], q, g, v, p, r)
    PROVE  /\ Head(agenda[p][0]).verdict = "win"
           /\ Rechecked(CheckedAgenda(Rest(p), "win"), q, g, v, p, r)
  <1> DEFINE ag == agenda[p]
             ag1 == Rest(p)
             ag2 == CheckedAgenda(ag1, "win")
             t == Head(ag[0])
  <1>0. r \in Nat /\ r <= 6 /\ Kinds = {"check", "kick", "setWinner", "results"}
    BY DEF ResultsSeconds, Kinds
  <1>1. Holds(ag, r, "results") /\ Punctual(ag, r) /\ t.kind = "check" /\ q \in {<< >>, <<v>>}
    BY DEF Timetable
  <1>2. /\ ag1 \in Agenda
        /\ \A e \in 0..ResultsSeconds, kind \in Kinds :
               Holds(ag, e, kind) /\ (e = 0 => kind # t.kind) => Holds(ag1, e, kind)
        /\ Punctual(ag1, r) /\ OnTime(t, 0, r)
    BY <1>1, Rests
  <1>3. r \in {2, 4} /\ t.verdict = "win"
    BY <1>0, <1>1, <1>2 DEF OnTime
  <1>4. /\ \A e \in 0..ResultsSeconds, kind \in Kinds : Holds(ag1, e, kind) => Holds(ag2, e, kind)
        /\ Holds(ag2, 1, "kick") /\ Punctual(ag2, r)
    BY <1>2, <1>3, WinAgenda
  <1> HIDE DEF ag2, ag1, t, ag
  <1>5. \A e \in 0..ResultsSeconds, kind \in Kinds : Holds(ag, e, kind) /\ kind # "check" => Holds(ag2, e, kind)
    BY <1>1, <1>2, <1>4
  <1>6. Holds(ag2, r, "results")
    BY <1>0, <1>1, <1>5
  <1>7. ASSUME v.winner = p, NEW g2
        PROVE  Timetable(ag2, q, g2, v, p, r)
    <2>1. Named(ag, q, g, p, r)
      BY <1>7 DEF Timetable, ag
    <2>2. r - 1 \in 0..ResultsSeconds /\ (r >= 3 => r - 3 \in 0..ResultsSeconds) /\ ~(r <= 1)
      BY <1>3 DEF ResultsSeconds
    <2>3. Named(ag2, q, g2, p, r)
      BY <1>0, <1>5, <2>1, <2>2 DEF Named
    <2> QED
      BY <1>1, <1>4, <1>6, <1>7, <2>3 DEF Timetable
  <1>8. ASSUME v.winner # p
        PROVE  /\ q = << >> /\ g.winner = p
               /\ \A g2, v2 : v2.winner = p => \A q2 \in {<< >>, <<v2>>} : Timetable(ag2, q2, g2, v2, p, r)
    <2>1. Waits(ag, q, g, p, r)
      BY <1>8 DEF Timetable, ag
    <2>2. r = 4 /\ r - 3 = 1
      BY <1>3, <2>1 DEF Waits
    <2>3. q = << >> /\ g.winner = p
      BY <2>1, <2>2 DEF Waits
    <2>4. \A q2, g2 : Named(ag2, q2, g2, p, r)
      BY <1>4, <2>2 DEF Named
    <2> QED
      BY <1>4, <1>6, <2>3, <2>4 DEF Timetable
  <1> QED
    BY <1>3, <1>7, <1>8 DEF Rechecked, ag2, ag1, t, ag

LEMMA TableKick ==
    ASSUME NEW p \in Players, agenda[p] \in Agenda, agenda[p][0] # << >>,
           Head(agenda[p][0]).kind = "kick", NEW r \in 0..ResultsSeconds, NEW q, NEW g, NEW v,
           Timetable(agenda[p], q, g, v, p, r)
    PROVE  /\ Head(agenda[p][0]).verdict = "win"
           /\ Timetable(After(Rest(p), SetWinnerSeconds, SetWinnerTask), q, g, v, p, r)
  <1> DEFINE ag == agenda[p]
             ag1 == Rest(p)
             ag2 == After(ag1, 2, SetWinnerTask)
             t == Head(ag[0])
  <1>0. r \in Nat /\ r <= 6 /\ Kinds = {"check", "kick", "setWinner", "results"} /\ 2 \in 0..ResultsSeconds
    BY DEF ResultsSeconds, Kinds
  <1>1. Holds(ag, r, "results") /\ Punctual(ag, r) /\ t.kind = "kick" /\ q \in {<< >>, <<v>>}
    BY DEF Timetable
  <1>2. /\ ag1 \in Agenda
        /\ \A e \in 0..ResultsSeconds, kind \in Kinds :
               Holds(ag, e, kind) /\ (e = 0 => kind # t.kind) => Holds(ag1, e, kind)
        /\ Punctual(ag1, r) /\ OnTime(t, 0, r)
    BY <1>1, Rests
  <1>3. r \in {1, 3, 5} /\ t.verdict = "win"
    BY <1>0, <1>1, <1>2 DEF OnTime
  <1>a. SetWinnerTask \in Task /\ SetWinnerTask.kind = "setWinner" /\ OnTime(SetWinnerTask, 2, r)
    BY <1>3 DEF SetWinnerTask, Task, VerdictSet, OnTime
  <1>4. /\ \A e \in 0..ResultsSeconds, kind \in Kinds : Holds(ag1, e, kind) => Holds(ag2, e, kind)
        /\ Holds(ag2, 2, "setWinner") /\ Punctual(ag2, r)
    BY <1>0, <1>2, <1>a, Afters
  <1> HIDE DEF ag2, ag1, t, ag
  <1>5. \A e \in 0..ResultsSeconds, kind \in Kinds :
            Holds(ag, e, kind) /\ (e = 0 => kind # "kick") => Holds(ag2, e, kind)
    BY <1>1, <1>2, <1>4
  <1>6. Holds(ag2, r, "results")
    BY <1>0, <1>1, <1>5
  <1>7. ASSUME v.winner = p PROVE Timetable(ag2, q, g, v, p, r)
    <2>1. Named(ag, q, g, p, r)
      BY <1>7 DEF Timetable, ag
    <2>2. r = 1 \/ (r = 3 /\ r - 1 = 2)
      BY <1>3, <2>1 DEF Named
    <2>3. Named(ag2, q, g, p, r)
      <3>1. CASE r = 3
        BY <1>4, <2>1, <2>2, <3>1 DEF Named
      <3>2. CASE r = 1
        <4>1. r - 1 = 0 /\ 0 \in 0..ResultsSeconds /\ r >= 1 /\ ~(r >= 3)
          BY <3>2 DEF ResultsSeconds
        <4>2. Holds(ag, 0, "setWinner") => Holds(ag2, 0, "setWinner")
          BY <1>0, <1>5, <4>1
        <4> QED
          BY <2>1, <4>1, <4>2 DEF Named
      <3> QED
        BY <2>2, <3>1, <3>2
    <2> QED
      BY <1>1, <1>4, <1>6, <1>7, <2>3 DEF Timetable
  <1>8. ASSUME v.winner # p PROVE Timetable(ag2, q, g, v, p, r)
    <2>1. Waits(ag, q, g, p, r)
      BY <1>8 DEF Timetable, ag
    <2>2. r = 5 /\ r - 4 = 1 /\ 1 \in 0..ResultsSeconds
      BY <1>3, <2>1 DEF Waits, ResultsSeconds
    <2>3. Waits(ag2, q, g, p, r)
      BY <1>0, <1>5, <2>1, <2>2 DEF Waits
    <2> QED
      BY <1>1, <1>4, <1>6, <1>8, <2>3 DEF Timetable
  <1>9. Timetable(ag2, q, g, v, p, r)
    BY <1>7, <1>8
  <1> QED
    BY <1>3, <1>9 DEF ag2, ag1, t, ag, SetWinnerSeconds

LEMMA TableSetWinner ==
    ASSUME NEW p \in Players, agenda[p] \in Agenda, agenda[p][0] # << >>,
           Head(agenda[p][0]).kind = "setWinner", NEW r \in 0..ResultsSeconds, NEW q, NEW g, NEW v,
           Timetable(agenda[p], q, g, v, p, r)
    PROVE  /\ v.winner = p
           /\ \A g2 : g2.winner = p => Timetable(continueToResults(Rest(p)), q, g2, v, p, r)
  <1> DEFINE ag == agenda[p]
             ag1 == Rest(p)
             ag2 == After(ag1, 6, ResultsTask)
             t == Head(ag[0])
  <1>0. r \in Nat /\ r <= 6 /\ Kinds = {"check", "kick", "setWinner", "results"} /\ 6 \in 0..ResultsSeconds
    BY DEF ResultsSeconds, Kinds
  <1>1. Holds(ag, r, "results") /\ Punctual(ag, r) /\ t.kind = "setWinner" /\ q \in {<< >>, <<v>>}
    BY DEF Timetable
  <1>2. /\ ag1 \in Agenda
        /\ \A e \in 0..ResultsSeconds, kind \in Kinds :
               Holds(ag, e, kind) /\ (e = 0 => kind # t.kind) => Holds(ag1, e, kind)
        /\ Punctual(ag1, r) /\ OnTime(t, 0, r)
    BY <1>1, Rests
  <1>3. r \in {1, 3}
    BY <1>0, <1>1, <1>2 DEF OnTime
  <1>a. ResultsTask \in Task /\ ResultsTask.kind = "results" /\ OnTime(ResultsTask, 6, r)
    BY <1>3 DEF ResultsTask, Task, VerdictSet, OnTime
  <1>4. /\ \A e \in 0..ResultsSeconds, kind \in Kinds : Holds(ag1, e, kind) => Holds(ag2, e, kind)
        /\ Punctual(ag2, r)
    BY <1>0, <1>2, <1>a, Afters
  <1> HIDE DEF ag2, ag1, t, ag
  <1>5. \A e \in 0..ResultsSeconds, kind \in Kinds :
            Holds(ag, e, kind) /\ (e = 0 => kind # "setWinner") => Holds(ag2, e, kind)
    BY <1>1, <1>2, <1>4
  <1>6. Holds(ag2, r, "results")
    BY <1>0, <1>1, <1>5
  <1>7. v.winner = p
    <2>1. ~Waits(ag, q, g, p, r)
      BY <1>3 DEF Waits
    <2> QED
      BY <2>1 DEF Timetable, ag
  <1>8. ASSUME NEW g2, g2.winner = p
        PROVE  Timetable(ag2, q, g2, v, p, r)
    <2>1. Named(ag, q, g, p, r)
      BY <1>7 DEF Timetable, ag
    <2>2. Named(ag2, q, g2, p, r)
      <3>1. CASE r = 3
        <4>1. r - 1 = 2 /\ r - 3 = 0 /\ 2 \in 0..ResultsSeconds /\ 0 \in 0..ResultsSeconds /\ r >= 1 /\ ~(r <= 1)
          BY <3>1 DEF ResultsSeconds
        <4>2. /\ Holds(ag, 2, "setWinner") => Holds(ag2, 2, "setWinner")
              /\ Holds(ag, 0, "kick") => Holds(ag2, 0, "kick")
          BY <1>0, <1>5, <4>1
        <4> QED
          BY <2>1, <4>1, <4>2 DEF Named
      <3>2. CASE r = 1
        BY <1>8, <2>1, <3>2 DEF Named
      <3> QED
        BY <1>3, <3>1, <3>2
    <2> QED
      BY <1>1, <1>4, <1>6, <1>7, <2>2 DEF Timetable
  <1> QED
    BY <1>7, <1>8 DEF ag2, ag1, t, ag, continueToResults, ResultsSeconds

LEMMA TableResults ==
    ASSUME NEW p \in Players, agenda[p] \in Agenda, agenda[p][0] # << >>,
           Head(agenda[p][0]).kind = "results", NEW r \in 0..ResultsSeconds, NEW q, NEW g, NEW v,
           Timetable(agenda[p], q, g, v, p, r)
    PROVE  g.winner = p
  <1> DEFINE ag == agenda[p]
             t == Head(ag[0])
  <1>0. r \in Nat
    BY DEF ResultsSeconds
  <1>1. Punctual(ag, r) /\ t.kind = "results"
    BY DEF Timetable
  <1>2. OnTime(t, 0, r)
    BY <1>1, Rests
  <1>3. r = 0
    BY <1>0, <1>1, <1>2 DEF OnTime
  <1> HIDE DEF ag, t
  <1>4. ~Waits(ag, q, g, p, r) /\ (Named(ag, q, g, p, r) => g.winner = p)
    BY <1>3 DEF Waits, Named
  <1> QED
    BY <1>4 DEF Timetable, ag

\* The agenda after a win on a snapshot: the second check, and what checkForWinner adds.
Animated(ag) == CheckedAgenda(After(ag, RecheckSeconds, Check("win")), "win")

LEMMA AnimatedAgenda ==
    ASSUME NEW ag \in Agenda
    PROVE  /\ Animated(ag) \in Agenda
           /\ \A e \in 0..ResultsSeconds, kind \in Kinds : Holds(ag, e, kind) => Holds(Animated(ag), e, kind)
           /\ Holds(Animated(ag), 2, "check") /\ Holds(Animated(ag), 6, "results")
           /\ \A r \in {4, 6} : Punctual(ag, r) => Punctual(Animated(ag), r)
  <1> DEFINE ag1 == After(ag, 2, Check("win"))
             ag2 == CheckedAgenda(ag1, "win")
  <1>0. 2 \in 0..ResultsSeconds /\ "check" \in Kinds /\ "check" = Check("win").kind
    BY DEF ResultsSeconds, Kinds, Check
  <1>1. Check("win") \in Task /\ \A r \in {4, 6} : OnTime(Check("win"), 2, r)
    BY DEF Check, Task, VerdictSet, OnTime
  <1>2. /\ ag1 \in Agenda /\ Holds(ag1, 2, "check")
        /\ \A e \in 0..ResultsSeconds, kind \in Kinds : Holds(ag, e, kind) => Holds(ag1, e, kind)
        /\ \A r \in {4, 6} : Punctual(ag, r) => Punctual(ag1, r)
    BY <1>0, <1>1, Afters
  <1>3. Animated(ag) = ag2
    BY DEF Animated, RecheckSeconds
  <1> HIDE DEF ag1
  <1>4. /\ ag2 \in Agenda /\ Holds(ag2, 6, "results")
        /\ \A e \in 0..ResultsSeconds, kind \in Kinds : Holds(ag1, e, kind) => Holds(ag2, e, kind)
        /\ \A r \in {2, 4, 6} : Punctual(ag1, r) => Punctual(ag2, r)
    BY <1>2, WinAgenda
  <1> HIDE DEF ag2
  <1> QED
    BY <1>0, <1>2, <1>3, <1>4

LEMMA TableFirst ==
    ASSUME NEW p, NEW g, NEW v, v.winner # p
    PROVE  Timetable(Animated(EmptyAgenda), <<v>>, g, v, p, 6)
  <1>1. EmptyAgenda \in Agenda
    BY DEF EmptyAgenda, Agenda
  <1>2. Punctual(EmptyAgenda, 6)
    BY DEF Punctual, EmptyAgenda
  <1> DEFINE ag == Animated(EmptyAgenda)
  <1>3. Holds(ag, 2, "check") /\ Holds(ag, 6, "results") /\ Punctual(ag, 6)
    BY <1>1, <1>2, AnimatedAgenda
  <1> HIDE DEF ag
  <1>4. Waits(ag, <<v>>, g, p, 6)
    BY <1>3 DEF Waits
  <1>5. Timetable(ag, <<v>>, g, v, p, 6)
    BY <1>3, <1>4 DEF Timetable
  <1> QED
    BY <1>5 DEF ag

LEMMA TableUpdate ==
    ASSUME NEW p \in Players, NEW ag \in Agenda, NEW r \in 0..ResultsSeconds, NEW q, q # << >>, NEW g, NEW v,
           Timetable(ag, q, g, v, p, r), NEW g2, g2.winner = p
    PROVE  /\ q = <<v>>
           /\ Timetable(continueToResults(Animated(ag)), << >>, g2, v, p, r)
  <1> DEFINE ag1 == Animated(ag)
             ag2 == After(ag1, 6, ResultsTask)
  <1>0. /\ r \in Nat /\ Kinds = {"check", "kick", "setWinner", "results"} /\ 6 \in 0..ResultsSeconds
        /\ 2 \in 0..ResultsSeconds
    BY DEF ResultsSeconds, Kinds
  <1>1. Holds(ag, r, "results") /\ Punctual(ag, r) /\ q = <<v>>
    BY DEF Timetable
  <1>2. r \in {4, 6} /\ (v.winner = p => r = 4) /\ (v.winner # p => r = 6)
    BY DEF Timetable, Named, Waits
  <1>3. /\ ag1 \in Agenda /\ Holds(ag1, 2, "check") /\ Punctual(ag1, r)
        /\ \A e \in 0..ResultsSeconds, kind \in Kinds : Holds(ag, e, kind) => Holds(ag1, e, kind)
    BY <1>1, <1>2, AnimatedAgenda
  <1>4. ResultsTask \in Task /\ ResultsTask.kind = "results" /\ OnTime(ResultsTask, 6, r)
    BY <1>2 DEF ResultsTask, Task, VerdictSet, OnTime
  <1> HIDE DEF ag1
  <1>5. /\ \A e \in 0..ResultsSeconds, kind \in Kinds : Holds(ag1, e, kind) => Holds(ag2, e, kind)
        /\ Punctual(ag2, r)
    BY <1>0, <1>3, <1>4, Afters
  <1>a. continueToResults(Animated(ag)) = ag2
    BY DEF continueToResults, ResultsSeconds, ag1
  <1> HIDE DEF ag2
  <1>6. Holds(ag2, r, "results") /\ Holds(ag2, 2, "check")
    BY <1>0, <1>1, <1>3, <1>5
  <1>7. v.winner = p => Named(ag2, << >>, g2, p, r)
    <2> SUFFICES ASSUME v.winner = p PROVE Named(ag2, << >>, g2, p, r)
      OBVIOUS
    <2>1. Named(ag, q, g, p, r) /\ r = 4
      BY <1>2 DEF Timetable
    <2>2. r - 1 = 3 /\ r - 3 = 1 /\ 3 \in 0..ResultsSeconds /\ 1 \in 0..ResultsSeconds /\ ~(r <= 1)
      BY <2>1 DEF ResultsSeconds
    <2>3. /\ Holds(ag, 3, "setWinner") => Holds(ag2, 3, "setWinner")
          /\ Holds(ag, 1, "kick") => Holds(ag2, 1, "kick")
      BY <1>0, <1>3, <1>5, <2>2
    <2> QED
      BY <2>1, <2>2, <2>3 DEF Named
  <1>8. v.winner # p => Waits(ag2, << >>, g2, p, r)
    <2> SUFFICES ASSUME v.winner # p PROVE Waits(ag2, << >>, g2, p, r)
      OBVIOUS
    <2>1. r >= 4 /\ r - 4 = 2
      BY <1>2
    <2> QED
      BY <1>6, <2>1 DEF Waits
  <1>9. Timetable(ag2, << >>, g2, v, p, r)
    BY <1>5, <1>6, <1>7, <1>8 DEF Timetable
  <1> QED
    BY <1>1, <1>9, <1>a

-----------------------------------------------------------------------------
(***************************************************************************)
(* The view of a winner who has judged: the match is finished, and names   *)
(* the winner once setWinner has run.                                      *)
(***************************************************************************)
WinnerLook(p) == seen[p].state = "finished" /\ Full(seen[p]) /\ seen[p].winner \in {NoOne, p}
WinnerLooks == \A p \in Players : Beats(p) /\ judged[p] # {} => WinnerLook(p)

LEMMA LooksFinished == EndsFull /\ EndedTrails /\ AllDecided /\ SeenSound => WinnerLooks
  <1> SUFFICES ASSUME EndsFull, EndedTrails, AllDecided, SeenSound, NEW p \in Players,
                      Beats(p), judged[p] # {}
               PROVE  WinnerLook(p)
    BY DEF WinnerLooks
  <1>1. Decided(p)
    BY DEF AllDecided
  <1>2. Earned(p)
    BY <1>1 DEF Decided, Earned
  <1>3. seen[p].state = "finished"
    BY <1>2 DEF EndedTrails, EndedTrail, Ended
  <1>4. Full(seen[p])
    BY <1>3 DEF EndsFull, FullAtEnd
  <1>5. seen[p].winner \in {NoOne, p}
    BY <1>1 DEF SeenSound, Decided
  <1> QED
    BY <1>3, <1>4, <1>5 DEF WinnerLook

LEMMA SameView ==
    ASSUME IndInv, Next, OnlyOne', SeenSound, SeenSound', NEW p \in Players, WinnerLook(p), WinnerLook(p)',
           seen'[p].winner = p <=> seen[p].winner = p
    PROVE  seen'[p] = seen[p]
  <1>1. seen[p] \in Kept' /\ seen'[p] \in Kept'
    BY KeptGrows DEF SeenSound
  <1>2. Full(seen[p]) /\ seen[p].state = "finished" /\ seen[p].winner \in {NoOne, p}
    BY DEF WinnerLook
  <1>3. Full(seen'[p]) /\ seen'[p].state = "finished" /\ seen'[p].winner \in {NoOne, p}
    BY DEF WinnerLook, Full, NotIdle
  <1>4. \A d, e \in Kept' : Full(d) /\ Full(e) /\ d.state = e.state /\ d.winner = e.winner => d = e
    BY DEF OnlyOne, Full, NotIdle
  <1> QED
    BY <1>1, <1>2, <1>3, <1>4

\* What a device does by itself leaves the other one alone.
Left(x) == game'[x] = game[x] /\ agenda'[x] = agenda[x] /\ judged'[x] = judged[x]

LEMMA OthersLeave ==
    ASSUME RoundInv, EndsFull, NEW p \in Players, Main(p), NEW x \in Players \ {p}
    PROVE  Left(x) /\ seen'[x] = seen[x]
  <1>0. /\ IndInv /\ x \in Players /\ x # p
        /\ judged \in [Players -> SUBSET {"win", "lose", "tie"}]
    BY RoundTyped DEF RoundInv
  <1>1. CASE IgnoreSnapshot(p)
    BY <1>1 DEF IgnoreSnapshot, device, history, Left
  <1>2. CASE UpdateGame(p)
    <2>1. game'[x] = game[x] /\ agenda'[x] = agenda[x]
      BY <1>0, <1>2, Updated
    <2>2. judged'[x] = judged[x]
      BY <1>0, <1>2 DEF UpdateGame, Judge
    <2>3. PICK ws, q : Send(p, ws, q)
      BY <1>2 DEF UpdateGame
    <2>4. seen'[x] = seen[x]
      BY <1>0, <2>3, SendTells
    <2> QED
      BY <2>1, <2>2, <2>4 DEF Left
  <1>3. ASSUME NEW finished \in BOOLEAN, RunCheck(p, finished)
        PROVE  Left(x) /\ seen'[x] = seen[x]
    <2>1. game'[x] = game[x] /\ agenda'[x] = agenda[x]
      BY <1>0, <1>3, DueMoves
    <2>2. judged'[x] = judged[x]
      BY <1>0, <1>3 DEF RunCheck, Judge
    <2>3. PICK ws, q : Send(p, ws, q)
      BY <1>3 DEF RunCheck
    <2>4. seen'[x] = seen[x]
      BY <1>0, <2>3, SendTells
    <2> QED
      BY <2>1, <2>2, <2>4 DEF Left
  <1>4. ASSUME NEW finished \in BOOLEAN, RunKick(p, finished)
        PROVE  Left(x) /\ seen'[x] = seen[x]
    <2>1. game'[x] = game[x] /\ agenda'[x] = agenda[x]
      BY <1>0, <1>4, DueMoves
    <2> QED
      BY <1>4, <2>1 DEF RunKick, Left
  <1>5. CASE RunSetWinner(p)
    <2>1. game'[x] = game[x] /\ agenda'[x] = agenda[x]
      BY <1>0, <1>5, DueMoves
    <2>2. judged'[x] = judged[x]
      BY <1>5 DEF RunSetWinner, history
    <2>3. PICK ws, q : Send(p, ws, q)
      BY <1>5 DEF RunSetWinner
    <2>4. seen'[x] = seen[x]
      BY <1>0, <2>3, SendTells
    <2> QED
      BY <2>1, <2>2, <2>4 DEF Left
  <1>6. CASE RunResults(p)
    <2>1. game'[x] = game[x] /\ agenda'[x] = agenda[x]
      BY <1>0, <1>6, DueMoves
    <2> QED
      BY <1>6, <2>1 DEF RunResults, history, Left
  <1> QED
    BY <1>1, <1>2, <1>3, <1>4, <1>5, <1>6 DEF Main

LEMMA OthersPick ==
    ASSUME IndInv, NEW p \in Players, NEW m, Pick(p, m), NEW x \in Players \ {p}
    PROVE  Left(x) /\ seen'[x] = seen[x]
  <1>1. PICK ws, q : Send(p, ws, q)
    BY DEF Pick
  <1>2. seen'[x] = seen[x]
    BY <1>1, SendTells
  <1> QED
    BY <1>2 DEF Pick, Left

LEMMA Delivers ==
    ASSUME IndInv, NEW p \in Players, Firestore(p), NEW x \in Players
    PROVE  /\ Left(x)
           /\ seen'[x] = seen[x] \/ Ack(x) \/ \E k \in 1..Len(feed[x]) : Watch(x, k)
  <1>0. seen \in [Players -> Game]
    BY RoundTyped
  <1>1. CASE Commit(p)
    BY <1>1 DEF Commit, device, history, Left
  <1>2. CASE Ack(p)
    <2>1. Left(x)
      BY <1>2 DEF Ack, device, history, Left
    <2>2. seen' = seen \/ \E doc, q : See(p, doc, q)
      BY <1>2 DEF Ack
    <2>3. x # p => seen'[x] = seen[x]
      BY <2>2, SeeTells
    <2> QED
      BY <1>2, <2>1, <2>3
  <1>3. ASSUME NEW k \in 1..Len(feed[p]), Watch(p, k)
        PROVE  Left(x) /\ (seen'[x] = seen[x] \/ x = p)
    <2>1. Left(x)
      BY <1>3 DEF Watch, device, history, Left
    <2>2. \E doc, q : See(p, doc, q)
      BY <1>3 DEF Watch
    <2>3. x # p => seen'[x] = seen[x]
      BY <2>2, SeeTells
    <2> QED
      BY <2>1, <2>3
  <1> QED
    BY <1>1, <1>2, <1>3 DEF Firestore

Moves(x) ==
    \/ Tick \/ UpdateGame(x) \/ RunSetWinner(x) \/ RunResults(x)
    \/ \E finished \in BOOLEAN : RunCheck(x, finished) \/ RunKick(x, finished)
    \/ x = Requester /\ Join
    \/ \E m \in Choices(x) : Pick(x, m)

LEMMA OthersKeep ==
    ASSUME OnePick, RoundInv, EndsFull, Next, NEW x \in Players
    PROVE  \/ Moves(x)
           \/ Left(x) /\ (seen'[x] = seen[x] \/ Ack(x) \/ \E k \in 1..Len(feed[x]) : Watch(x, k))
  <1>0. IndInv /\ RoundTaps
    BY DEF RoundInv
  <1>1. Tick => Moves(x)
    BY DEF Moves
  <1>2. Join => Moves(x) \/ (Left(x) /\ seen'[x] = seen[x])
    BY <1>0, RoundTyped DEF Join, Left, history, Moves
  <1>3. ASSUME NEW p \in Players, Main(p)
        PROVE  Moves(x) \/ (Left(x) /\ seen'[x] = seen[x])
    <2>1. x # p => Left(x) /\ seen'[x] = seen[x]
      BY <1>3, OthersLeave
    <2>2. IgnoreSnapshot(x) => Left(x) /\ seen'[x] = seen[x]
      BY DEF IgnoreSnapshot, device, history, Left
    <2>3. Main(x) => Moves(x) \/ IgnoreSnapshot(x)
      BY DEF Main, Moves
    <2> QED
      BY <1>3, <2>1, <2>2, <2>3
  <1>4. ASSUME NEW p \in Players, User(p)
        PROVE  Moves(x) \/ (Left(x) /\ seen'[x] = seen[x])
    <2>1. Home(p) \/ \E m \in Choices(p) : Pick(p, m)
      BY <1>0, <1>4, NobodyLeaves DEF User
    <2>2. Home(p) => Left(x) /\ seen'[x] = seen[x]
      BY DEF Home, history, Left
    <2>3. x # p /\ (\E m : Pick(p, m)) => Left(x) /\ seen'[x] = seen[x]
      BY <1>0, OthersPick
    <2> QED
      BY <2>1, <2>2, <2>3 DEF Moves
  <1>5. ASSUME NEW p \in Players, Firestore(p)
        PROVE  Left(x) /\ (seen'[x] = seen[x] \/ Ack(x) \/ \E k \in 1..Len(feed[x]) : Watch(x, k))
    BY <1>0, <1>5, Delivers
  <1>6. \A p \in Players : ~Break(p)
    BY <1>0, NobodyLeaves
  <1> QED
    BY <1>1, <1>2, <1>3, <1>4, <1>5, <1>6 DEF Next

-----------------------------------------------------------------------------
(***************************************************************************)
(* The part of the invariant that does not ask whether an animation was    *)
(* cut short, and what follows from it in a state.                         *)
(***************************************************************************)
Grounds ==
    /\ LossInv /\ FullRuns /\ JudgedGame /\ OverEarned /\ OwnNamed /\ SeenSound
    /\ EndedTrails /\ WonTrails /\ Screens /\ FirstLooks
Follows ==
    /\ AllDecided /\ OnlyOne /\ FreshLooks /\ LoadingBlank /\ NamedViews /\ UnwonTrails
    /\ WinnerLooks

Parts ==
    /\ LossInv /\ RoundInv /\ IndInv /\ FullRuns /\ OverEarned /\ SeenSound /\ EndedTrails
LEMMA PartsFollow == Parts => Follows
  <1> SUFFICES ASSUME Parts PROVE Follows
    OBVIOUS
  <1>1. RoundInv /\ IndInv /\ RoundTaps /\ EndsFull
    BY DEF Parts, LossInv, RoundInv
  <1>2. AllDecided /\ OnlyOne
    BY <1>1, Decides
  <1>3. FreshLooks /\ LoadingBlank /\ NamedViews
    BY <1>1, <1>2, LooksFresh, LoadingSees, ViewsNamed DEF Parts
  <1>4. UnwonTrails
    BY <1>1, <1>2, Unwon DEF Parts
  <1>5. WinnerLooks
    BY <1>1, <1>2, LooksFinished DEF Parts
  <1> QED
    BY <1>2, <1>3, <1>4, <1>5 DEF Follows

LEMMA GroundsFollow == Grounds => Follows
  BY PartsFollow DEF Grounds, Parts, LossInv, RoundInv

\* The parts that do not lean on what follows.
LEMMA FirstParts ==
    ASSUME OnePick, Grounds, Next
    PROVE  /\ LossInv' /\ RoundInv' /\ IndInv'
           /\ FullRuns' /\ JudgedGame' /\ OverEarned' /\ OwnNamed' /\ SeenSound'
           /\ EndedTrails' /\ Screens'
  <1>1. RoundInv /\ IndInv /\ EndsFull /\ LossInv
    BY DEF Grounds, LossInv, RoundInv
  <1>2. LossInv' /\ RoundInv' /\ IndInv'
    BY <1>1, LossStep DEF LossInv, RoundInv
  <1>3. FullRuns' /\ JudgedGame' /\ OverEarned' /\ OwnNamed' /\ SeenSound'
    BY <1>1, <1>2, FullRunsStep, JudgedGameStep, OverEarnedStep, OwnNamedStep, SeenSoundStep DEF Grounds
  <1>4. EndedTrails' /\ Screens'
    BY <1>1, <1>2, EndedTrailsStep, ScreensStep DEF Grounds
  <1> QED
    BY <1>2, <1>3, <1>4

LEMMA GroundsStep ==
    ASSUME OnePick, Grounds, Next
    PROVE  Grounds'
  <1>1. /\ LossInv' /\ RoundInv' /\ IndInv'
        /\ FullRuns' /\ JudgedGame' /\ OverEarned' /\ OwnNamed' /\ SeenSound'
        /\ EndedTrails' /\ Screens'
    BY FirstParts
  <1>2. Follows
    BY GroundsFollow
  <1>3. Parts'
    BY <1>1 DEF Parts
  <1>4. Follows'
    BY <1>3, PartsFollow, PTL
  <1>5. WonTrails'
    BY <1>1, <1>2, <1>4, WonTrailsStep DEF Grounds, Follows
  <1>6. FirstLooks'
    BY <1>1, <1>2, <1>4, FirstLooksStep DEF Grounds, Follows
  <1> QED
    BY <1>1, <1>5, <1>6 DEF Grounds

-----------------------------------------------------------------------------
(***************************************************************************)
(* The winner's device keeps its timetable until it announces a result.    *)
(***************************************************************************)
Timed(p) ==
    \E r \in 0..ResultsSeconds : Timetable(agenda[p], cb[p], game[p], seen[p], p, r)
TimedWins ==
    \A p \in Players : Beats(p) /\ judged[p] # {} /\ shown[p] = "nothing" /\ ~cut => Timed(p)

\* Once it has judged, what the winner's device shows changes only when setWinner does it.
LEMMA ViewsWon ==
    ASSUME OnePick, Grounds, Next, NEW p \in Players, Beats(p)
    PROVE  /\ IndInv /\ RoundInv /\ RoundTaps /\ IndInv' /\ RoundInv' /\ RoundTaps' /\ Grounds'
           /\ Follows /\ Follows' /\ Beats(p)'
           /\ WonTrail(p) /\ WonTrail(p)'
           /\ judged[p] # {} => WinnerLook(p) /\ WinnerLook(p)'
           /\ judged'[p] # {} => WinnerLook(p)'
  <1>1. Grounds' /\ Follows
    BY GroundsFollow, GroundsStep
  <1>2. Follows'
    BY <1>1, GroundsFollow, PTL
  <1>3. IndInv /\ RoundInv /\ RoundTaps /\ IndInv' /\ RoundInv' /\ RoundTaps'
    BY <1>1 DEF Grounds, LossInv, RoundInv
  <1>4. Beats(p)'
    BY <1>3, BeatsKept
  <1>5. WonTrail(p) /\ WonTrail(p)'
    BY <1>1, <1>4 DEF Grounds, WonTrails
  <1>6. judged[p] # {} => judged'[p] # {}
    BY <1>3, JudgedKept
  <1>7. judged'[p] # {} => WinnerLook(p)'
    BY <1>2, <1>4 DEF Follows, WinnerLooks
  <1>8. judged[p] # {} => WinnerLook(p)
    BY <1>1 DEF Follows, WinnerLooks
  <1> QED
    BY <1>1, <1>2, <1>3, <1>4, <1>5, <1>6, <1>7, <1>8

LEMMA NamesIssued ==
    ASSUME OnePick, Grounds, Next, NEW p \in Players, Beats(p), NEW w, Issued(p, w)
    PROVE  /\ seen'[p].winner = p <=> seen[p].winner = p \/ w.doc.winner = p
           /\ judged[p] # {} /\ (w.doc.winner = p => seen[p].winner = p) => seen'[p] = seen[p]
  <1> DEFINE S == WonBy(p)
  <1>1. /\ IndInv /\ Grounds' /\ Follows' /\ WonTrail(p) /\ WonTrail(p)'
        /\ judged[p] # {} => WinnerLook(p) /\ WinnerLook(p)'
    BY ViewsWon
  <1>2. Has(S, p)' <=> Has(S, p) \/ w.doc \in S
    BY <1>1, IssueTrail
  <1>3. seen'[p] \in S <=> seen[p] \in S \/ w.doc \in S
    BY <1>1, <1>2 DEF WonTrail
  <1>4. seen[p] \in Game /\ seen'[p] \in Game /\ w.doc \in Game
    <2>1. Typed'
      BY <1>1, IndTyped, PTL DEF Grounds, LossInv, RoundInv
    <2> QED
      BY <1>1, <2>1, RoundTyped DEF Typed, Issued, Write
  <1>5. seen'[p].winner = p <=> seen[p].winner = p \/ w.doc.winner = p
    BY <1>3, <1>4 DEF WonBy
  <1>6. SeenSound /\ SeenSound' /\ OnlyOne'
    BY <1>1 DEF Grounds, Follows
  <1> QED
    BY <1>1, <1>5, <1>6, SameView

LEMMA NamesSent ==
    ASSUME OnePick, Grounds, Next, NEW p \in Players, Beats(p), judged[p] # {},
           Ack(p) \/ \E k \in 1..Len(feed[p]) : Watch(p, k)
    PROVE  seen'[p] = seen[p]
  <1> DEFINE S == WonBy(p)
  <1>1. /\ IndInv /\ RoundInv /\ Grounds' /\ Follows' /\ WonTrail(p) /\ WonTrail(p)'
        /\ WinnerLook(p) /\ WinnerLook(p)'
    BY ViewsWon
  <1>2. Has(S, p)' <=> Has(S, p)
    BY <1>1, SentHas DEF WonTrail
  <1>3. seen'[p] \in S <=> seen[p] \in S
    BY <1>1, <1>2 DEF WonTrail
  <1>4. seen[p] \in Game /\ seen'[p] \in Game
    <2>1. Typed'
      BY <1>1, IndTyped, PTL DEF Grounds, LossInv, RoundInv
    <2> QED
      BY <1>1, <2>1, RoundTyped DEF Typed
  <1>5. seen'[p].winner = p <=> seen[p].winner = p
    BY <1>3, <1>4 DEF WonBy
  <1>6. SeenSound /\ SeenSound' /\ OnlyOne'
    BY <1>1 DEF Grounds, Follows
  <1> QED
    BY <1>1, <1>5, <1>6, SameView

LEMMA TimedNext ==
    ASSUME NEW p, NEW r \in 0..ResultsSeconds,
           Timetable(agenda'[p], cb'[p], game'[p], seen'[p], p, r)
    PROVE  Timed(p)'
  BY DEF Timed, Timetable, Holds, Punctual, Waits, Named, OnTime

\* The listener of a device with tasks or a match on the screen is called.
LEMMA Untold ==
    ASSUME IndInv, NEW p \in Players, NEW q \in Seq(Game), cb'[p] = q \o Told(p, seen'[p])
    PROVE  /\ seen'[p] = seen[p] => cb'[p] = q
           /\ seen'[p] # seen[p] /\ Alive(p) => cb'[p] = q \o <<seen'[p]>>
  BY NothingAdded DEF Told

LEMMA OneLess ==
    ASSUME NEW q \in Seq(Game), Len(q) = 1
    PROVE  Tail(q) = << >>
  <1> DEFINE u == Tail(q)
  <1>1. u \in Seq(Game) /\ Len(u) = 0
    OBVIOUS
  <1> HIDE DEF u
  <1>2. u = << >>
    BY <1>1
  <1> QED
    BY <1>2 DEF u

\* Its first verdict, a win, starts the timetable.
LEMMA FirstVerdict ==
    ASSUME OnePick, Grounds, Next, NEW p \in Players, Beats(p), judged[p] = {}, judged'[p] # {}
    PROVE  UpdateGame(p) /\ agenda[p] = EmptyAgenda
  <1>0. RoundInv /\ EndsFull /\ TasksFull /\ JudgedGame
    BY DEF Grounds, LossInv
  <1>1. agenda[p] = EmptyAgenda
    BY <1>0 DEF TasksFull, JudgedGame
  <1>2. /\ ~RunSetWinner(p) /\ ~RunResults(p)
        /\ ~ \E finished \in BOOLEAN : RunCheck(p, finished) \/ RunKick(p, finished)
    BY <1>0, <1>1, DueMoves
  <1>3. Tick \/ Join \/ (\E m : Pick(p, m)) => judged' = judged
    BY DEF Tick, Join, Pick, history
  <1>4. ~Left(p)
    BY DEF Left
  <1> QED
    BY <1>0, <1>1, <1>2, <1>3, <1>4, OthersKeep DEF Moves

LEMMA UpdateWins ==
    ASSUME IndInv, NEW p \in Players, UpdateGame(p), VerdictOf(p, Head(cb[p])) = "win"
    PROVE  LET d == Head(cb[p])
               w == updateGameMoves([d EXCEPT !.state = "finished"])
           IN  /\ Alive(p) /\ cb[p] # << >> /\ d \in Game
               /\ Closes(p, w) /\ w.doc.winner = d.winner
               /\ cb'[p] = Tail(cb[p]) \o Told(p, seen'[p])
               /\ d.state # "finished" => agenda'[p] = Animated(agenda[p])
               /\ d.state = "finished" =>
                      agenda'[p] = continueToResults(Animated(agenda[p])) /\ game'[p].winner = p
  <1> DEFINE d == Head(cb[p])
             w == updateGameMoves([d EXCEPT !.state = "finished"])
             checked == CheckedGame(d, "win")
             left == TakenAsForfeit(d, checked)
             ag == Animated(agenda[p])
  <1>0. cb[p] \in Seq(Game) /\ game \in [Players -> Game] /\ agenda \in [Players -> Agenda]
    BY RoundTyped DEF IndInv, MatchSound, AgendasSound
  <1>1. cb[p] # << >> /\ Alive(p)
    BY DEF UpdateGame
  <1>2. d \in Game /\ Tail(cb[p]) \in Seq(Game)
    BY <1>0, <1>1
  <1>3. /\ game' = [game EXCEPT ![p] = IF left THEN [checked EXCEPT !.winner = p] ELSE checked]
        /\ agenda' = [agenda EXCEPT ![p] = IF left THEN continueToResults(ag) ELSE ag]
        /\ Send(p, CheckedWrites(d, "win"), Tail(cb[p]))
        /\ Judge(p, "win") /\ UNCHANGED <<server, base, feed, at, acked>>
    BY DEF UpdateGame, Animated, WinnerByForfeit, network
  <1> HIDE DEF ag, d
  <1>4. checked.winner = NoOne /\ [checked EXCEPT !.winner = p].winner = p
    BY <1>2, CheckedMoves DEF TakesElse
  <1>5. left <=> d.state = "finished"
    BY <1>4 DEF TakenAsForfeit
  <1>6. Closes(p, w)
    BY <1>2, <1>3, CheckCloses DEF TakesElse, VerdictSet
  <1>7. w.doc.winner = d.winner
    BY <1>2 DEF updateGameMoves, Game
  <1>8. cb'[p] = Tail(cb[p]) \o Told(p, seen'[p])
    BY <1>3, SendTells
  <1> HIDE DEF left, w, checked
  <1>9. /\ game'[p] = IF left THEN [checked EXCEPT !.winner = p] ELSE checked
        /\ agenda'[p] = IF left THEN continueToResults(ag) ELSE ag
    BY <1>0, <1>3
  <1>10. /\ d.state # "finished" => agenda'[p] = ag
         /\ d.state = "finished" => agenda'[p] = continueToResults(ag) /\ game'[p].winner = p
    BY <1>4, <1>5, <1>9
  <1> QED
    BY <1>1, <1>2, <1>6, <1>7, <1>8, <1>10 DEF ag, d, w

LEMMA FirstTimed ==
    ASSUME OnePick, Grounds, Next, NEW p \in Players, Beats(p), judged[p] = {}, judged'[p] # {}
    PROVE  Timed(p)'
  <1> DEFINE d == Head(cb[p])
             w == updateGameMoves([d EXCEPT !.state = "finished"])
             V == VerdictOf(p, d)
  <1>0. /\ IndInv /\ RoundInv /\ IndInv' /\ Follows /\ WinnerLook(p)'
        /\ UpdateGame(p) /\ agenda[p] = EmptyAgenda /\ seen[p] \in Game /\ cb[p] \in Seq(Game)
        /\ Tail(cb[p]) \in Seq(Game)
    <2>1. UpdateGame(p) /\ cb[p] \in Seq(Game) /\ cb[p] # << >>
      BY ViewsWon, FirstVerdict, RoundTyped DEF UpdateGame
    <2>2. Tail(cb[p]) \in Seq(Game)
      BY <2>1
    <2> QED
      BY <2>1, <2>2, ViewsWon, FirstVerdict, RoundTyped
  <1>1. /\ cb[p] # << >>
        /\ judged'[p] = IF V = "waiting" THEN judged[p] ELSE judged[p] \cup {V}
        /\ V = "waiting" <=> ~Full(d)
    BY <1>0, UpdateJudges
  <1>2. Full(d)
    BY <1>1
  <1>3. 1 \in DOMAIN cb[p] /\ d = cb[p][1]
    BY <1>0, <1>1
  <1>4. Full(seen[p]) /\ d \in Kept
    <2>1. Full(seen[p])
      BY <1>0, <1>2, <1>3 DEF RoundInv, ViewFull
    <2>2. d \in Kept
      BY <1>0, <1>3, SoundKept DEF Kept
    <2> QED
      BY <2>1, <2>2
  <1>5. V = "win"
    BY <1>0, <1>2, <1>4 DEF Follows, AllDecided, Decided
  <1>6. /\ d.state = "inprogress" /\ d.winner = NoOne
        /\ seen[p].state = "inprogress" /\ seen[p].winner = NoOne
    <2>1. Fresh(seen[p]) /\ Fresh(cb[p][1])
      BY <1>0, <1>3 DEF Follows, FreshLooks
    <2> QED
      BY <1>2, <1>3, <1>4, <2>1 DEF Fresh
  <1>7. Tail(cb[p]) = << >>
    <2>1. \A i \in DOMAIN cb[p] : Full(cb[p][i]) => i = Len(cb[p])
      BY DEF Grounds, FirstLooks, FirstLook, EndsFullIn
    <2>2. Len(cb[p]) = 1
      BY <1>2, <1>3, <2>1
    <2> QED
      BY <1>0, <2>2, OneLess
  <1>8. /\ Alive(p) /\ Issued(p, w) /\ w.doc.winner = d.winner
        /\ cb'[p] = Tail(cb[p]) \o Told(p, seen'[p])
        /\ agenda'[p] = Animated(agenda[p])
    BY <1>0, <1>5, <1>6, UpdateWins DEF Closes
  <1>9. seen'[p].winner # p
    <2>1. NoOne # p
      BY DEF Players
    <2> QED
      BY <1>6, <1>8, <2>1, NamesIssued
  <1>10. seen'[p] # seen[p]
    BY <1>0, <1>6 DEF WinnerLook
  <1>11. cb'[p] = <<seen'[p]>>
    <2>1. cb'[p] = << >> \o <<seen'[p]>>
      BY <1>0, <1>7, <1>8, <1>10, Untold
    <2> QED
      BY <2>1
  <1>12. Timetable(agenda'[p], cb'[p], game'[p], seen'[p], p, 6)
    <2>1. Timetable(Animated(EmptyAgenda), <<seen'[p]>>, game'[p], seen'[p], p, 6)
      BY <1>9, TableFirst
    <2> QED
      BY <1>0, <1>8, <1>11, <2>1
  <1>13. 6 \in 0..ResultsSeconds
    BY DEF ResultsSeconds
  <1> QED
    BY <1>12, <1>13, TimedNext

LEMMA TickTimed ==
    ASSUME IndInv, Tick, NEW p \in Players, Timed(p)
    PROVE  Timed(p)'
  <1>1. PICK r \in 0..ResultsSeconds : Timetable(agenda[p], cb[p], game[p], seen[p], p, r)
    BY DEF Timed
  <1>2. /\ cb[p] = << >> /\ cb' = cb /\ game' = game /\ seen' = seen
        /\ agenda[p][0] = << >> /\ agenda'[p] = OneSecondLater(agenda[p])
    BY DEF Tick
  <1>3. agenda[p] \in Agenda
    BY DEF IndInv, MatchSound, AgendasSound
  <1>4. /\ r - 1 \in 0..ResultsSeconds
        /\ Timetable(OneSecondLater(agenda[p]), << >>, game[p], seen[p], p, r - 1)
    BY <1>1, <1>2, <1>3, TableLater
  <1>5. Timetable(agenda'[p], cb'[p], game'[p], seen'[p], p, r - 1)
    BY <1>2, <1>4
  <1> QED
    BY <1>4, <1>5, TimedNext

LEMMA KickTimed ==
    ASSUME IndInv, NEW p \in Players, RunKick(p, TRUE), Timed(p)
    PROVE  Timed(p)'
  <1>1. PICK r \in 0..ResultsSeconds : Timetable(agenda[p], cb[p], game[p], seen[p], p, r)
    BY DEF Timed
  <1>2. agenda \in [Players -> Agenda]
    BY DEF IndInv, MatchSound, AgendasSound
  <1>3. agenda[p] \in Agenda /\ agenda[p][0] # << >> /\ Head(agenda[p][0]).kind = "kick"
    BY <1>2 DEF RunKick, Due
  <1>4. /\ Head(agenda[p][0]).verdict = "win"
        /\ Timetable(After(Rest(p), SetWinnerSeconds, SetWinnerTask), cb[p], game[p], seen[p], p, r)
    BY <1>1, <1>3, TableKick
  <1>5. /\ cb' = cb /\ game' = game /\ seen' = seen
        /\ agenda'[p] = After(Rest(p), SetWinnerSeconds, SetWinnerTask)
    BY <1>2, <1>4 DEF RunKick, MyHandKicked
  <1> QED
    BY <1>1, <1>4, <1>5, TimedNext

LEMMA SetWinnerTimed ==
    ASSUME OnePick, Grounds, Next, NEW p \in Players, Beats(p), judged[p] # {}, RunSetWinner(p), Timed(p)
    PROVE  Timed(p)'
  <1>0. IndInv /\ agenda \in [Players -> Agenda] /\ game \in [Players -> Game] /\ cb[p] \in Seq(Game)
    BY ViewsWon, RoundTyped DEF IndInv, MatchSound, AgendasSound
  <1>1. PICK r \in 0..ResultsSeconds : Timetable(agenda[p], cb[p], game[p], seen[p], p, r)
    BY DEF Timed
  <1>2. agenda[p] \in Agenda /\ agenda[p][0] # << >> /\ Head(agenda[p][0]).kind = "setWinner"
    BY <1>0 DEF RunSetWinner, Due
  <1>3. /\ seen[p].winner = p
        /\ \A g2 : g2.winner = p =>
               Timetable(continueToResults(Rest(p)), cb[p], g2, seen[p], p, r)
    BY <1>1, <1>2, TableSetWinner
  <1> DEFINE w == updateGameMoves(WonGame(p))
  <1>4. w \in Write /\ WonGame(p).winner = p
    BY <1>0, WonTyped DEF updateGameMoves, Write
  <1>5. Send(p, <<w>>, cb[p]) /\ UNCHANGED <<server, base, feed, at, acked>>
    <2>1. RunSetWinner(p)
      OBVIOUS
    <2> QED
      BY ONLY <2>1, Zenon DEF RunSetWinner, network, w
  <1> HIDE DEF w
  <1>6. Issued(p, w)
    BY <1>0, <1>4, <1>5, SendIssues
  <1>7. seen'[p] = seen[p]
    BY <1>3, <1>6, NamesIssued
  <1>8. cb'[p] = cb[p]
    <2>1. cb'[p] = cb[p] \o Told(p, seen'[p])
      BY <1>0, <1>4, <1>5, SendTells
    <2> QED
      BY <1>0, <1>7, <2>1, Untold
  <1>9. game'[p] = WonGame(p) /\ agenda'[p] = continueToResults(Rest(p))
    <2>1. /\ game' = [game EXCEPT ![p] = WonGame(p)]
          /\ agenda' = [agenda EXCEPT ![p] = continueToResults(Rest(p))]
      BY DEF RunSetWinner
    <2> QED
      BY <1>0, <2>1
  <1>10. Timetable(agenda'[p], cb'[p], game'[p], seen'[p], p, r)
    BY <1>3, <1>4, <1>7, <1>8, <1>9
  <1> QED
    BY <1>10, TimedNext

LEMMA CheckTimed ==
    ASSUME OnePick, Grounds, Next, NEW p \in Players, Beats(p), judged[p] # {}, RunCheck(p, TRUE), Timed(p)
    PROVE  Timed(p)'
  <1>0. /\ IndInv /\ IndInv' /\ agenda \in [Players -> Agenda] /\ game \in [Players -> Game]
        /\ cb[p] \in Seq(Game) /\ game[p] \in Game
    BY ViewsWon, RoundTyped DEF IndInv, MatchSound, AgendasSound
  <1>1. PICK r \in 0..ResultsSeconds : Timetable(agenda[p], cb[p], game[p], seen[p], p, r)
    BY DEF Timed
  <1>2. agenda[p] \in Agenda /\ agenda[p][0] # << >> /\ Head(agenda[p][0]).kind = "check"
    BY <1>0 DEF RunCheck, Due
  <1> DEFINE ag2 == CheckedAgenda(Rest(p), "win")
             w == updateGameMoves([game[p] EXCEPT !.state = "finished"])
  <1>3. Head(agenda[p][0]).verdict = "win" /\ Rechecked(ag2, cb[p], game[p], seen[p], p, r)
    BY <1>1, <1>2, TableCheck
  <1>4. /\ agenda'[p] = ag2
        /\ Send(p, CheckedWrites(game[p], "win"), cb[p]) /\ Judge(p, "win")
        /\ UNCHANGED <<server, base, feed, at, acked>>
    <2>1. /\ agenda' = [agenda EXCEPT ![p] = ag2]
          /\ Send(p, CheckedWrites(game[p], "win"), cb[p]) /\ Judge(p, "win")
          /\ UNCHANGED <<server, base, feed, at, acked>>
      BY <1>3 DEF RunCheck, network
    <2> QED
      BY <1>0, <2>1
  <1>5. Issued(p, w)
    BY <1>0, <1>4, CheckCloses DEF TakesElse, VerdictSet, Closes
  <1>6. w.doc.winner = game[p].winner
    BY <1>0 DEF updateGameMoves, Game
  <1>7. Alive(p)
    BY <1>2 DEF Alive, ResultsSeconds
  <1>8. cb'[p] = cb[p] \o Told(p, seen'[p])
    BY <1>0, <1>4, SendTells
  <1> HIDE DEF ag2, w
  <1>9. CASE seen[p].winner = p
    <2>1. seen'[p] = seen[p]
      BY <1>5, <1>9, NamesIssued
    <2>2. cb'[p] = cb[p]
      BY <1>0, <1>8, <2>1, Untold
    <2>3. Timetable(agenda'[p], cb'[p], game'[p], seen'[p], p, r)
      BY <1>3, <1>4, <1>9, <2>1, <2>2 DEF Rechecked
    <2> QED
      BY <2>3, TimedNext
  <1>10. CASE seen[p].winner # p
    <2>1. seen'[p].winner = p
      BY <1>3, <1>5, <1>6, <1>10, NamesIssued DEF Rechecked
    <2>2. cb'[p] = << >> \o <<seen'[p]>>
      <3>1. cb[p] = << >>
        BY <1>3, <1>10 DEF Rechecked
      <3> QED
        BY <1>0, <1>7, <1>8, <1>10, <2>1, <3>1, Untold
    <2>3. << >> \o <<seen'[p]>> = <<seen'[p]>>
      OBVIOUS
    <2>4. cb'[p] \in {<< >>, <<seen'[p]>>}
      BY <2>2, <2>3
    <2>5. \A q2 \in {<< >>, <<seen'[p]>>} : Timetable(ag2, q2, game'[p], seen'[p], p, r)
      BY <1>3, <1>10, <2>1 DEF Rechecked
    <2>6. Timetable(agenda'[p], cb'[p], game'[p], seen'[p], p, r)
      BY <1>4, <2>4, <2>5
    <2> QED
      BY <2>6, TimedNext
  <1> QED
    BY <1>9, <1>10

\* A later snapshot is the one the view shows: finished, and taken for a forfeit.
LEMMA UpdateTimed ==
    ASSUME OnePick, Grounds, Next, NEW p \in Players, Beats(p), judged[p] # {}, UpdateGame(p), Timed(p)
    PROVE  Timed(p)'
  <1> DEFINE d == Head(cb[p])
             w == updateGameMoves([d EXCEPT !.state = "finished"])
  <1>0. /\ IndInv /\ Follows /\ WinnerLook(p) /\ cb[p] \in Seq(Game) /\ cb[p] # << >>
        /\ agenda[p] \in Agenda
    BY ViewsWon, RoundTyped DEF IndInv, MatchSound, AgendasSound, UpdateGame
  <1>1. PICK r \in 0..ResultsSeconds : Timetable(agenda[p], cb[p], game[p], seen[p], p, r)
    BY DEF Timed
  <1>2. cb[p] = <<seen[p]>>
    BY <1>0, <1>1 DEF Timetable
  <1>3. d = seen[p] /\ Tail(cb[p]) = << >>
    BY <1>2
  <1>4. VerdictOf(p, d) = "win" /\ d.state = "finished"
    <2>1. seen[p] \in Kept /\ Full(seen[p]) /\ seen[p].state = "finished"
      BY <1>0 DEF WinnerLook, Grounds, SeenSound
    <2> QED
      BY <1>0, <1>3, <2>1 DEF Follows, AllDecided, Decided
  <1>5. /\ Issued(p, w) /\ w.doc.winner = d.winner
        /\ cb'[p] = Tail(cb[p]) \o Told(p, seen'[p])
        /\ agenda'[p] = continueToResults(Animated(agenda[p])) /\ game'[p].winner = p
    BY <1>0, <1>4, UpdateWins DEF Closes
  <1>6. seen'[p] = seen[p]
    BY <1>3, <1>5, NamesIssued
  <1> HIDE DEF d, w
  <1>7. cb'[p] = << >>
    <2>1. << >> \in Seq(Game)
      OBVIOUS
    <2> QED
      BY <1>0, <1>3, <1>5, <1>6, <2>1, Untold
  <1>8. Timetable(continueToResults(Animated(agenda[p])), << >>, game'[p], seen[p], p, r)
    BY <1>0, <1>1, <1>5, TableUpdate
  <1>9. Timetable(agenda'[p], cb'[p], game'[p], seen'[p], p, r)
    BY <1>5, <1>6, <1>7, <1>8
  <1> QED
    BY <1>9, TimedNext

Finishes == IF Interruptible THEN BOOLEAN ELSE {TRUE}

LEMMA CutMoves ==
    ASSUME OnePick, IndInv, RoundTaps, Next
    PROVE  \/ cut' = cut
           \/ \E f \in Finishes : cut' = (cut \/ ~f)
  <1>1. ASSUME NEW p \in Players, Main(p)
        PROVE  cut' = cut \/ \E f \in Finishes : cut' = (cut \/ ~f)
    <2>1. UpdateGame(p) \/ IgnoreSnapshot(p) \/ RunSetWinner(p) \/ RunResults(p) => cut' = cut
      BY DEF UpdateGame, IgnoreSnapshot, RunSetWinner, RunResults, history
    <2>2. ASSUME NEW f \in Finishes, RunCheck(p, f) \/ RunKick(p, f)
          PROVE  cut' = (cut \/ ~f)
      BY <2>2 DEF RunCheck, RunKick
    <2> QED
      BY <1>1, <2>1, <2>2 DEF Main, Finishes
  <1>2. Tick \/ Join => cut' = cut
    BY DEF Tick, Join, history
  <1>3. ASSUME NEW p \in Players, User(p) PROVE cut' = cut
    <2>1. Home(p) \/ \E m \in Choices(p) : Pick(p, m)
      BY <1>3, NobodyLeaves DEF User
    <2> QED
      BY <2>1 DEF Home, Pick, history
  <1>4. ASSUME NEW p \in Players, Firestore(p) PROVE cut' = cut
    BY <1>4 DEF Firestore, Commit, Ack, Watch, history
  <1>5. \A p \in Players : ~Break(p)
    BY NobodyLeaves
  <1> QED
    BY <1>1, <1>2, <1>3, <1>4, <1>5 DEF Next

LEMMA CutKept ==
    ASSUME OnePick, IndInv, RoundTaps, Next, ~cut'
    PROVE  /\ ~cut
           /\ \A x \in Players, finished \in BOOLEAN : RunCheck(x, finished) \/ RunKick(x, finished) => finished
  <1>1. \A x \in Players, finished \in BOOLEAN : RunCheck(x, finished) \/ RunKick(x, finished) => finished
    BY DEF RunCheck, RunKick
  <1>2. cut \in BOOLEAN
    BY DEF IndInv, NetworkSound
  <1>3. ~cut
    BY <1>2, CutMoves
  <1> QED
    BY <1>1, <1>3

LEMMA CutNever ==
    ASSUME OnePick, RoundInv, ~Interruptible, ~cut, [Next]_vars
    PROVE  ~cut'
  <1>1. CASE Next
    <2>1. cut' = cut \/ \E f \in {TRUE} : cut' = (cut \/ ~f)
      BY <1>1, CutMoves DEF Finishes, RoundInv
    <2> QED
      BY <2>1
  <1>2. CASE UNCHANGED vars
    BY <1>2 DEF vars, history
  <1> QED
    BY <1>1, <1>2

\* What a device announces is a player or a draw.
LEMMA Announces ==
    ASSUME IndInv, NEW p \in Players
    PROVE  /\ Announced(game[p]) \in Players \cup {"draw"} /\ Announced(game[p]) # "nothing"
           /\ game[p].winner = p => Announced(game[p]) = p
  <1>1. game[p].winner \in Players \cup {NoOne}
    BY RoundTyped DEF Game
  <1>2. NoOne \notin Players /\ "nothing" \notin Players \cup {"draw"}
    BY DEF Players
  <1> QED
    BY <1>1, <1>2 DEF Announced

\* Results announce the winner, where there is a timetable.
LEMMA ResultsTimed ==
    ASSUME IndInv, NEW p \in Players, RunResults(p), Timed(p)
    PROVE  Announced(game[p]) = p
  <1>1. PICK r \in 0..ResultsSeconds : Timetable(agenda[p], cb[p], game[p], seen[p], p, r)
    BY DEF Timed
  <1>2. agenda[p] \in Agenda /\ agenda[p][0] # << >> /\ Head(agenda[p][0]).kind = "results"
    BY DEF IndInv, MatchSound, AgendasSound, RunResults, Due
  <1>3. game[p].winner = p
    BY <1>1, <1>2, TableResults
  <1> QED
    BY <1>3, Announces

\* They are presented: the game is on the screen, and the exit dialog is not.
LEMMA ResultsShown ==
    ASSUME RoundInv, Screens, NEW p \in Players, judged[p] # {}, shown[p] = "nothing", RunResults(p)
    PROVE  shown'[p] = Announced(game[p])
  <1>1. screen[p] \in {"loading", "game"} /\ (p = Acceptor => screen[p] # "loading")
    BY DEF Screens
  <1>2. Full(game[p]) /\ ~alert[p] /\ shown \in [Players -> Players \cup {"draw", "nothing"}]
    BY DEF RoundInv, JudgedFull, RoundTaps, IndInv, MatchSound, DevicesTyped
  <1>3. screen[p] # "loading"
    BY <1>1, <1>2, JoinFirst DEF Players
  <1> QED
    BY <1>1, <1>2, <1>3 DEF RunResults

LEMMA NothingShown ==
    ASSUME OnePick, IndInv, RoundTaps, Next, NEW p \in Players, shown'[p] = "nothing"
    PROVE  shown[p] = "nothing"
  <1>1. ScreenMoves(p) /\ Announced(game[p]) # "nothing"
    BY ScreensMove, Announces
  <1> QED
    BY <1>1 DEF ScreenMoves

\* Nothing that the rest of the match does disturbs it.
LEMMA LeftTimed ==
    ASSUME OnePick, Grounds, Next, NEW p \in Players, Beats(p), judged[p] # {}, Timed(p), Left(p),
           seen'[p] = seen[p], ~UpdateGame(p), ~(p = Requester /\ Join)
    PROVE  Timed(p)'
  <1>0. IndInv /\ RoundTaps /\ cb[p] \in Seq(Game)
    BY ViewsWon, RoundTyped
  <1>1. PICK r \in 0..ResultsSeconds : Timetable(agenda[p], cb[p], game[p], seen[p], p, r)
    BY DEF Timed
  <1>2. Alive(p)
    <2>1. agenda[p][r] # << >>
      BY <1>1 DEF Timetable, Holds
    <2> QED
      BY <2>1 DEF Alive
  <1>3. cb'[p] = cb[p] \o Told(p, seen'[p])
    BY <1>0, <1>2, StepHears DEF Hears
  <1>4. cb'[p] = cb[p]
    BY <1>0, <1>3, Untold
  <1>5. Timetable(agenda'[p], cb'[p], game'[p], seen'[p], p, r)
    BY <1>1, <1>4 DEF Left
  <1> QED
    BY <1>5, TimedNext

\* Neither a pick nor the start of the match comes after a verdict.
LEMMA NoNewStart ==
    ASSUME OnePick, Grounds, NEW p \in Players, judged[p] # {}
    PROVE  /\ \A m \in Choices(p) : ~Pick(p, m)
           /\ ~(p = Requester /\ Join)
  <1>1. RoundInv /\ IndInv /\ RoundTaps /\ Full(game[p])
    BY DEF Grounds, LossInv, RoundInv, JudgedFull
  <1>2. taps[p] # << >>
    BY <1>1, SeenPicked DEF Full
  <1>3. \A m \in Choices(p) : ~Pick(p, m)
    BY <1>1, <1>2, PickTaps
  <1>4. p = Requester => ~Join
    BY <1>1, Joining
  <1> QED
    BY <1>3, <1>4

LEMMA TimedWinsStep ==
    ASSUME OnePick, Grounds, TimedWins, Next
    PROVE  TimedWins'
  <1> SUFFICES ASSUME NEW p \in Players, Beats(p)', judged'[p] # {}, shown'[p] = "nothing", ~cut'
               PROVE  Timed(p)'
    BY DEF TimedWins
  <1>0. RoundInv /\ IndInv /\ RoundTaps /\ EndsFull /\ Screens
    BY DEF Grounds, LossInv, RoundInv
  <1>1. IndInv' /\ RoundTaps'
    BY GroundsStep DEF Grounds, LossInv, RoundInv
  <1>2. Beats(p)
    BY <1>0, <1>1, BeatsKept
  <1>3. shown[p] = "nothing" /\ ~cut
    BY <1>0, NothingShown, CutKept
  <1>4. CASE judged[p] = {}
    BY <1>2, <1>4, FirstTimed
  <1>5. CASE judged[p] # {}
    <2>1. Timed(p)
      BY <1>2, <1>3, <1>5 DEF TimedWins
    <2>2. Tick => Timed(p)'
      BY <1>0, <2>1, TickTimed
    <2>3. UpdateGame(p) => Timed(p)'
      BY <1>2, <1>5, <2>1, UpdateTimed
    <2>4. RunSetWinner(p) => Timed(p)'
      BY <1>2, <1>5, <2>1, SetWinnerTimed
    <2>5. ~RunResults(p)
      <3> SUFFICES ASSUME RunResults(p) PROVE FALSE
        OBVIOUS
      <3>1. shown'[p] = Announced(game[p])
        BY <1>0, <1>3, <1>5, ResultsShown
      <3> QED
        BY <1>0, <3>1, Announces
    <2>6. ASSUME NEW finished \in BOOLEAN, RunCheck(p, finished) \/ RunKick(p, finished)
          PROVE  Timed(p)'
      <3>1. RunCheck(p, TRUE) \/ RunKick(p, TRUE)
        BY <1>0, <2>6, CutKept
      <3> QED
        BY <1>0, <1>2, <1>5, <2>1, <3>1, CheckTimed, KickTimed
    <2>7. ~(p = Requester /\ Join) /\ ~ \E m \in Choices(p) : Pick(p, m)
      BY <1>5, NoNewStart
    <2>8. ASSUME Left(p), seen'[p] = seen[p] \/ Ack(p) \/ \E k \in 1..Len(feed[p]) : Watch(p, k)
          PROVE  Timed(p)'
      <3>1. seen'[p] = seen[p]
        BY <1>2, <1>5, <2>8, NamesSent
      <3> QED
        BY <1>2, <1>5, <2>1, <2>3, <2>7, <2>8, <3>1, LeftTimed
    <2> QED
      BY <1>0, <2>2, <2>3, <2>4, <2>5, <2>6, <2>7, <2>8, OthersKeep DEF Moves
  <1> QED
    BY <1>4, <1>5

\* What the winner's device has announced.
ShownOwn == \A p \in Players : Beats(p) /\ ~cut => shown[p] \in {"nothing", p}

LEMMA ShownOwnStep ==
    ASSUME OnePick, Grounds, TimedWins, ShownOwn, Next
    PROVE  ShownOwn'
  <1> SUFFICES ASSUME NEW p \in Players, Beats(p)', ~cut', shown'[p] # "nothing"
               PROVE  shown'[p] = p
    BY DEF ShownOwn
  <1>0. RoundInv /\ IndInv /\ RoundTaps /\ Screens /\ TasksFull /\ JudgedGame
    BY DEF Grounds, LossInv, RoundInv
  <1>1. IndInv' /\ RoundTaps' /\ Screens'
    BY GroundsStep DEF Grounds, LossInv, RoundInv
  <1>2. judged'[p] # {}
    BY <1>1 DEF Screens
  <1>3. Beats(p) /\ ~cut
    BY <1>0, <1>1, <1>2, BeatsKept, CutKept
  <1>4. shown[p] \in {"nothing", p}
    BY <1>3 DEF ShownOwn
  <1>5. CASE shown'[p] = shown[p]
    BY <1>4, <1>5
  <1>6. CASE RunResults(p) /\ screen[p] = "game" /\ shown'[p] = Announced(game[p])
    <2>1. judged[p] # {} /\ shown[p] = "nothing"
      <3>1. agenda[p] # EmptyAgenda
        BY <1>0, <1>6, DueMoves
      <3> QED
        BY <1>0, <1>6, <3>1 DEF TasksFull, JudgedGame, Screens
    <2>2. Timed(p)
      BY <1>3, <2>1 DEF TimedWins
    <2> QED
      BY <1>0, <1>6, <2>2, ResultsTimed
  <1> QED
    BY <1>0, <1>5, <1>6, ScreensMove DEF ScreenMoves

-----------------------------------------------------------------------------
(***************************************************************************)
(* The inductive invariant, and the theorems.                              *)
(***************************************************************************)
WinInv == Grounds /\ TimedWins /\ ShownOwn

LEMMA WinInit ==
    ASSUME Init
    PROVE  WinInv
  <1>1. LossInv
    BY LossInit
  <1>2. \A p \in Players : ~Beats(p) /\ ~Earned(p) /\ judged[p] = {}
    BY DEF Init, Beats, Picked, Earned
  <1>3. ~Full(Created) /\ Created.state = "starting"
    BY DEF Created, Full, NotIdle, Players
  <1>4. FullRuns /\ JudgedGame
    BY <1>3 DEF Init, FullRuns, JudgedGame, Runs
  <1>5. OverEarned /\ OwnNamed
    BY <1>3 DEF Init, OverEarned, OwnNamed, Over, Waiting
  <1>6. SeenSound
    BY CreatedSound DEF Init, SeenSound, Kept
  <1>7. EndedTrails
    BY <1>2 DEF Init, EndedTrails, EndedTrail, Trail, Exactly, Rises, Lands, Exact
  <1>8. Screens
    BY DEF Init, Screens, Players
  <1> QED
    BY <1>1, <1>2, <1>4, <1>5, <1>6, <1>7, <1>8
       DEF WinInv, Grounds, WonTrails, FirstLooks, TimedWins, ShownOwn

LEMMA WinStutter ==
    ASSUME OnePick, WinInv, UNCHANGED vars
    PROVE  WinInv'
  <1>0. /\ UNCHANGED <<server, base, feed, at, acked, own, seen, cb, screen, game, agenda, shown>>
        /\ UNCHANGED <<taps, judged, cut>>
    BY DEF vars, network, device, history
  <1>1. LossInv'
    BY LossStep DEF WinInv, Grounds
  <1>2. FullRuns' /\ JudgedGame' /\ OwnNamed'
    BY <1>0 DEF WinInv, Grounds, FullRuns, Runs, JudgedGame, OwnNamed, Earned, Full, NotIdle
  <1>3. OverEarned'
    BY <1>0 DEF WinInv, Grounds, OverEarned, Over, Waiting, IsFinish, Earned
  <1>4. SeenSound'
    BY <1>0 DEF WinInv, Grounds, SeenSound, Kept, PickedBy, Picked, EarnedBy, Earned, SoundDocs
  <1>5. EndedTrails'
    BY <1>0 DEF WinInv, Grounds, EndedTrails, EndedTrail, Trail, Exactly, Ending, Earned
  <1>6. \A p \in Players : Beats(p)' <=> Beats(p)
    BY <1>0 DEF Beats, Picked
  <1>7. WonTrails'
    BY <1>0, <1>6 DEF WinInv, Grounds, WonTrails, WonTrail, Trail, Sourced, Has
  <1>8. Screens'
    BY <1>0 DEF WinInv, Grounds, Screens
  <1>9. FirstLooks'
    BY <1>0, <1>6 DEF WinInv, Grounds, FirstLooks, FirstLook, EndsFullIn, Full, NotIdle
  <1>10. TimedWins'
    <2> SUFFICES ASSUME NEW p \in Players, Beats(p)', judged'[p] # {}, shown'[p] = "nothing", ~cut'
                 PROVE  Timed(p)'
      BY DEF TimedWins
    <2>1. Timed(p)
      BY <1>0, <1>6 DEF WinInv, TimedWins
    <2>2. PICK r \in 0..ResultsSeconds : Timetable(agenda[p], cb[p], game[p], seen[p], p, r)
      BY <2>1 DEF Timed
    <2> QED
      BY <1>0, <2>2, TimedNext
  <1>11. ShownOwn'
    BY <1>0, <1>6 DEF WinInv, ShownOwn
  <1> QED
    BY <1>1, <1>2, <1>3, <1>4, <1>5, <1>7, <1>8, <1>9, <1>10, <1>11 DEF WinInv, Grounds

LEMMA WinStep ==
    ASSUME OnePick, WinInv, [Next]_vars
    PROVE  WinInv'
  <1>1. CASE Next
    BY <1>1, GroundsStep, TimedWinsStep, ShownOwnStep DEF WinInv
  <1>2. CASE UNCHANGED vars
    BY <1>2, WinStutter
  <1> QED
    BY <1>1, <1>2

LEMMA WinShows ==
    ASSUME WinInv, ~cut
    PROVE  VictoryShown
  <1> SUFFICES ASSUME NEW p \in Players, judged[p] = {"win"}
               PROVE  shown[p] \in {"nothing", p}
    BY DEF VictoryShown
  <1>1. JudgedSound
    BY DEF WinInv, Grounds, LossInv, RoundInv, IndInv
  <1>2. Beats(p)
    BY <1>1 DEF JudgedSound, Beats
  <1> QED
    BY <1>2 DEF WinInv, ShownOwn

\* VictoryShown, in every match in which each player picks once and nobody leaves, for
\* every choice of moves and every delay, as long as no animation is cut short: when the
\* results are presented (continueToResults), the game of the device that judged a win
\* names its own player, by setWinner or by the last snapshot it was called with.
THEOREM VictoriesShown ==
    ASSUME OnePick
    PROVE  Spec => [](~cut => VictoryShown)
  <1>1. Init => WinInv
    BY WinInit
  <1>2. WinInv /\ [Next]_vars => WinInv'
    BY WinStep
  <1>3. WinInv => (~cut => VictoryShown)
    BY WinShows
  <1> QED
    BY <1>1, <1>2, <1>3, PTL DEF Spec

\* Where animations always complete, as on a device that stays in the foreground, that
\* is VictoryShown itself.
THEOREM VictoriesAlwaysShown ==
    ASSUME OnePick, ~Interruptible
    PROVE  Spec => []VictoryShown
  <1>1. Init => RoundInv /\ SeenIdle /\ ~cut
    BY RoundInit DEF Init
  <1>2. RoundInv /\ SeenIdle /\ ~cut /\ [Next]_vars => RoundInv' /\ SeenIdle' /\ ~cut'
    <2> SUFFICES ASSUME RoundInv, SeenIdle, ~cut, [Next]_vars PROVE RoundInv' /\ SeenIdle' /\ ~cut'
      OBVIOUS
    <2>1. RoundInv' /\ SeenIdle'
      BY RoundNext, RoundStutter
    <2>2. ~cut'
      BY CutNever
    <2> QED
      BY <2>1, <2>2
  <1> QED
    BY <1>1, <1>2, VictoriesShown, PTL DEF Spec

-----------------------------------------------------------------------------
(***************************************************************************)
(* The results of the loser's device come no earlier than the winner's.    *)
(***************************************************************************)
\* What becomes of the results put off in ag: all are kept, new ones are the last.
Adds(ag, ag2) ==
    \A d \in 0..ResultsSeconds : Holds(ag, d, "results") => Holds(ag2, d, "results")
OnlyLast(ag, ag2) ==
    \A d \in 0..(ResultsSeconds - 1) : Holds(ag2, d, "results") => Holds(ag, d, "results")

\* Nothing is due, and no results are to come.
Calm(ag) == ag[0] = << >> /\ \A d \in 0..ResultsSeconds : ~Holds(ag, d, "results")

LEMMA AfterResults ==
    ASSUME NEW ag \in Agenda, NEW d \in 1..ResultsSeconds, NEW t \in Task,
           t.kind = "results" => d = ResultsSeconds
    PROVE  /\ After(ag, d, t) \in Agenda /\ Adds(ag, After(ag, d, t)) /\ OnlyLast(ag, After(ag, d, t))
           /\ t.kind # "results" /\ Calm(ag) => Calm(After(ag, d, t))
  <1> DEFINE ag2 == After(ag, d, t)
             s == Append(ag[d], t)
  <1>0. ResultsSeconds = 6 /\ d \in 0..ResultsSeconds /\ d # 0 /\ 0 \in 0..ResultsSeconds
    BY DEF ResultsSeconds
  <1>1. ag \in [0..ResultsSeconds -> Seq(Task)] /\ ag[d] \in Seq(Task)
    BY <1>0 DEF Agenda
  <1>2. ag2 \in Agenda /\ \A e \in 0..ResultsSeconds : Holds(ag, e, "results") => Holds(ag2, e, "results")
    <2>1. "results" \in Kinds
      BY DEF Kinds
    <2> QED
      BY <1>0, <2>1, Afters
  <1>3. \A e \in 0..ResultsSeconds : ag2[e] = IF e = d THEN s ELSE ag[e]
    BY <1>1 DEF After
  <1>4. \A i \in DOMAIN s : s[i] = t \/ (i \in DOMAIN ag[d] /\ s[i] = ag[d][i])
    BY <1>1
  <1> HIDE DEF ag2, s
  <1>5. ASSUME NEW e \in 0..ResultsSeconds, Holds(ag2, e, "results")
        PROVE  Holds(ag, e, "results") \/ (e = d /\ t.kind = "results")
    BY <1>3, <1>4, <1>5 DEF Holds
  <1>6. OnlyLast(ag, ag2)
    <2>1. \A e \in 0..(ResultsSeconds - 1) : e \in 0..ResultsSeconds /\ e # ResultsSeconds
      BY <1>0
    <2> QED
      BY <1>5, <2>1 DEF OnlyLast
  <1>7. ASSUME t.kind # "results", Calm(ag) PROVE Calm(ag2)
    BY <1>0, <1>3, <1>5, <1>7 DEF Calm
  <1> QED
    BY <1>2, <1>6, <1>7 DEF ag2, Adds

LEMMA AddsOn ==
    ASSUME NEW a, NEW b, NEW c
    PROVE  /\ Adds(a, a) /\ OnlyLast(a, a)
           /\ Adds(a, b) /\ Adds(b, c) => Adds(a, c)
           /\ OnlyLast(a, b) /\ OnlyLast(b, c) => OnlyLast(a, c)
  BY DEF Adds, OnlyLast

LEMMA ResultsLast ==
    ASSUME NEW ag \in Agenda
    PROVE  LET ag2 == continueToResults(ag)
           IN  ag2 \in Agenda /\ Adds(ag, ag2) /\ OnlyLast(ag, ag2)
  <1>1. ResultsTask \in Task /\ ResultsSeconds \in 1..ResultsSeconds
    BY DEF ResultsTask, Task, VerdictSet, ResultsSeconds
  <1> QED
    BY <1>1, AfterResults DEF continueToResults

LEMMA CheckedResults ==
    ASSUME NEW ag \in Agenda, NEW v \in VerdictSet
    PROVE  LET ag2 == CheckedAgenda(ag, v)
           IN  /\ ag2 \in Agenda /\ Adds(ag, ag2) /\ OnlyLast(ag, ag2)
               /\ ~TakesElse(v) /\ Calm(ag) => Calm(ag2)
  <1> DEFINE kicked == IF v \in {"win", "lose"} THEN After(ag, KickSeconds, Kick(v)) ELSE ag
  <1>1. Kick(v) \in Task /\ Kick(v).kind # "results" /\ KickSeconds \in 1..ResultsSeconds
    BY DEF Kick, Task, VerdictSet, KickSeconds, ResultsSeconds
  <1>2. kicked \in Agenda /\ Adds(ag, kicked) /\ OnlyLast(ag, kicked) /\ (Calm(ag) => Calm(kicked))
    BY <1>1, AfterResults, AddsOn
  <1> HIDE DEF kicked
  <1>3. LET ag2 == continueToResults(kicked)
        IN  ag2 \in Agenda /\ Adds(ag, ag2) /\ OnlyLast(ag, ag2)
    BY <1>2, ResultsLast, AddsOn
  <1>4. CheckedAgenda(ag, v) = IF TakesElse(v) THEN continueToResults(kicked) ELSE kicked
    BY DEF CheckedAgenda, kicked
  <1> QED
    BY <1>2, <1>3, <1>4

LEMMA RestResults ==
    ASSUME NEW x \in Players, agenda[x] \in Agenda, agenda[x][0] # << >>
    PROVE  /\ Rest(x) \in Agenda /\ OnlyLast(agenda[x], Rest(x))
           /\ Head(agenda[x][0]).kind # "results" => Adds(agenda[x], Rest(x))
  <1> DEFINE ag == agenda[x]
             s == ag[0]
             u == Tail(s)
  <1>0. 0 \in 0..ResultsSeconds /\ "results" \in Kinds
        /\ \A d \in 0..(ResultsSeconds - 1) : d \in 0..ResultsSeconds
    BY DEF ResultsSeconds, Kinds
  <1>1. Rest(x) \in Agenda /\ (Head(s).kind # "results" => Adds(ag, Rest(x)))
    BY <1>0, Rests DEF Adds
  <1>2. \A d \in 0..ResultsSeconds : Rest(x)[d] = IF d = 0 THEN u ELSE ag[d]
    BY DEF Rest, Agenda
  <1>3. \A i \in DOMAIN u : i + 1 \in DOMAIN s /\ u[i] = s[i + 1]
    <2>1. s \in Seq(Task)
      BY <1>0 DEF Agenda
    <2> HIDE DEF s
    <2> QED
      BY <2>1
  <1> HIDE DEF ag, s, u
  <1>4. ASSUME NEW d \in 0..ResultsSeconds, Holds(Rest(x), d, "results")
        PROVE  Holds(ag, d, "results")
    <2>1. CASE d = 0
      <3>1. PICK i \in DOMAIN u : u[i].kind = "results"
        BY <1>2, <1>4, <2>1 DEF Holds
      <3> QED
        BY <1>3, <2>1, <3>1 DEF Holds, s
    <2>2. CASE d # 0
      BY <1>2, <1>4, <2>2 DEF Holds
    <2> QED
      BY <2>1, <2>2
  <1> QED
    BY <1>0, <1>1, <1>4 DEF OnlyLast, ag, s

LEMMA UpdateResults ==
    ASSUME IndInv, NEW x \in Players, UpdateGame(x)
    PROVE  LET d == Head(cb[x])
               v == VerdictOf(x, d)
           IN  /\ d \in Game /\ v \in VerdictSet
               /\ agenda'[x] \in Agenda /\ Adds(agenda[x], agenda'[x]) /\ OnlyLast(agenda[x], agenda'[x])
               /\ ~TakesElse(v) /\ d.state # "finished" /\ Calm(agenda[x]) => Calm(agenda'[x])
  <1> DEFINE d == Head(cb[x])
             v == VerdictOf(x, d)
             animated == IF v = "waiting" THEN agenda[x] ELSE After(agenda[x], RecheckSeconds, Check(v))
             left == TakenAsForfeit(d, CheckedGame(d, v))
             ag == CheckedAgenda(animated, v)
  <1>1. agenda \in [Players -> Agenda] /\ d \in Game
    <2>1. cb[x] \in Seq(Game) /\ cb[x] # << >>
      BY RoundTyped DEF UpdateGame
    <2> QED
      BY <2>1 DEF IndInv, MatchSound, AgendasSound
  <1>2. v \in VerdictSet
    <2>1. d.moves[x] \in MoveSet /\ d.moves[Opponent(x)] \in MoveSet
      BY <1>1, Opposite DEF Game
    <2> QED
      BY <2>1, VerdictsOppose DEF VerdictOf
  <1>3. agenda'[x] = IF left THEN continueToResults(ag) ELSE ag
    <2>1. agenda' = [agenda EXCEPT ![x] = IF left THEN continueToResults(ag) ELSE ag]
      BY DEF UpdateGame
    <2> QED
      BY <1>1, <2>1
  <1>4. left => d.state = "finished"
    BY DEF TakenAsForfeit
  <1>5. Check(v) \in Task /\ Check(v).kind # "results" /\ RecheckSeconds \in 1..ResultsSeconds
    BY <1>2 DEF Check, Task, RecheckSeconds, ResultsSeconds
  <1> HIDE DEF v, left
  <1>6. /\ animated \in Agenda /\ Adds(agenda[x], animated) /\ OnlyLast(agenda[x], animated)
        /\ Calm(agenda[x]) => Calm(animated)
    BY <1>1, <1>5, AfterResults, AddsOn
  <1> HIDE DEF animated
  <1>7. /\ ag \in Agenda /\ Adds(agenda[x], ag) /\ OnlyLast(agenda[x], ag)
        /\ ~TakesElse(v) /\ Calm(agenda[x]) => Calm(ag)
    BY <1>2, <1>6, CheckedResults, AddsOn
  <1> HIDE DEF ag
  <1>8. /\ agenda'[x] \in Agenda /\ Adds(agenda[x], agenda'[x]) /\ OnlyLast(agenda[x], agenda'[x])
        /\ ~left => agenda'[x] = ag
    BY <1>3, <1>7, ResultsLast, AddsOn
  <1> QED
    BY <1>1, <1>2, <1>4, <1>7, <1>8 DEF v

LEMMA TaskResults ==
    ASSUME IndInv, NEW x \in Players,
           RunSetWinner(x) \/ RunResults(x) \/ \E f \in BOOLEAN : RunCheck(x, f) \/ RunKick(x, f)
    PROVE  /\ OnlyLast(agenda[x], agenda'[x])
           /\ ~RunResults(x) => Adds(agenda[x], agenda'[x])
  <1>1. agenda \in [Players -> Agenda] /\ agenda[x] \in Agenda
    BY DEF IndInv, MatchSound, AgendasSound
  <1>2. agenda[x][0] # << >> /\ Head(agenda[x][0]) \in Task
    <2>1. agenda[x][0] # << >>
      BY DEF RunSetWinner, RunResults, RunCheck, RunKick, Due
    <2> QED
      BY <1>1, <2>1, Rests
  <1>3. /\ Rest(x) \in Agenda /\ OnlyLast(agenda[x], Rest(x))
        /\ Head(agenda[x][0]).kind # "results" => Adds(agenda[x], Rest(x))
    BY <1>1, <1>2, RestResults
  <1>4. ASSUME RunResults(x) PROVE agenda'[x] = Rest(x)
    BY <1>1, <1>4 DEF RunResults
  <1>5. ASSUME RunSetWinner(x)
        PROVE  Head(agenda[x][0]).kind = "setWinner" /\ agenda'[x] = continueToResults(Rest(x))
    BY <1>1, <1>5 DEF RunSetWinner, Due
  <1>6. ASSUME NEW f \in BOOLEAN, RunCheck(x, f)
        PROVE  /\ Head(agenda[x][0]).kind = "check"
               /\ \E v \in VerdictSet : agenda'[x] = CheckedAgenda(Rest(x), v)
    <2> DEFINE v == IF f THEN Head(agenda[x][0]).verdict ELSE "waiting"
    <2>1. agenda' = [agenda EXCEPT ![x] = CheckedAgenda(Rest(x), v)] /\ Head(agenda[x][0]).kind = "check"
      BY <1>6 DEF RunCheck, Due
    <2>2. v \in VerdictSet
      BY <1>2 DEF Task, VerdictSet
    <2> QED
      BY <1>1, <2>1, <2>2
  <1>7. ASSUME NEW f \in BOOLEAN, RunKick(x, f)
        PROVE  /\ Head(agenda[x][0]).kind = "kick"
               /\ agenda'[x] \in {Rest(x), After(Rest(x), SetWinnerSeconds, SetWinnerTask),
                                  continueToResults(Rest(x))}
    BY <1>1, <1>7 DEF RunKick, Due
  <1>8. LET ag2 == After(Rest(x), SetWinnerSeconds, SetWinnerTask)
        IN  Adds(Rest(x), ag2) /\ OnlyLast(Rest(x), ag2)
    <2>1. SetWinnerTask \in Task /\ SetWinnerTask.kind # "results" /\ SetWinnerSeconds \in 1..ResultsSeconds
      BY DEF SetWinnerTask, Task, VerdictSet, SetWinnerSeconds, ResultsSeconds
    <2> QED
      BY <1>3, <2>1, AfterResults
  <1>9. Adds(Rest(x), continueToResults(Rest(x))) /\ OnlyLast(Rest(x), continueToResults(Rest(x)))
    BY <1>3, ResultsLast
  <1>10. \A v \in VerdictSet : LET ag2 == CheckedAgenda(Rest(x), v)
                               IN  Adds(Rest(x), ag2) /\ OnlyLast(Rest(x), ag2)
    BY <1>3, CheckedResults
  <1>11. Adds(Rest(x), Rest(x)) /\ OnlyLast(Rest(x), Rest(x))
    BY AddsOn
  <1>12. OnlyLast(Rest(x), agenda'[x]) /\ Adds(Rest(x), agenda'[x])
    BY <1>4, <1>5, <1>6, <1>7, <1>8, <1>9, <1>10, <1>11
  <1>13. ~RunResults(x) => Head(agenda[x][0]).kind # "results"
    BY <1>5, <1>6, <1>7
  <1> QED
    BY <1>3, <1>12, <1>13, AddsOn

\* Unless a second passes no results come closer, and they go when they are presented.
LEMMA StepResults ==
    ASSUME OnePick, RoundInv, EndsFull, Next, ~Tick, NEW x \in Players
    PROVE  /\ OnlyLast(agenda[x], agenda'[x])
           /\ ~RunResults(x) => Adds(agenda[x], agenda'[x])
  <1>0. IndInv
    BY DEF RoundInv
  <1>1. agenda'[x] = agenda[x] => OnlyLast(agenda[x], agenda'[x]) /\ Adds(agenda[x], agenda'[x])
    BY AddsOn
  <1>2. UpdateGame(x) => OnlyLast(agenda[x], agenda'[x]) /\ Adds(agenda[x], agenda'[x])
    BY <1>0, UpdateResults
  <1>3. Join => agenda'[x] = agenda[x]
    BY Joining
  <1>4. ASSUME NEW m \in Choices(x), Pick(x, m) PROVE agenda'[x] = agenda[x]
    BY <1>4 DEF Pick
  <1> QED
    BY <1>0, <1>1, <1>2, <1>3, <1>4, OthersKeep, TaskResults DEF Moves, Left

\* Both players have picked before anybody judges.
LEMMA BeatsFirst ==
    ASSUME OnePick, Grounds, Next, NEW p \in Players, Beats(p)', ~Beats(p), NEW x \in Players
    PROVE  judged'[x] = {} /\ agenda'[x] = EmptyAgenda /\ shown'[x] = "nothing"
  <1>0. IndInv /\ RoundTaps
    BY DEF Grounds, LossInv, RoundInv
  <1>1. IndInv' /\ RoundTaps' /\ TasksFull' /\ JudgedGame' /\ Screens'
    BY GroundsStep DEF Grounds, LossInv, RoundInv
  <1>2. \A y \in Players : Picked(y) \subseteq Picked(y)'
    BY <1>0, PickedKept
  <1>3. ASSUME judged'[x] # {} PROVE FALSE
    <2>1. CASE taps' = taps
      BY <2>1 DEF Beats, Picked
    <2>2. CASE judged' = judged
      <3>1. PICK a \in Picked(x), b \in Picked(Opponent(x)) : TRUE
        BY <1>0, <1>3, <2>2 DEF IndInv, JudgedSound
      <3>2. PICK m \in Picked(p)', o \in Picked(Opponent(p))' : Verdict(m, o) = "win"
        BY DEF Beats
      <3>3. OneMoveEach'
        BY <1>1, OnlyMoves, PTL
      <3>4. \A y \in Players : Picked(y) # {}
        BY <3>1, Opposite
      <3>5. Opponent(p) \in Players
        BY Opposite
      <3>6. PICK c \in Picked(p), d \in Picked(Opponent(p)) : TRUE
        BY <3>4, <3>5
      <3>7. m = c /\ o = d
        BY <1>2, <3>2, <3>3, <3>5, <3>6 DEF OneMoveEach, Picked
      <3> QED
        BY <3>2, <3>6, <3>7 DEF Beats
    <2> QED
      BY <1>0, <2>1, <2>2, PickedKept
  <1> QED
    BY <1>1, <1>3 DEF TasksFull, JudgedGame, Screens

\* The loser's device reaches no verdict but the defeat, and puts off accordingly.
LEMMA LoserJudges ==
    ASSUME Grounds, NEW p \in Players, Beats(p)
    PROVE  LET q == Opponent(p)
           IN  /\ q \in Players /\ p # NoOne /\ judged[q] \subseteq {"lose"} /\ ~Earned(q)
               /\ \A d \in Kept : VerdictOf(q, d) \in {"lose", "waiting"}
               /\ \A t \in SoundTasks(judged[q]) : /\ t.kind # "setWinner"
                                                   /\ t.kind = "check" => t.verdict = "lose"
  <1> DEFINE q == Opponent(p)
  <1>0. IndInv /\ RoundTaps
    BY DEF Grounds, LossInv, RoundInv
  <1>1. q \in Players /\ Opponent(q) = p /\ Players = {p, q} /\ p # NoOne
    BY Opposite
  <1>2. ~Earned(q) /\ \A d \in Kept : Full(d) => VerdictOf(p, d) = "win"
    BY GroundsFollow DEF Follows, AllDecided, Decided
  <1>3. judged[q] \subseteq {"lose"}
    <2>1. judged[q] \subseteq {"win", "lose", "tie"}
      BY <1>0, <1>1, RoundTyped
    <2> QED
      BY <1>2, <2>1 DEF Earned
  <1>4. ASSUME NEW d \in Kept PROVE VerdictOf(q, d) \in {"lose", "waiting"}
    <2>1. d.moves[p] \in MoveSet /\ d.moves[q] \in MoveSet
      BY <1>1 DEF Kept, SoundDocs, Game
    <2>2. /\ VerdictOf(p, d) = Verdict(d.moves[p], d.moves[q])
          /\ VerdictOf(q, d) = Verdict(d.moves[q], d.moves[p])
      BY <1>1 DEF VerdictOf
    <2>3. Full(d) => VerdictOf(q, d) = "lose"
      BY <1>2, <2>1, <2>2, VerdictsOppose
    <2>4. ~Full(d) => VerdictOf(q, d) = "waiting"
      BY <1>1, <2>1, <2>2, VerdictsOppose DEF Full, NotIdle
    <2> QED
      BY <2>3, <2>4
  <1>5. \A t \in SoundTasks(judged[q]) : /\ t.kind # "setWinner"
                                         /\ t.kind = "check" => t.verdict = "lose"
    BY <1>3 DEF SoundTasks
  <1> QED
    BY <1>1, <1>2, <1>3, <1>4, <1>5

\* A snapshot that names the winner is what the loser's game becomes.
LEMMA LoserUpdates ==
    ASSUME Grounds, NEW p \in Players, Beats(p), UpdateGame(Opponent(p))
    PROVE  LET q == Opponent(p)
               d == Head(cb[q])
           IN  /\ cb[q] # << >> /\ 1 \in DOMAIN cb[q] /\ d = cb[q][1] /\ d \in Kept
               /\ ~TakesElse(VerdictOf(q, d))
               /\ d.winner = p => game'[q] = d
  <1> DEFINE q == Opponent(p)
             d == Head(cb[q])
             v == VerdictOf(q, d)
             left == TakenAsForfeit(d, CheckedGame(d, v))
  <1>0. IndInv /\ q \in Players /\ p # NoOne
    BY LoserJudges DEF Grounds, LossInv, RoundInv
  <1>1. cb[q] # << >> /\ 1 \in DOMAIN cb[q] /\ d = cb[q][1]
    <2>1. cb[q] \in Seq(Game) /\ cb[q] # << >>
      BY <1>0, RoundTyped DEF UpdateGame
    <2> QED
      BY <2>1
  <1>2. d \in Kept
    BY <1>0, <1>1, SoundKept DEF Kept
  <1>3. ~TakesElse(v)
    BY <1>2, LoserJudges DEF TakesElse
  <1>4. CheckedGame(d, v) = d
    BY <1>3 DEF CheckedGame
  <1>5. d.winner = p => ~left
    BY <1>0, <1>4 DEF TakenAsForfeit
  <1>6. game'[q] = IF left THEN [CheckedGame(d, v) EXCEPT !.winner = WinnerByForfeit(q)]
                   ELSE CheckedGame(d, v)
    <2>1. game' = [game EXCEPT ![q] = IF left THEN [CheckedGame(d, v) EXCEPT !.winner = WinnerByForfeit(q)]
                                      ELSE CheckedGame(d, v)]
      BY DEF UpdateGame
    <2>2. game \in [Players -> Game]
      BY <1>0, RoundTyped
    <2> HIDE DEF left
    <2> QED
      BY <1>0, <2>1, <2>2
  <1> QED
    BY <1>1, <1>2, <1>3, <1>4, <1>5, <1>6

\* Its tasks leave the game alone.
LEMMA LoserTasks ==
    ASSUME Grounds, NEW p \in Players, Beats(p)
    PROVE  LET q == Opponent(p)
           IN  /\ ~RunSetWinner(q)
               /\ \A f \in BOOLEAN : RunCheck(q, f) => game'[q] = game[q]
  <1> DEFINE q == Opponent(p)
  <1>0. IndInv /\ q \in Players
    BY LoserJudges DEF Grounds, LossInv, RoundInv
  <1>1. ASSUME agenda[q][0] # << >>
        PROVE  /\ Head(agenda[q][0]).kind # "setWinner"
               /\ Head(agenda[q][0]).kind = "check" => Head(agenda[q][0]).verdict = "lose"
    <2>1. agenda[q] \in SoundAgenda(judged[q])
      BY <1>0 DEF IndInv, MatchSound, AgendasSound
    <2>2. Head(agenda[q][0]) \in SoundTasks(judged[q])
      BY <1>0, <1>1, <2>1, DueSound
    <2> QED
      BY <2>2, LoserJudges
  <1>2. ~RunSetWinner(q)
    BY <1>1 DEF RunSetWinner, Due
  <1>3. ASSUME NEW f \in BOOLEAN, RunCheck(q, f) PROVE game'[q] = game[q]
    <2> DEFINE v == IF f THEN Head(agenda[q][0]).verdict ELSE "waiting"
    <2>1. v \in {"lose", "waiting"}
      BY <1>1, <1>3 DEF RunCheck, Due
    <2>2. game' = [game EXCEPT ![q] = CheckedGame(@, v)]
      BY <1>3 DEF RunCheck
    <2>3. game \in [Players -> Game]
      BY <1>0, RoundTyped
    <2> HIDE DEF v
    <2> QED
      BY <1>0, <2>1, <2>2, <2>3 DEF CheckedGame, TakesElse
  <1> QED
    BY <1>2, <1>3

LEMMA LoserGame ==
    ASSUME OnePick, Grounds, Next, NEW p \in Players, Beats(p)
    PROVE  LET q == Opponent(p)
           IN  \/ game'[q] = game[q]
               \/ UpdateGame(q)
               \/ q = Requester /\ Join
  <1> DEFINE q == Opponent(p)
  <1>0. RoundInv /\ EndsFull /\ q \in Players
    BY LoserJudges DEF Grounds, LossInv
  <1>1. Tick \/ RunResults(q) \/ (\E f \in BOOLEAN : RunKick(q, f)) => game'[q] = game[q]
    BY DEF Tick, RunResults, RunKick
  <1>2. (\E m \in Choices(q) : Pick(q, m)) => game'[q] = game[q]
    BY DEF Pick
  <1> QED
    BY <1>0, <1>1, <1>2, LoserTasks, OthersKeep DEF Moves, Left

-----------------------------------------------------------------------------
(***************************************************************************)
(* Nothing on the loser's device is due, or has its results to come, until *)
(* the winner's device has judged.                                         *)
(***************************************************************************)
LoserCalm == \A p \in Players : Beats(p) /\ judged[p] = {} => Calm(agenda[Opponent(p)])

LEMMA EmptyCalm == Calm(EmptyAgenda)
  BY DEF Calm, EmptyAgenda, Holds, ResultsSeconds

\* With a prompt network both devices show what the backend has when a second passes.
LEMMA TickViews ==
    ASSUME RoundInv, Prompt, Tick, NEW x \in Players
    PROVE  /\ own[x] = << >> /\ feed[x] = << >> /\ cb[x] = << >> /\ agenda[x][0] = << >>
           /\ base[x] = server /\ seen[x] = server
  <1>1. own[x] = << >> /\ feed[x] = << >> /\ cb[x] = << >> /\ agenda[x][0] = << >>
    BY DEF Tick
  <1>2. base[x] = server
    BY <1>1 DEF RoundInv, FeedSound, Feeds
  <1>3. seen[x] = Overlay(base[x], << >>)
    BY <1>1 DEF RoundInv, IndInv, ViewsSound
  <1>4. base[x] \in Game
    BY RoundTyped DEF RoundInv
  <1> QED
    BY <1>1, <1>2, <1>3, <1>4, NothingOverlaid

LEMMA TickCalm ==
    ASSUME Grounds, Prompt, Tick, NEW p \in Players, Beats(p), judged[p] = {}
    PROVE  agenda'[Opponent(p)] = EmptyAgenda
  <1> DEFINE q == Opponent(p)
  <1>0. q \in Players /\ RoundInv /\ TasksFull /\ FirstLook(p)
    BY Opposite DEF Grounds, LossInv, FirstLooks
  <1>1. /\ cb[p] = << >> /\ seen[p] = server /\ seen[q] = server
    BY <1>0, TickViews
  <1>2. ~Full(seen[q])
    BY <1>0, <1>1 DEF FirstLook, EndsFullIn
  <1>3. agenda[q] = EmptyAgenda
    BY <1>0, <1>2 DEF RoundInv, ViewFull, TasksFull
  <1> QED
    BY <1>0, <1>3, NothingLater DEF Tick

LEMMA UpdateCalm ==
    ASSUME Grounds, NEW p \in Players, Beats(p), judged[p] = {}, Calm(agenda[Opponent(p)]),
           UpdateGame(Opponent(p))
    PROVE  Calm(agenda'[Opponent(p)])
  <1> DEFINE q == Opponent(p)
             d == Head(cb[q])
  <1>0. q \in Players /\ Players = {p, q} /\ RoundInv /\ IndInv /\ ~Earned(q)
    BY Opposite, LoserJudges DEF Grounds, LossInv, RoundInv
  <1>1. 1 \in DOMAIN cb[q] /\ d = cb[q][1] /\ ~TakesElse(VerdictOf(q, d))
    BY LoserUpdates
  <1>2. Local(q, d)
    BY <1>0, <1>1 DEF RoundInv, CopiesSound
  <1>3. ~Over(q)
    BY <1>0 DEF Grounds, OverEarned, Earned
  <1>4. d.state # "finished"
    BY <1>2, <1>3 DEF Local, Closing
  <1> QED
    BY <1>0, <1>1, <1>4, UpdateResults

LEMMA LoserCalmStep ==
    ASSUME OnePick, Prompt, Grounds, LoserCalm, Next
    PROVE  LoserCalm'
  <1> SUFFICES ASSUME NEW p \in Players, Beats(p)', judged'[p] = {}
               PROVE  Calm(agenda'[Opponent(p)])
    BY DEF LoserCalm
  <1> DEFINE q == Opponent(p)
  <1>0. q \in Players /\ RoundInv /\ EndsFull /\ IndInv
    BY Opposite DEF Grounds, LossInv, RoundInv
  <1>1. CASE ~Beats(p)
    BY <1>0, <1>1, BeatsFirst, EmptyCalm
  <1>2. CASE Beats(p)
    <2>1. judged[p] = {}
      BY <1>0, JudgedKept
    <2>2. Calm(agenda[q]) /\ agenda[q][0] = << >>
      BY <1>2, <2>1 DEF LoserCalm, Calm
    <2>3. Tick => Calm(agenda'[q])
      BY <1>2, <2>1, TickCalm, EmptyCalm
    <2>4. UpdateGame(q) => Calm(agenda'[q])
      BY <1>2, <2>1, <2>2, UpdateCalm
    <2>5. ~RunSetWinner(q) /\ ~RunResults(q) /\ \A f \in BOOLEAN : ~RunCheck(q, f) /\ ~RunKick(q, f)
      BY <2>2 DEF RunSetWinner, RunResults, RunCheck, RunKick, Due
    <2>6. Join \/ (\E m \in Choices(q) : Pick(q, m)) => agenda'[q] = agenda[q]
      BY <1>0, Joining DEF Pick
    <2> QED
      BY <1>0, <2>2, <2>3, <2>4, <2>5, <2>6, OthersKeep DEF Moves, Left
  <1> QED
    BY <1>1, <1>2

-----------------------------------------------------------------------------
(***************************************************************************)
(* Once the winner's device has judged, its results come no later than     *)
(* those of the loser's.                                                   *)
(***************************************************************************)
ResultsBy(ag, d) == \E e \in 0..d : Holds(ag, e, "results")
Behind(p) ==
    \A d \in 0..ResultsSeconds :
        Holds(agenda[Opponent(p)], d, "results") => ResultsBy(agenda[p], d)
LoserBehind ==
    \A p \in Players : Beats(p) /\ judged[p] # {} /\ shown[p] = "nothing" /\ ~cut => Behind(p)

\* A second later they are a second closer.
LEMMA ResultsCloser ==
    ASSUME NEW ag \in Agenda, ag[0] = << >>, NEW d \in 0..ResultsSeconds
    PROVE  LET ag2 == OneSecondLater(ag)
           IN  /\ Holds(ag2, d, "results") => d + 1 \in 0..ResultsSeconds /\ Holds(ag, d + 1, "results")
               /\ d + 1 \in 0..ResultsSeconds /\ ResultsBy(ag, d + 1) => ResultsBy(ag2, d)
  <1> DEFINE ag2 == OneSecondLater(ag)
  <1>0. ResultsSeconds = 6
    BY DEF ResultsSeconds
  <1>1. \A e \in 0..6 : ag2[e] = IF e = 6 THEN << >> ELSE ag[e + 1]
    BY <1>0 DEF OneSecondLater
  <1> HIDE DEF ag2
  <1>2. ASSUME Holds(ag2, d, "results")
        PROVE  d + 1 \in 0..6 /\ Holds(ag, d + 1, "results")
    <2>1. d # 6
      BY <1>0, <1>1, <1>2 DEF Holds
    <2>2. ag2[d] = ag[d + 1]
      BY <1>0, <1>1, <2>1
    <2>3. Holds(ag, d + 1, "results")
      BY <1>2, <2>2 DEF Holds
    <2> QED
      BY <1>0, <2>1, <2>3
  <1>3. ASSUME d + 1 \in 0..6, ResultsBy(ag, d + 1)
        PROVE  ResultsBy(ag2, d)
    <2>1. PICK e \in 0..(d + 1) : Holds(ag, e, "results")
      BY <1>3 DEF ResultsBy
    <2>2. e # 0
      BY <2>1 DEF Holds
    <2>3. e - 1 \in 0..d /\ e - 1 \in 0..6 /\ e - 1 # 6 /\ (e - 1) + 1 = e
      BY <1>0, <1>3, <2>1, <2>2
    <2>4. ag2[e - 1] = ag[e]
      BY <1>1, <2>3
    <2>5. Holds(ag2, e - 1, "results")
      BY <2>1, <2>4 DEF Holds
    <2> QED
      BY <2>3, <2>5 DEF ResultsBy
  <1> QED
    BY <1>0, <1>2, <1>3 DEF ag2

LEMMA TickBehind ==
    ASSUME IndInv, Tick, NEW p \in Players, Behind(p)
    PROVE  Behind(p)'
  <1> DEFINE q == Opponent(p)
  <1>1. /\ p \in Players /\ q \in Players
        /\ \A x \in Players : /\ agenda[x] \in Agenda /\ agenda[x][0] = << >>
                              /\ agenda'[x] = OneSecondLater(agenda[x])
    BY Opposite DEF IndInv, MatchSound, AgendasSound, Tick
  <1>2. ASSUME NEW d \in 0..ResultsSeconds, Holds(agenda'[q], d, "results")
        PROVE  ResultsBy(agenda'[p], d)
    <2>1. d + 1 \in 0..ResultsSeconds /\ Holds(agenda[q], d + 1, "results")
      BY <1>1, <1>2, ResultsCloser
    <2>2. ResultsBy(agenda[p], d + 1)
      BY <2>1 DEF Behind
    <2> QED
      BY <1>1, <2>1, <2>2, ResultsCloser
  <1> QED
    BY <1>2 DEF Behind

\* The winner's device has put its results off, those of the loser's are new or were there.
LEMMA StepBehind ==
    ASSUME IndInv, NEW p \in Players, Behind(p), Timed(p)',
           Adds(agenda[p], agenda'[p]), OnlyLast(agenda[Opponent(p)], agenda'[Opponent(p)])
    PROVE  Behind(p)'
  <1> DEFINE q == Opponent(p)
  <1>0. ResultsSeconds = 6
    BY DEF ResultsSeconds
  <1>1. PICK r \in 0..ResultsSeconds : Holds(agenda'[p], r, "results")
    BY DEF Timed, Timetable
  <1>2. ASSUME NEW d \in 0..ResultsSeconds, Holds(agenda'[q], d, "results")
        PROVE  ResultsBy(agenda'[p], d)
    <2>1. CASE d = ResultsSeconds
      BY <1>1, <2>1 DEF ResultsBy
    <2>2. CASE d # ResultsSeconds
      <3>1. d \in 0..(ResultsSeconds - 1)
        BY <1>0, <2>2
      <3>2. ResultsBy(agenda[p], d)
        BY <1>2, <3>1 DEF Behind, OnlyLast
      <3>3. PICK e \in 0..d : Holds(agenda[p], e, "results")
        BY <3>2 DEF ResultsBy
      <3>4. e \in 0..ResultsSeconds
        BY <1>0, <3>3
      <3> QED
        BY <3>3, <3>4 DEF Adds, ResultsBy
    <2> QED
      BY <2>1, <2>2
  <1> QED
    BY <1>2 DEF Behind

LEMMA LoserBehindStep ==
    ASSUME OnePick, Prompt, WinInv, WinInv', LoserCalm, LoserBehind, Next
    PROVE  LoserBehind'
  <1> SUFFICES ASSUME NEW p \in Players, Beats(p)', judged'[p] # {}, shown'[p] = "nothing", ~cut'
               PROVE  Behind(p)'
    BY DEF LoserBehind
  <1> DEFINE q == Opponent(p)
  <1>0. Grounds /\ RoundInv /\ EndsFull /\ IndInv /\ RoundTaps /\ Screens /\ q \in Players /\ p # q
    BY Opposite DEF WinInv, Grounds, LossInv, RoundInv
  <1>1. IndInv' /\ RoundTaps'
    BY DEF WinInv, Grounds, LossInv, RoundInv
  <1>2. Beats(p) /\ shown[p] = "nothing" /\ ~cut
    BY <1>0, <1>1, BeatsKept, NothingShown, CutKept
  <1>3. CASE judged[p] = {}
    <2>1. UpdateGame(p) /\ Calm(agenda[q])
      BY <1>0, <1>2, <1>3, FirstVerdict DEF LoserCalm
    <2>2. agenda'[q] = agenda[q]
      BY <1>0, <2>1, Updated
    <2> QED
      BY <2>1, <2>2 DEF Calm, Behind
  <1>4. CASE judged[p] # {}
    <2>1. Behind(p) /\ Timed(p)'
      BY <1>2, <1>4 DEF LoserBehind, WinInv, TimedWins
    <2>2. CASE Tick
      BY <1>0, <2>1, <2>2, TickBehind
    <2>3. CASE ~Tick
      <3>1. ~RunResults(p)
        <4> SUFFICES ASSUME RunResults(p) PROVE FALSE
          OBVIOUS
        <4>1. shown'[p] = Announced(game[p])
          BY <1>0, <1>2, <1>4, ResultsShown
        <4> QED
          BY <1>0, <4>1, Announces
      <3>2. Adds(agenda[p], agenda'[p]) /\ OnlyLast(agenda[q], agenda'[q])
        BY <1>0, <2>3, <3>1, StepResults
      <3> QED
        BY <1>0, <2>1, <3>2, StepBehind
    <2> QED
      BY <2>2, <2>3
  <1> QED
    BY <1>3, <1>4

-----------------------------------------------------------------------------
(***************************************************************************)
(* A loser's device whose view names the winner has told its controller,   *)
(* or is about to.                                                         *)
(***************************************************************************)
Knows(g, s, p) == IF s = << >> THEN g.winner = p ELSE s[Len(s)].winner = p
LoserTold ==
    \A p \in Players :
        LET q == Opponent(p)
        IN  Beats(p) /\ shown[q] = "nothing" /\ seen[q].winner = p => Knows(game[q], cb[q], p)

LEMMA TellsNamed ==
    ASSUME NEW s \in Seq(Game), NEW p, NEW d \in Game, d.winner = p, NEW g
    PROVE  Knows(g, s \o <<d>>, p)
  <1>1. s \o <<d>> # << >> /\ (s \o <<d>>)[Len(s \o <<d>>)] = d
    OBVIOUS
  <1> QED
    BY <1>1 DEF Knows

LEMMA KnowsNext ==
    ASSUME NEW s \in Seq(Game), s # << >>, NEW p, NEW g, Knows(g, s, p), NEW g2
    PROVE  /\ Tail(s) \in Seq(Game)
           /\ Tail(s) = << >> => Head(s).winner = p
           /\ Tail(s) # << >> => Knows(g2, Tail(s), p)
  <1> DEFINE u == Tail(s)
  <1>1. /\ u \in Seq(Game) /\ Len(u) = Len(s) - 1 /\ Len(s) \in Nat
        /\ \A i \in 1..Len(u) : u[i] = s[i + 1]
    BY HeadTailProperties
  <1>2. Head(s) = s[1]
    OBVIOUS
  <1> HIDE DEF u
  <1>3. u = << >> => Len(s) = 1
    BY <1>1, EmptySeq
  <1>4. u # << >> => Len(u) \in 1..Len(u) /\ Len(u) + 1 = Len(s)
    BY <1>1, EmptySeq
  <1>5. u # << >> => u[Len(u)] = s[Len(s)]
    BY <1>1, <1>4
  <1>6. s[Len(s)].winner = p
    BY DEF Knows
  <1>7. u = << >> => Head(s).winner = p
    BY <1>2, <1>3, <1>6
  <1>8. u # << >> => Knows(g2, u, p)
    BY <1>5, <1>6 DEF Knows
  <1> QED
    BY <1>1, <1>7, <1>8 DEF u

\* A device that sees somebody named is past the loading screen.
NamedPlay == \A x \in Players : seen[x].winner # NoOne => screen[x] # "loading"

LEMMA NamedPlaying == RoundInv /\ Screens => NamedPlay
  <1> SUFFICES ASSUME RoundInv, Screens, NEW x \in Players, seen[x].winner # NoOne, screen[x] = "loading"
               PROVE  FALSE
    BY DEF NamedPlay
  <1>1. x = Requester
    BY DEF Screens, Players
  <1>2. server.state = "starting" /\ own[x] = << >>
    BY <1>1 DEF RoundInv, StartSound
  <1>3. Over(x)
    BY DEF RoundInv, CopiesSound, Local, Closing
  <1>4. Waiting(x) = {}
    <2>1. at[x] \in Seq(Nat)
      BY RoundTyped DEF RoundInv
    <2>2. Len(at[x]) \in Nat /\ Len(own[x]) = 0
      BY <1>2, <2>1
    <2> QED
      BY <2>2 DEF Waiting
  <1> QED
    BY <1>2, <1>3, <1>4 DEF Over

\* Whoever is named has judged, so that both players have picked before.
LEMMA NamedBeats ==
    ASSUME OnePick, Grounds, Next, NEW p \in Players, Beats(p)', NEW x \in Players, seen'[x].winner = p
    PROVE  Beats(p)
  <1>1. Grounds'
    BY GroundsStep
  <1>2. Follows'
    BY <1>1, GroundsFollow, PTL
  <1>3. seen'[x] \in Kept'
    BY <1>1 DEF Grounds, SeenSound
  <1>4. Earned(p)'
    BY <1>2, <1>3 DEF Follows, AllDecided, Decided
  <1>5. judged'[p] # {}
    BY <1>4 DEF Earned
  <1> QED
    BY <1>1, <1>5, BeatsKept DEF Grounds, LossInv, RoundInv

LEMMA LoserToldStep ==
    ASSUME OnePick, Grounds, LoserTold, Next
    PROVE  LoserTold'
  <1> SUFFICES ASSUME NEW p \in Players, Beats(p)', shown'[Opponent(p)] = "nothing",
                      seen'[Opponent(p)].winner = p
               PROVE  Knows(game'[Opponent(p)], cb'[Opponent(p)], p)
    BY DEF LoserTold
  <1> DEFINE q == Opponent(p)
  <1>0. /\ RoundInv /\ EndsFull /\ IndInv /\ RoundTaps /\ Screens
        /\ q \in Players /\ p # NoOne /\ cb[q] \in Seq(Game)
    BY Opposite, RoundTyped DEF Grounds, LossInv, RoundInv
  <1>1. RoundInv' /\ Screens' /\ seen'[q] \in Game
    <2>1. Grounds'
      BY GroundsStep
    <2>2. seen'[q] \in Kept'
      BY <1>0, <2>1 DEF Grounds, SeenSound
    <2> QED
      BY <2>1, <2>2 DEF Grounds, LossInv, Kept, SoundDocs
  <1>2. Beats(p) /\ shown[q] = "nothing"
    BY <1>0, NamedBeats, NothingShown
  <1>3. screen'[q] # "loading"
    <2>1. NamedPlay'
      BY <1>1, NamedPlaying, PTL
    <2> QED
      BY <1>0, <2>1 DEF NamedPlay
  <1>4. screen'[q] = "game"
    BY <1>0, <1>1, <1>3 DEF Screens
  <1>5. screen[q] = "game" \/ (Join /\ q = Requester)
    BY <1>0, <1>2, <1>4, ScreensMove DEF ScreenMoves
  <1>6. screen[q] = "game" => Alive(q)
    BY DEF Alive
  <1>7. ASSUME Join, q = Requester PROVE Knows(game'[q], cb'[q], p)
    <2>1. cb'[q] = <<seen'[q]>>
      BY <1>0, <1>7, JoinHears
    <2> QED
      BY <2>1 DEF Knows
  <1>8. CASE Alive(q) /\ ~(Join /\ q = Requester)
    <2>1. ASSUME NEW s \in Seq(Game), cb'[q] = s \o Told(q, seen'[q]), seen'[q] # seen[q]
          PROVE  Knows(game'[q], cb'[q], p)
      <3>1. cb'[q] = s \o <<seen'[q]>>
        BY <1>0, <1>8, <2>1, Untold
      <3> QED
        BY <1>1, <3>1, TellsNamed
    <2>2. ASSUME NEW s \in Seq(Game), cb'[q] = s \o Told(q, seen'[q]), seen'[q] = seen[q]
          PROVE  cb'[q] = s /\ Knows(game[q], cb[q], p)
      <3>1. cb'[q] = s
        BY <1>0, <2>2, Untold
      <3>2. seen[q].winner = p
        BY <2>2
      <3> QED
        BY <1>2, <3>1, <3>2 DEF LoserTold
    <2>3. CASE cb'[q] = cb[q] \o Told(q, seen'[q]) /\ ~UpdateGame(q)
      <3>1. game'[q] = game[q]
        BY <1>2, <1>8, <2>3, LoserGame
      <3> QED
        BY <1>0, <2>1, <2>2, <2>3, <3>1
    <2>4. CASE UpdateGame(q) /\ cb'[q] = Tail(cb[q]) \o Told(q, seen'[q])
      <3>1. cb[q] # << >> /\ (Head(cb[q]).winner = p => game'[q].winner = p)
        BY <1>2, <2>4, LoserUpdates
      <3>2. Tail(cb[q]) \in Seq(Game)
        BY <1>0, <3>1
      <3>3. CASE seen'[q] = seen[q]
        <4>1. cb'[q] = Tail(cb[q]) /\ Knows(game[q], cb[q], p)
          BY <2>2, <2>4, <3>2, <3>3
        <4>2. Tail(cb[q]) = << >> => Head(cb[q]).winner = p
          BY <1>0, <3>1, <4>1, KnowsNext
        <4>3. Tail(cb[q]) # << >> => Knows(game'[q], Tail(cb[q]), p)
          BY <1>0, <3>1, <4>1, KnowsNext
        <4> QED
          BY <3>1, <4>1, <4>2, <4>3 DEF Knows
      <3> QED
        BY <2>1, <2>4, <3>2, <3>3
    <2>5. CASE cb'[q] = cb[q] \o Told(q, seen'[q]) /\ UpdateGame(q)
      <3>1. cb'[q] = Tail(cb[q]) \o Told(q, seen'[q])
        <4>1. Send(q, CheckedWrites(Head(cb[q]), VerdictOf(q, Head(cb[q]))), Tail(cb[q]))
          BY <2>5 DEF UpdateGame
        <4> QED
          BY <1>0, <4>1, SendTells
      <3> QED
        BY <2>4, <2>5, <3>1
    <2> QED
      BY <1>0, <1>8, <2>3, <2>4, <2>5, StepHears DEF Hears
  <1> QED
    BY <1>5, <1>6, <1>7, <1>8

-----------------------------------------------------------------------------
(***************************************************************************)
(* Three seconds before the winner's results everything names the winner   *)
(* that the loser's device is still to see, and its game.                  *)
(***************************************************************************)
Settled(p) ==
    LET q == Opponent(p)
    IN  /\ server.winner = p /\ base[q].winner = p /\ \A i \in DOMAIN feed[q] : feed[q][i].winner = p
        /\ seen[q].winner = p /\ \A i \in DOMAIN cb[q] : cb[q][i].winner = p
        /\ game[q].winner = p

\* A view names the winner when the version sent does.
NamedBases ==
    \A p, x \in Players :
        Beats(p) /\ base[x].winner = p => Overlay(base[x], own[x]).winner = p

LEMMA BasesNamed == RoundInv /\ AllDecided => NamedBases
  <1> SUFFICES ASSUME RoundInv, AllDecided, NEW p \in Players, NEW x \in Players, Beats(p), base[x].winner = p
               PROVE  Overlay(base[x], own[x]).winner = p
    BY DEF NamedBases
  <1>0. IndInv
    BY DEF RoundInv
  <1>1. base[x] \in Game /\ own[x] \in Seq(Write)
    BY <1>0, RoundTyped
  <1>2. \A d \in Kept : d.winner \in {NoOne, p}
    BY DEF AllDecided, Decided
  <1>3. \A i \in DOMAIN own[x] : own[x][i].doc.winner \in {NoOne, p}
    BY <1>0, <1>2, SoundKept DEF Kept
  <1>4. \A i \in DOMAIN own[x] : ~own[x][i].whole => own[x][i].doc.winner = NoOne
    BY DEF RoundInv, OwnSound, WriteSound, updateGameStatus, Created
  <1>5. HasTo(WonBy(p), base[x], own[x], Len(own[x]))
    BY <1>1 DEF HasTo, WonBy
  <1>6. Overlay(base[x], own[x]) \in WonBy(p)
    BY <1>1, <1>3, <1>4, <1>5, OverlayNames
  <1> QED
    BY <1>6 DEF WonBy

\* The backend does not forget the winner.
LEMMA ServerNamed ==
    ASSUME OnePick, Grounds, Next, NEW p \in Players, Beats(p), server.winner = p
    PROVE  server'.winner = p
  <1>0. RoundInv /\ LossInv /\ AllDecided /\ OwnNamed /\ server \in Game
    BY GroundsFollow, RoundTyped DEF Grounds, LossInv, RoundInv, Follows
  <1>1. ASSUME NEW z \in Players, Commit(z) PROVE server'.winner = p
    <2>1. server \in WonBy(p)
      BY <1>0 DEF WonBy
    <2>2. server' \in WonBy(p)
      BY <1>0, <1>1, <2>1, CommitNames
    <2> QED
      BY <2>2 DEF WonBy
  <1>2. ASSUME NEW z \in Players, Ack(z) \/ \E k \in 1..Len(feed[z]) : Watch(z, k)
        PROVE  server' = server
    BY <1>2 DEF Ack, Watch
  <1>3. ASSUME NEW z \in Players, NEW w, Opens(z, w) \/ Closes(z, w) PROVE server' = server
    BY <1>3 DEF Opens, Closes, Issued, Appends
  <1> QED
    BY <1>0, <1>1, <1>2, <1>3, StepKinds DEF Silent

LEMMA SettledStep ==
    ASSUME OnePick, Grounds, Next, NEW p \in Players, Beats(p), Settled(p)
    PROVE  Settled(p)'
  <1> DEFINE q == Opponent(p)
  <1>0. q \in Players /\ IndInv /\ p # NoOne
    BY Opposite DEF Grounds, LossInv, RoundInv
  <1>1. Grounds' /\ Follows' /\ Beats(p)' /\ RoundInv'
    BY ViewsWon
  <1>2. server'.winner = p
    BY ServerNamed DEF Settled
  <1>3. base'[q].winner = p
    BY <1>0, StepVersions DEF Settled
  <1>4. \A i \in DOMAIN feed'[q] : feed'[q][i].winner = p
    BY <1>0, <1>2, StepVersions DEF Settled
  <1>5. seen'[q].winner = p
    <2>1. NamedBases'
      BY <1>1, BasesNamed, PTL DEF Follows
    <2>2. Overlay(base'[q], own'[q]).winner = p
      BY <1>0, <1>1, <1>3, <2>1 DEF NamedBases
    <2> QED
      BY <1>0, <2>2, StepTold DEF Settled
  <1>6. \A i \in DOMAIN cb'[q] : cb'[q][i].winner = p
    BY <1>0, <1>5, StepTold DEF Settled
  <1>7. game'[q].winner = p
    <2>1. CASE game'[q] = game[q]
      BY <2>1 DEF Settled
    <2>2. CASE UpdateGame(q)
      BY <2>2, LoserUpdates DEF Settled
    <2>3. CASE q = Requester /\ Join
      <3>1. base[q] \in Game /\ game \in [Players -> Game]
        BY <1>0, RoundTyped
      <3>2. game' = [game EXCEPT ![q] = [base[q] EXCEPT !.state = "inprogress"]]
        BY <2>3 DEF Join
      <3> QED
        BY <1>0, <3>1, <3>2 DEF Game, Settled
    <2> QED
      BY <2>1, <2>2, <2>3, LoserGame
  <1> QED
    BY <1>2, <1>3, <1>4, <1>5, <1>6, <1>7 DEF Settled

\* It settles as a second passes, when all has been delivered.
LEMMA TickSettles ==
    ASSUME OnePick, Grounds, Prompt, LoserTold, Tick, NEW p \in Players, Beats(p),
           shown[Opponent(p)] = "nothing", Timed(p),
           ~ResultsBy(agenda[p], 3), ResultsBy(agenda'[p], 3)
    PROVE  Settled(p)'
  <1> DEFINE q == Opponent(p)
             ag == agenda[p]
  <1>0. q \in Players /\ RoundInv /\ IndInv /\ ag \in Agenda
    BY Opposite DEF Grounds, LossInv, RoundInv, IndInv, MatchSound, AgendasSound
  <1>1. /\ cb[p] = << >> /\ ag[0] = << >> /\ seen[p] = server
        /\ feed[q] = << >> /\ cb[q] = << >> /\ base[q] = server /\ seen[q] = server
    BY <1>0, TickViews
  <1>2. Holds(ag, 4, "results")
    <2>1. PICK e \in 0..3 : Holds(agenda'[p], e, "results")
      BY DEF ResultsBy
    <2>2. agenda'[p] = OneSecondLater(ag)
      BY DEF Tick
    <2>3. e \in 0..ResultsSeconds
      BY DEF ResultsSeconds
    <2>4. Holds(ag, e + 1, "results")
      BY <1>0, <1>1, <2>1, <2>2, <2>3, ResultsCloser
    <2>5. e + 1 \in 0..3 \/ e + 1 = 4
      OBVIOUS
    <2> HIDE DEF ag
    <2> QED
      BY <2>4, <2>5 DEF ResultsBy, ag
  <1>3. PICK r \in 0..ResultsSeconds : Timetable(ag, cb[p], game[p], seen[p], p, r)
    BY DEF Timed
  <1>4. r = 4
    <2>1. Holds(ag, r, "results") /\ Punctual(ag, r)
      BY <1>3 DEF Timetable
    <2>2. r \notin 0..3
      BY <2>1 DEF ResultsBy
    <2>3. PICK i \in DOMAIN ag[4] : ag[4][i].kind = "results"
      BY <1>2 DEF Holds
    <2>4. OnTime(ag[4][i], 4, r)
      BY <2>1, <2>3 DEF Punctual, ResultsSeconds
    <2>5. r <= 4
      BY <2>3, <2>4 DEF OnTime
    <2> QED
      BY <2>2, <2>5 DEF ResultsSeconds
  <1>5. seen[p].winner = p
    <2> SUFFICES ASSUME seen[p].winner # p PROVE FALSE
      OBVIOUS
    <2>1. Waits(ag, cb[p], game[p], p, 4)
      BY <1>3, <1>4 DEF Timetable
    <2>2. Holds(ag, 0, "check")
      BY <2>1 DEF Waits
    <2> QED
      BY <1>1, <2>2 DEF Holds
  <1>6. game[q].winner = p
    BY <1>1, <1>5 DEF LoserTold, Knows
  <1>7. Settled(p)
    BY <1>1, <1>5, <1>6 DEF Settled
  <1> QED
    BY <1>7 DEF Tick, network, history, Settled

\* The winner has been told of, is being told of, or will be in three seconds.
Nears(p) ==
    shown[p] # "nothing" \/ shown[Opponent(p)] # "nothing" \/ ResultsBy(agenda[p], 3)
LoserSettled == \A p \in Players : Beats(p) /\ ~cut /\ Nears(p) => Settled(p)

\* What the loser's device has announced.
LoserShown ==
    \A p \in Players : Beats(p) /\ ~cut =>
        /\ shown[Opponent(p)] \in {"nothing", p}
        /\ shown[Opponent(p)] # "nothing" => judged[p] # {}

LEMMA ResultsDue ==
    ASSUME IndInv, NEW x \in Players, RunResults(x)
    PROVE  agenda[x][0] # << >> /\ Holds(agenda[x], 0, "results")
  <1> DEFINE s == agenda[x][0]
  <1>1. s \in Seq(Task) /\ s # << >> /\ Head(s).kind = "results"
    BY DEF IndInv, MatchSound, AgendasSound, Agenda, ResultsSeconds, RunResults, Due
  <1> HIDE DEF s
  <1>2. 1 \in DOMAIN s /\ s[1].kind = "results"
    BY <1>1
  <1> QED
    BY <1>1, <1>2 DEF Holds, s

\* The loser's results are due only when the winner's are, or were.
LEMMA LoserDue ==
    ASSUME IndInv, LoserCalm, LoserBehind, NEW p \in Players, Beats(p), ~cut, RunResults(Opponent(p))
    PROVE  judged[p] # {} /\ Nears(p)
  <1> DEFINE q == Opponent(p)
  <1>1. agenda[q][0] # << >> /\ Holds(agenda[q], 0, "results")
    BY Opposite, ResultsDue
  <1>2. judged[p] # {}
    BY <1>1 DEF LoserCalm, Calm
  <1>3. CASE shown[p] # "nothing"
    BY <1>2, <1>3 DEF Nears
  <1>4. CASE shown[p] = "nothing"
    <2>1. Behind(p)
      BY <1>2, <1>4 DEF LoserBehind
    <2>2. ResultsBy(agenda[p], 0)
      BY <1>1, <2>1 DEF Behind, ResultsSeconds
    <2>3. ResultsBy(agenda[p], 3)
      BY <2>2 DEF ResultsBy
    <2> QED
      BY <1>2, <2>3 DEF Nears
  <1> QED
    BY <1>3, <1>4

SameParts == LoserCalm /\ LoserBehind /\ LoserTold /\ LoserSettled /\ LoserShown
SameInv == WinInv /\ SameParts

\* Without a second passing the end does not come nearer.
LEMMA NearsBefore ==
    ASSUME OnePick, SameInv, Next, ~Tick, NEW p \in Players, Beats(p), ~cut, Nears(p)'
    PROVE  Nears(p)
  <1> DEFINE q == Opponent(p)
  <1>0. RoundInv /\ EndsFull /\ IndInv /\ RoundTaps /\ q \in Players /\ LoserCalm /\ LoserBehind
    BY Opposite DEF SameInv, SameParts, WinInv, Grounds, LossInv, RoundInv
  <1>1. ASSUME shown'[p] # "nothing", shown[p] = "nothing" PROVE ResultsBy(agenda[p], 3)
    <2>1. RunResults(p)
      BY <1>0, <1>1, ScreensMove DEF ScreenMoves
    <2>2. Holds(agenda[p], 0, "results")
      BY <1>0, <2>1, ResultsDue
    <2> QED
      BY <2>2 DEF ResultsBy
  <1>2. ASSUME shown'[q] # "nothing", shown[q] = "nothing" PROVE Nears(p)
    <2>1. RunResults(q)
      BY <1>0, <1>2, ScreensMove DEF ScreenMoves
    <2> QED
      BY <1>0, <2>1, LoserDue
  <1>3. ASSUME ResultsBy(agenda'[p], 3) PROVE ResultsBy(agenda[p], 3)
    <2>1. PICK e \in 0..3 : Holds(agenda'[p], e, "results")
      BY <1>3 DEF ResultsBy
    <2>2. e \in 0..(ResultsSeconds - 1)
      BY DEF ResultsSeconds
    <2>3. Holds(agenda[p], e, "results")
      BY <1>0, <2>1, <2>2, StepResults DEF OnlyLast
    <2> QED
      BY <2>3 DEF ResultsBy
  <1> QED
    BY <1>1, <1>2, <1>3 DEF Nears

LEMMA LoserSettledStep ==
    ASSUME OnePick, Prompt, SameInv, Next
    PROVE  LoserSettled'
  <1> SUFFICES ASSUME NEW p \in Players, Beats(p)', ~cut', Nears(p)'
               PROVE  Settled(p)'
    BY DEF LoserSettled
  <1> DEFINE q == Opponent(p)
  <1>0. /\ Grounds /\ RoundInv /\ EndsFull /\ IndInv /\ RoundTaps /\ Screens /\ q \in Players
        /\ TasksFull /\ JudgedGame
    BY Opposite DEF SameInv, WinInv, Grounds, LossInv, RoundInv
  <1>1. Beats(p)
    <2> SUFFICES ASSUME ~Beats(p) PROVE FALSE
      OBVIOUS
    <2>1. shown'[p] = "nothing" /\ shown'[q] = "nothing" /\ agenda'[p] = EmptyAgenda
      BY <1>0, BeatsFirst
    <2>2. \A e \in 0..3 : ~Holds(EmptyAgenda, e, "results")
      BY EmptyCalm DEF Calm, ResultsSeconds
    <2> QED
      BY <2>1, <2>2 DEF Nears, ResultsBy
  <1>2. ~cut
    BY <1>0, CutKept
  <1>3. CASE Nears(p)
    BY <1>0, <1>1, <1>2, <1>3, SettledStep DEF SameInv, SameParts, LoserSettled
  <1>4. CASE ~Nears(p)
    <2>1. Tick
      BY <1>1, <1>2, <1>4, NearsBefore
    <2>2. shown' = shown
      BY <2>1 DEF Tick
    <2>3. shown[p] = "nothing" /\ shown[q] = "nothing" /\ ~ResultsBy(agenda[p], 3) /\ ResultsBy(agenda'[p], 3)
      BY <1>4, <2>2 DEF Nears
    <2>4. agenda[p] # EmptyAgenda
      <3> SUFFICES ASSUME agenda[p] = EmptyAgenda PROVE FALSE
        OBVIOUS
      <3>1. agenda'[p] = EmptyAgenda
        BY <2>1, NothingLater DEF Tick
      <3> QED
        BY <2>3, <3>1
    <2>5. judged[p] # {}
      BY <1>0, <2>4 DEF TasksFull, JudgedGame
    <2>6. Timed(p)
      BY <1>1, <1>2, <2>3, <2>5 DEF SameInv, WinInv, TimedWins
    <2> QED
      BY <1>0, <1>1, <2>1, <2>3, <2>6, TickSettles DEF SameInv, SameParts
  <1> QED
    BY <1>3, <1>4

LEMMA LoserShownStep ==
    ASSUME OnePick, SameInv, Next
    PROVE  LoserShown'
  <1> SUFFICES ASSUME NEW p \in Players, Beats(p)', ~cut', shown'[Opponent(p)] # "nothing"
               PROVE  shown'[Opponent(p)] = p /\ judged'[p] # {}
    BY DEF LoserShown
  <1> DEFINE q == Opponent(p)
  <1>0. Grounds /\ IndInv /\ RoundTaps /\ q \in Players /\ p # NoOne
    BY Opposite DEF SameInv, WinInv, Grounds, LossInv, RoundInv
  <1>1. Beats(p)
    BY <1>0, BeatsFirst
  <1>2. ~cut
    BY <1>0, CutKept
  <1>3. judged[p] \subseteq judged'[p]
    BY <1>0, JudgedKept
  <1>4. CASE shown'[q] = shown[q]
    BY <1>1, <1>2, <1>3, <1>4 DEF SameInv, SameParts, LoserShown
  <1>5. CASE RunResults(q) /\ shown'[q] = Announced(game[q])
    <2>1. judged[p] # {} /\ Nears(p)
      BY <1>0, <1>1, <1>2, <1>5, LoserDue DEF SameInv, SameParts
    <2>2. game[q].winner = p
      BY <1>1, <1>2, <2>1 DEF SameInv, SameParts, LoserSettled, Settled
    <2> QED
      BY <1>0, <1>3, <1>5, <2>1, <2>2 DEF Announced
  <1> QED
    BY <1>0, <1>4, <1>5, ScreensMove DEF ScreenMoves

-----------------------------------------------------------------------------
(***************************************************************************)
(* Both devices announce the winner.                                       *)
(***************************************************************************)
LEMMA SameInit ==
    ASSUME Init
    PROVE  SameInv
  <1>1. \A p \in Players : ~Beats(p)
    BY DEF Init, Beats, Picked
  <1>2. SameParts
    BY <1>1 DEF SameParts, LoserCalm, LoserBehind, LoserTold, LoserSettled, LoserShown
  <1> QED
    BY <1>2, WinInit DEF SameInv

LEMMA SameStutter ==
    ASSUME SameParts, UNCHANGED vars
    PROVE  SameParts'
  <1>0. /\ UNCHANGED <<server, base, feed, seen, cb, game, agenda, shown, judged, cut>>
        /\ \A p \in Players : Beats(p)' <=> Beats(p)
    BY DEF vars, network, device, history, Beats, Picked
  <1>1. LoserCalm'
    BY <1>0 DEF SameParts, LoserCalm
  <1>2. \A p \in Players : Behind(p)' <=> Behind(p)
    BY <1>0 DEF Behind
  <1>3. LoserBehind'
    BY <1>0, <1>2 DEF SameParts, LoserBehind
  <1>4. LoserTold'
    BY <1>0 DEF SameParts, LoserTold
  <1>5. \A p \in Players : (Settled(p)' <=> Settled(p)) /\ (Nears(p)' <=> Nears(p))
    BY <1>0 DEF Settled, Nears
  <1>6. LoserSettled'
    BY <1>0, <1>5 DEF SameParts, LoserSettled
  <1>7. LoserShown'
    BY <1>0 DEF SameParts, LoserShown
  <1> QED
    BY <1>1, <1>3, <1>4, <1>6, <1>7 DEF SameParts

LEMMA SameStep ==
    ASSUME OnePick, Prompt, SameInv, [Next]_vars
    PROVE  SameInv'
  <1>1. WinInv'
    BY WinStep DEF SameInv
  <1>2. CASE Next
    <2>1. LoserCalm' /\ LoserTold'
      BY <1>2, LoserCalmStep, LoserToldStep DEF SameInv, SameParts, WinInv
    <2>2. LoserBehind'
      BY <1>1, <1>2, LoserBehindStep DEF SameInv, SameParts
    <2>3. LoserSettled' /\ LoserShown'
      BY <1>2, LoserSettledStep, LoserShownStep
    <2> QED
      BY <1>1, <2>1, <2>2, <2>3 DEF SameInv, SameParts
  <1>3. CASE UNCHANGED vars
    BY <1>1, <1>3, SameStutter DEF SameInv
  <1> QED
    BY <1>2, <1>3

\* Where somebody has judged, and the two moves differ, one of them won.
LEMMA SomebodyWon ==
    ASSUME OneRound, RoundTaps, IndInv, NEW x \in Players, judged[x] # {}
    PROVE  Beats(x) \/ Beats(Opponent(x))
  <1> DEFINE y == Opponent(x)
  <1>0. y \in Players /\ Opponent(y) = x /\ y # x
    BY Opposite
  <1>1. PICK m \in Picked(x), o \in Picked(y) : TRUE
    BY DEF IndInv, JudgedSound
  <1>2. m \in PickSet /\ o \in PickSet
    BY <1>0, <1>1 DEF RoundTaps, Choices
  <1>3. m # o
    BY <1>0, <1>1 DEF RoundTaps, Choices, OneRound, Opponent, Players
  <1>4. Verdict(m, o) = "win" \/ Verdict(o, m) = "win"
    BY <1>2, <1>3 DEF PickSet, Verdict, LessThan
  <1> QED
    BY <1>0, <1>1, <1>4 DEF Beats

LEMMA SameShows ==
    ASSUME OneRound, SameInv
    PROVE  SameResult
  <1> SUFFICES ASSUME NEW x \in Players, ~cut, shown[x] # "nothing"
               PROVE  \E w \in Players : shown[x] = w /\ "win" \in judged[w]
    BY DEF SameResult
  <1> DEFINE y == Opponent(x)
  <1>0. /\ Grounds /\ IndInv /\ RoundTaps /\ Screens /\ AllDecided
        /\ y \in Players /\ Opponent(y) = x
    BY Opposite, GroundsFollow DEF SameInv, WinInv, Grounds, LossInv, RoundInv, Follows
  <1>1. judged[x] # {}
    BY <1>0 DEF Screens
  <1>2. ASSUME NEW p \in Players, Beats(p), judged[p] # {} PROVE "win" \in judged[p]
    BY <1>0, <1>2 DEF AllDecided, Decided
  <1>3. CASE Beats(x)
    BY <1>1, <1>2, <1>3 DEF SameInv, WinInv, ShownOwn
  <1>4. CASE Beats(y)
    BY <1>0, <1>2, <1>4 DEF SameInv, SameParts, LoserShown
  <1> QED
    BY <1>0, <1>1, <1>3, <1>4, SomebodyWon

\* SameResult, in every match in which each player picks once, the moves differ and nobody
\* leaves, on a network faster than a second: whatever the two devices judge, write and are
\* called with, and in whichever order, both announce the player who won on the moves, as
\* long as no animation is cut short.  The loser's device shows its results no earlier than
\* the winner's, which has named its player three seconds before.
THEOREM ResultsAgree ==
    ASSUME OneRound, Prompt
    PROVE  Spec => []SameResult
  <1>1. Init => SameInv
    BY SameInit
  <1>2. SameInv /\ [Next]_vars => SameInv'
    BY SameStep DEF OneRound
  <1>3. SameInv => SameResult
    BY SameShows
  <1> QED
    BY <1>1, <1>2, <1>3, PTL DEF Spec
=============================================================================
