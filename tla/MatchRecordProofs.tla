------------------------- MODULE MatchRecordProofs -------------------------
(***************************************************************************)
(* A match in which each player picks once: whatever the two devices write *)
(* over each other, the document is the record of one round (it implements *)
(* MatchRecord), and a device announces a defeat on the moves only.        *)
(***************************************************************************)
EXTENDS GameMatchProofs

USE PlayersAssumption, ChoicesAssumption, SettingAssumption, BoundsAssumption

\* Each player picks at most once, nobody leaves and no write is sent twice.  The
\* network may be slow, and animations cut short.
OnePick == MaxTaps <= 1 /\ MaxBreaks = 0 /\ Leavers = {} /\ Killable = {}

\* And the moves differ.
OneRound == OnePick /\ RequesterChoices \cap AcceptorChoices = {}

-----------------------------------------------------------------------------
(***************************************************************************)
(* The invariant.  A document is full when it holds both moves.  Writes    *)
(* wait until the backend has committed them.                              *)
(***************************************************************************)
NotIdle(d, p) == d.moves[p] # "idle"
Full(d) == \A p \in Players : NotIdle(d, p)
Closing(d) == d.state = "finished" \/ d.winner # NoOne

IsPick(w) == w.whole /\ w.doc.state = "inprogress"
IsFinish(w) == w.doc.state = "finished" /\ w.doc.winner = NoOne

Waiting(x) == (Len(at[x]) + 1)..Len(own[x])
PickWaits(x) == \E i \in Waiting(x) : IsPick(own[x][i])
FullPickWaits(x) == \E i \in Waiting(x) : IsPick(own[x][i]) /\ Full(own[x][i].doc)
Over(x) == server.state = "finished" \/ \E i \in Waiting(x) : IsFinish(own[x][i])

\* Each player has one move, and the dialog to leave stays closed.
RoundTaps == \A p \in Players : Len(taps[p]) <= 1 /\ Picked(p) \subseteq Choices(p) /\ ~alert[p]

\* Only a player's own pick can wipe out the other one's.
Unerased(x, d) ==
    taps[x] = << >> /\ NotIdle(d, Opponent(x)) => NotIdle(server, Opponent(x))

\* What the backend has, or had.
Past(d) ==
    /\ Full(d) => Full(server)
    /\ Closing(d) => server.state = "finished"
    /\ server.state = "starting" => d.state = "starting"
    /\ \A x \in Players : (PickWaits(x) => ~NotIdle(d, x)) /\ Unerased(x, d)

ServerSound ==
    /\ server.state = "starting" => \A p \in Players : ~NotIdle(server, p)
    /\ server.state = "finished" => Full(server)
    /\ Past(server)

VersionsSound == \A x \in Players : Past(base[x]) /\ \A i \in DOMAIN feed[x] : Past(feed[x][i])

\* What x's device has: it may be ahead of the backend by x's own writes.
Local(x, d) ==
    /\ Full(d) => Full(server) \/ FullPickWaits(x)
    /\ Closing(d) => Over(x)
    /\ server.state = "starting" /\ x = Acceptor => d.state = "starting"
    /\ PickWaits(Opponent(x)) => ~NotIdle(d, Opponent(x))
    /\ Unerased(x, d)

CopiesSound ==
    \A x \in Players :
        /\ Local(x, seen[x]) /\ Local(x, game[x])
        /\ \A i \in DOMAIN cb[x] : Local(x, cb[x][i])
        /\ \A i \in DOMAIN own[x] : Local(x, own[x][i].doc)

\* The writes of a device, in their order: entering the match, the pick, and games that
\* are finished and full.
WriteSound(x, i) ==
    LET w == own[x][i]
    IN  /\ w.whole =>
               /\ NotIdle(w.doc, x)
               /\ \/ w.doc.state = "finished" /\ Full(w.doc)
                  \/ /\ w.doc.state = "inprogress" /\ w.doc.winner = NoOne
                     /\ \A j \in 1..(i - 1) : ~own[x][j].whole
        /\ ~w.whole => x = Requester /\ i = 1 /\ w = updateGameStatus("inprogress")
        /\ \A j \in 1..(i - 1) : Full(own[x][j].doc) => Full(w.doc)
OwnSound == \A x \in Players : \A i \in DOMAIN own[x] : WriteSound(x, i)

WaitSound(x, i) ==
    LET w == own[x][i]
    IN  /\ ~w.whole => server.state = "starting"
        /\ IsPick(w) /\ Full(w.doc) => NotIdle(server, Opponent(x))
        /\ w.doc.winner # NoOne =>
               server.state = "finished" \/ \E j \in Waiting(x) : j < i /\ IsFinish(own[x][j])
WaitingSound == \A x \in Players : \A i \in Waiting(x) : WaitSound(x, i)

\* Until the requester's first write is committed nobody has committed anything.
StartSound ==
    /\ screen[Requester] = "loading" =>
           server.state = "starting" /\ own[Requester] = << >> /\ taps[Requester] = << >>
    /\ server.state = "starting" =>
           /\ \A x \in Players : at[x] = << >>
           /\ own[Acceptor] = << >> /\ ~enabled[Acceptor]
           /\ screen[Requester] # "loading" => own[Requester] # << >> /\ ~own[Requester][1].whole

ButtonsSound ==
    \A x \in Players : enabled[x] /\ taps[x] = << >> =>
        game[x].state = "inprogress" /\ game[x].winner = NoOne

JudgedFull ==
    \A x \in Players :
        /\ judged[x] # {} => Full(game[x])
        /\ judged[x] \cap {"win", "tie"} # {} => Over(x)

\* Versions, and the writes in them, are full from some version on.
Feeds(doc, b, versionsAhead, ws, places, acks) ==
    /\ \A i \in DOMAIN places : places[i] <= Len(versionsAhead)
    /\ \A i, j \in DOMAIN places : i < j => places[i] <= places[j]
    /\ acks > 0 => places[acks] > 0
    /\ doc = IF versionsAhead = << >> THEN b ELSE versionsAhead[Len(versionsAhead)]
    /\ \A i \in DOMAIN versionsAhead : Full(b) => Full(versionsAhead[i])
    /\ \A i, j \in DOMAIN versionsAhead : i < j /\ Full(versionsAhead[i]) => Full(versionsAhead[j])
    /\ \A i \in DOMAIN places :
           /\ places[i] = 0 /\ Full(ws[i].doc) => Full(b)
           /\ places[i] > 0 => (Full(ws[i].doc) <=> Full(versionsAhead[places[i]]))
FeedSound == \A x \in Players : Feeds(server, base[x], feed[x], own[x], at[x], acked[x])

\* What a device has seen full it does not see otherwise again.
ViewFull ==
    \A x \in Players :
        /\ Full(game[x]) => Full(seen[x]) /\ \A i \in DOMAIN cb[x] : Full(cb[x][i])
        /\ \A i \in DOMAIN cb[x] : Full(cb[x][i]) =>
               Full(seen[x]) /\ \A j \in DOMAIN cb[x] : i < j => Full(cb[x][j])
        /\ Full(seen[x]) => Full(Overlay(base[x], own[x]))

RoundInv ==
    /\ IndInv
    /\ RoundTaps
    /\ ServerSound /\ VersionsSound /\ CopiesSound
    /\ OwnSound /\ WaitingSound
    /\ StartSound /\ ButtonsSound /\ JudgedFull
    /\ FeedSound /\ ViewFull

-----------------------------------------------------------------------------
(***************************************************************************)
(* Types and moves.                                                        *)
(***************************************************************************)
Typed ==
    /\ server \in Game /\ base \in [Players -> Game] /\ feed \in [Players -> Seq(Game)]
    /\ own \in [Players -> Seq(Write)]
    /\ at \in [Players -> Seq(Nat)] /\ acked \in [Players -> Nat]
    /\ \A p \in Players : acked[p] <= Len(at[p]) /\ Len(at[p]) <= Len(own[p])
    /\ seen \in [Players -> Game] /\ cb \in [Players -> Seq(Game)]
    /\ game \in [Players -> Game] /\ enabled \in [Players -> BOOLEAN]
    /\ taps \in [Players -> Seq(PickSet)]
    /\ judged \in [Players -> SUBSET {"win", "lose", "tie"}]

LEMMA IndTyped == IndInv => Typed
  <1> SUFFICES ASSUME IndInv PROVE Typed
    OBVIOUS
  <1>1. SoundDocs(PickedBy, EarnedBy) \subseteq Game
    BY DEF SoundDocs
  <1>2. Seq(SoundDocs(PickedBy, EarnedBy)) \subseteq Seq(Game)
    BY <1>1, SoundSeqs
  <1>3. cb \in [Players -> Seq(Game)]
    BY <1>2 DEF IndInv, MatchSound, QueuesSound
  <1> QED
    BY <1>3, QueuesTyped DEF Typed, IndInv, MatchSound, NetworkSound, ViewsSound, DevicesTyped, HistoryTyped

LEMMA RoundTyped ==
    ASSUME IndInv
    PROVE  /\ server \in Game /\ base \in [Players -> Game] /\ feed \in [Players -> Seq(Game)]
           /\ own \in [Players -> Seq(Write)]
           /\ at \in [Players -> Seq(Nat)] /\ acked \in [Players -> Nat]
           /\ \A p \in Players : acked[p] <= Len(at[p]) /\ Len(at[p]) <= Len(own[p])
           /\ seen \in [Players -> Game] /\ cb \in [Players -> Seq(Game)]
           /\ game \in [Players -> Game] /\ enabled \in [Players -> BOOLEAN]
           /\ taps \in [Players -> Seq(PickSet)]
           /\ judged \in [Players -> SUBSET {"win", "lose", "tie"}]
  BY IndTyped DEF Typed

LEMMA Opposite ==
    ASSUME NEW x \in Players
    PROVE  /\ Opponent(x) \in Players /\ Opponent(x) # x /\ Opponent(Opponent(x)) = x
           /\ Players = {x, Opponent(x)}
  BY DEF Players, Opponent

\* A move that was picked is the one its player has.
LEMMA OneMove ==
    ASSUME IndInv, RoundTaps, NEW p \in Players, NEW m \in Picked(p)
    PROVE  taps[p] # << >> /\ m = taps[p][1] /\ m # "idle"
  <1>1. taps[p] \in Seq(PickSet) /\ Len(taps[p]) <= 1
    BY RoundTyped DEF RoundTaps
  <1>2. PICK i \in DOMAIN taps[p] : m = taps[p][i]
    BY DEF Picked
  <1>3. i = 1 /\ taps[p] # << >> /\ taps[p][1] \in PickSet
    BY <1>1, <1>2
  <1> QED
    BY <1>2, <1>3 DEF PickSet

LEMMA OneMoveKept ==
    ASSUME IndInv, RoundTaps, NEW d \in SoundDocs(PickedBy, EarnedBy), NEW p \in Players, NotIdle(d, p)
    PROVE  taps[p] # << >> /\ d.moves[p] = taps[p][1]
  <1>1. d.moves[p] \in Picked(p)
    BY DEF SoundDocs, NotIdle, PickedBy
  <1> QED
    BY <1>1, OneMove

\* What is kept of the documents anywhere but in the local games is sound.
LEMMA SoundKept ==
    ASSUME IndInv, NEW x \in Players
    PROVE  /\ server \in SoundDocs(PickedBy, EarnedBy)
           /\ base[x] \in SoundDocs(PickedBy, EarnedBy)
           /\ \A i \in DOMAIN feed[x] : feed[x][i] \in SoundDocs(PickedBy, EarnedBy)
           /\ \A i \in DOMAIN cb[x] : cb[x][i] \in SoundDocs(PickedBy, EarnedBy)
           /\ \A i \in DOMAIN own[x] : own[x][i].doc \in SoundDocs(PickedBy, EarnedBy)
  <1> DEFINE SD == SoundDocs(PickedBy, EarnedBy)
             SW == SoundWrites(PickedBy, EarnedBy)
  <1>1. server \in SD /\ base[x] \in SD /\ feed[x] \in Seq(SD) /\ cb[x] \in Seq(SD) /\ own[x] \in Seq(SW)
    BY DEF IndInv, MatchSound, QueuesSound
  <1>2. \A w \in SW : w.doc \in SD
    BY DEF SoundWrites
  <1> HIDE DEF SD, SW
  <1>3. \A i \in DOMAIN own[x] : own[x][i] \in SW
    BY <1>1
  <1> QED
    BY <1>1, <1>2, <1>3 DEF SD

\* Where a moved player's move is to be seen, that player has picked.
LEMMA SeenPicked ==
    ASSUME IndInv, RoundTaps, NEW x \in Players, NEW p \in Players, taps[p] = << >>
    PROVE  /\ ~NotIdle(server, p) /\ ~NotIdle(base[x], p) /\ ~NotIdle(game[x], p)
           /\ \A i \in DOMAIN feed[x] : ~NotIdle(feed[x][i], p)
           /\ \A i \in DOMAIN cb[x] : ~NotIdle(cb[x][i], p)
           /\ \A i \in DOMAIN own[x] : ~NotIdle(own[x][i].doc, p)
  <1>1. ~NotIdle(game[x], p)
    <2>1. game[x].moves[p] \in Picked(p) \cup {"idle"}
      BY DEF IndInv, MatchSound, GamesSound, SoundGame, PickedBy
    <2> QED
      BY <2>1, OneMove DEF NotIdle
  <1> QED
    BY <1>1, SoundKept, OneMoveKept

-----------------------------------------------------------------------------
(***************************************************************************)
(* Writes on top of a version.                                             *)
(***************************************************************************)
\* Each field a view shows comes from the version or from one of the writes.
LEMMA OverlayMixes ==
    ASSUME NEW b, NEW ws \in Seq(Write)
    PROVE  \E m, s, v \in {b} \cup {ws[i].doc : i \in DOMAIN ws} :
               /\ Overlay(b, ws).moves = m.moves
               /\ Overlay(b, ws).state = s.state
               /\ Overlay(b, ws).winner = v.winner
  <1> DEFINE D == {b} \cup {ws[i].doc : i \in DOMAIN ws}
  <1>1. \E m \in D : Overlay(b, ws).moves = m.moves
    <2>1. CASE \E i \in Wholes(ws) : IsLast(Wholes(ws), i)
      <3>1. (CHOOSE i \in Wholes(ws) : IsLast(Wholes(ws), i)) \in DOMAIN ws
        BY <2>1 DEF Wholes
      <3> QED
        BY <2>1, <3>1 DEF Overlay
    <2> QED
      BY <2>1 DEF Overlay
  <1>2. \E s \in D : Overlay(b, ws).state = s.state
    <2>1. ws # << >> => Len(ws) \in DOMAIN ws
      OBVIOUS
    <2> QED
      BY <2>1 DEF Overlay
  <1>3. \E v \in D : Overlay(b, ws).winner = v.winner
    <2>1. CASE \E i \in Winners(ws) : IsLast(Winners(ws), i)
      <3>1. (CHOOSE i \in Winners(ws) : IsLast(Winners(ws), i)) \in DOMAIN ws
        BY <2>1 DEF Winners, Wholes
      <3> QED
        BY <2>1, <3>1 DEF Overlay
    <2> QED
      BY <2>1 DEF Overlay
  <1> QED
    BY <1>1, <1>2, <1>3

LEMMA OverlayTyped ==
    ASSUME NEW b \in Game, NEW ws \in Seq(Write)
    PROVE  Overlay(b, ws) \in Game
  <1>1. \A e \in {b} \cup {ws[i].doc : i \in DOMAIN ws} : e \in Game
    <2>1. \A i \in DOMAIN ws : ws[i] \in Write
      OBVIOUS
    <2> QED
      BY <2>1 DEF Write
  <1>2. PICK m, s, v \in {b} \cup {ws[i].doc : i \in DOMAIN ws} :
            /\ Overlay(b, ws).moves = m.moves
            /\ Overlay(b, ws).state = s.state
            /\ Overlay(b, ws).winner = v.winner
    BY OverlayMixes
  <1>3. m \in Game /\ s \in Game /\ v \in Game
    BY <1>1
  <1>4. Overlay(b, ws) = [state |-> s.state, moves |-> m.moves, winner |-> v.winner]
    BY <1>2 DEF Overlay
  <1> QED
    BY <1>3, <1>4 DEF Game

\* The moves come from the last write of a whole game.
LEMMA OverlayMoves ==
    ASSUME NEW b, NEW ws \in Seq(Write), \A i \in DOMAIN ws : ~ws[i].whole => i = 1
    PROVE  Overlay(b, ws).moves =
               IF \E i \in DOMAIN ws : ws[i].whole THEN ws[Len(ws)].doc.moves ELSE b.moves
  <1>1. CASE \E i \in DOMAIN ws : ws[i].whole
    <2> DEFINE n == Len(ws)
    <2>1. n \in DOMAIN ws /\ \A i \in DOMAIN ws : i \in Nat /\ i <= n
      BY <1>1
    <2>2. ws[n].whole
      <3>1. SUFFICES ASSUME ~ws[n].whole PROVE FALSE
        OBVIOUS
      <3>2. n = 1
        BY <2>1, <3>1
      <3>3. PICK i \in DOMAIN ws : ws[i].whole
        BY <1>1
      <3>4. i = 1
        BY <2>1, <3>2, <3>3
      <3> QED
        BY <3>1, <3>2, <3>3, <3>4
    <2>3. IsLast(Wholes(ws), n)
      BY <2>1, <2>2 DEF IsLast, Wholes
    <2>4. \A i \in Wholes(ws) : IsLast(Wholes(ws), i) => i = n
      <3>1. \A i \in Wholes(ws) : i \in Nat /\ i <= n
        BY <2>1 DEF Wholes
      <3> QED
        BY <2>1, <2>3, <3>1 DEF IsLast
    <2>5. (CHOOSE i \in Wholes(ws) : IsLast(Wholes(ws), i)) = n
      BY <2>3, <2>4 DEF IsLast
    <2>6. \E i \in Wholes(ws) : IsLast(Wholes(ws), i)
      BY <2>3 DEF IsLast
    <2> QED
      BY <1>1, <2>5, <2>6 DEF Overlay
  <1>2. CASE ~\E i \in DOMAIN ws : ws[i].whole
    <2>1. Wholes(ws) = {}
      BY <1>2 DEF Wholes
    <2> QED
      BY <1>2, <2>1 DEF Overlay
  <1> QED
    BY <1>1, <1>2

-----------------------------------------------------------------------------
(***************************************************************************)
(* The backend commits a write.                                            *)
(***************************************************************************)
\* The write that comes next.
LEMMA NextWrite ==
    ASSUME RoundInv, NEW z \in Players, Commit(z)
    PROVE  LET n == Len(at[z]) + 1
           IN  /\ n \in Waiting(z) /\ n \in DOMAIN own[z] /\ n \in Nat
               /\ \A i \in Waiting(z) : i \in DOMAIN own[z] /\ i \in Nat /\ i >= n
               /\ own[z][n] \in Write
               /\ WriteSound(z, n) /\ WaitSound(z, n) /\ Local(z, own[z][n].doc)
               /\ server' = Merge(server, own[z][n])
               /\ UNCHANGED <<base, acked, breaks, own, seen, cb, device, history>>
  <1> DEFINE n == Len(at[z]) + 1
  <1>1. own[z] \in Seq(Write) /\ at[z] \in Seq(Nat)
    BY RoundTyped DEF RoundInv
  <1>2. Len(own[z]) \in Nat /\ Len(at[z]) \in Nat /\ n <= Len(own[z]) /\ DOMAIN own[z] = 1..Len(own[z])
    BY <1>1 DEF Commit
  <1>3. n \in Waiting(z) /\ n \in DOMAIN own[z] /\ n \in Nat
        /\ \A i \in Waiting(z) : i \in DOMAIN own[z] /\ i \in Nat /\ i >= n
    BY <1>2 DEF Waiting
  <1>4. own[z][n] \in Write
    BY <1>1, <1>3
  <1>5. WriteSound(z, n) /\ WaitSound(z, n) /\ Local(z, own[z][n].doc)
    BY <1>3 DEF RoundInv, OwnSound, WaitingSound, CopiesSound
  <1>6. server' = Merge(server, own[z][n]) /\ UNCHANGED <<base, acked, breaks, own, seen, cb, device, history>>
    BY DEF Commit
  <1> QED
    BY <1>3, <1>4, <1>5, <1>6

\* While nothing is committed only the requester's first write can be next.
LEMMA StartFirst ==
    ASSUME RoundInv, NEW z \in Players, Commit(z), server.state = "starting"
    PROVE  ~own[z][Len(at[z]) + 1].whole
  <1>1. at[z] = << >> /\ own[Acceptor] = << >>
    BY DEF RoundInv, StartSound
  <1>2. own[z] # << >>
    BY NextWrite
  <1>3. z = Requester
    BY <1>1, <1>2 DEF Players
  <1>4. ~own[Requester][1].whole
    BY <1>2, <1>3 DEF RoundInv, StartSound
  <1> QED
    BY <1>1, <1>3, <1>4

\* What is committed: the state alone, at the start.
JoinCommitted ==
    /\ server.state = "starting"
    /\ server' = [server EXCEPT !.state = "inprogress"]

\* A pick, of which the backend knows nothing yet.
PickCommitted(z, d) ==
    /\ server.state = "inprogress" /\ server.winner = NoOne
    /\ ~NotIdle(server, z) /\ NotIdle(d, z)
    /\ NotIdle(d, Opponent(z)) =>
           NotIdle(server, Opponent(z)) /\ d.moves[Opponent(z)] = server.moves[Opponent(z)]
    /\ server' = [server EXCEPT !.moves = d.moves]

\* The end of the match, with the moves the backend has.
FinishCommitted(d) ==
    /\ Full(server) /\ server.state \in {"inprogress", "finished"}
    /\ d.winner # NoOne => server.state = "finished"
    /\ server' = [server EXCEPT !.state = "finished",
                                !.winner = IF d.winner = NoOne THEN @ ELSE d.winner]

LEMMA JoinCommits ==
    ASSUME RoundInv, NEW z \in Players, Commit(z), ~own[z][Len(at[z]) + 1].whole
    PROVE  JoinCommitted
  <1> DEFINE w == own[z][Len(at[z]) + 1]
  <1>1. server.state = "starting" /\ w = updateGameStatus("inprogress") /\ server' = Merge(server, w)
    BY NextWrite DEF WaitSound, WriteSound
  <1>2. w.doc.state = "inprogress" /\ ~w.whole
    BY <1>1 DEF updateGameStatus, Created
  <1> QED
    BY <1>1, <1>2 DEF JoinCommitted, Merge

LEMMA PickCommits ==
    ASSUME RoundInv, NEW z \in Players, Commit(z), IsPick(own[z][Len(at[z]) + 1])
    PROVE  PickCommitted(z, own[z][Len(at[z]) + 1].doc)
  <1> DEFINE n == Len(at[z]) + 1
             w == own[z][n]
             y == Opponent(z)
  <1>0. /\ n \in Waiting(z) /\ n \in DOMAIN own[z] /\ w \in Write
        /\ WriteSound(z, n) /\ WaitSound(z, n) /\ server' = Merge(server, w)
    BY NextWrite
  <1>1. w.whole /\ w.doc.state = "inprogress" /\ w.doc.winner = NoOne /\ NotIdle(w.doc, z)
    BY <1>0 DEF WriteSound, IsPick
  <1>2. server.state # "starting"
    BY <1>1, StartFirst
  <1>3. PickWaits(z)
    BY <1>0 DEF PickWaits
  <1>4. ~NotIdle(server, z)
    BY <1>3 DEF RoundInv, ServerSound, Past
  <1>5. server.state # "finished"
    BY <1>4 DEF RoundInv, ServerSound, Full
  <1>6. server \in Game
    BY RoundTyped DEF RoundInv
  <1>7. server.state = "inprogress" /\ server.winner = NoOne
    BY <1>2, <1>5, <1>6 DEF RoundInv, ServerSound, Past, Closing, Game, GameState
  <1>8. ASSUME NotIdle(w.doc, y)
        PROVE  NotIdle(server, y) /\ w.doc.moves[y] = server.moves[y]
    <2>1. Full(w.doc)
      BY <1>1, <1>8, Opposite DEF Full
    <2>2. NotIdle(server, y)
      BY SMTT(60), <1>0, <2>1 DEF WaitSound
    <2> QED
      BY <1>0, <1>8, <2>2, SoundKept, OneMoveKept, Opposite DEF RoundInv
  <1>9. server' = [server EXCEPT !.moves = w.doc.moves]
    <2>1. w.doc \in Game
      BY <1>0 DEF Write
    <2>2. Merge(server, w) = [w.doc EXCEPT !.winner = server.winner]
      BY <1>1 DEF Merge
    <2> QED
      BY <1>0, <1>1, <1>6, <1>7, <2>1, <2>2 DEF Game
  <1> QED
    BY <1>1, <1>4, <1>7, <1>8, <1>9 DEF PickCommitted

LEMMA FinishCommits ==
    ASSUME RoundInv, NEW z \in Players, Commit(z), own[z][Len(at[z]) + 1].whole,
           ~IsPick(own[z][Len(at[z]) + 1])
    PROVE  FinishCommitted(own[z][Len(at[z]) + 1].doc)
  <1> DEFINE n == Len(at[z]) + 1
             w == own[z][n]
  <1>0. /\ n \in Waiting(z) /\ n \in DOMAIN own[z] /\ w \in Write /\ n \in Nat
        /\ \A i \in Waiting(z) : i \in DOMAIN own[z] /\ i \in Nat /\ i >= n
        /\ WriteSound(z, n) /\ WaitSound(z, n) /\ Local(z, w.doc) /\ server' = Merge(server, w)
    BY NextWrite
  <1>1. w.doc.state = "finished" /\ Full(w.doc)
    BY <1>0 DEF WriteSound, IsPick
  <1>2. server.state # "starting"
    BY StartFirst
  <1>3. ~FullPickWaits(z)
    <2>1. SUFFICES ASSUME NEW i \in Waiting(z), IsPick(own[z][i]) PROVE FALSE
      BY DEF FullPickWaits
    <2>2. i # n /\ i > n
      BY SMTT(60), <1>0, <2>1
    <2>3. \A j \in 1..(i - 1) : ~own[z][j].whole
      BY <1>0, <2>1 DEF RoundInv, OwnSound, WriteSound, IsPick
    <2>4. n \in 1..(i - 1)
      BY <1>0, <2>2
    <2> QED
      BY <2>3, <2>4
  <1>4. Full(server)
    BY <1>0, <1>1, <1>3 DEF Local
  <1>5. server \in Game /\ w.doc \in Game
    BY <1>0, RoundTyped DEF RoundInv, Write
  <1>6. server.state \in {"inprogress", "finished"}
    BY <1>2, <1>5 DEF Game, GameState
  <1>7. w.doc.moves = server.moves
    <2>1. \A p \in Players : w.doc.moves[p] = server.moves[p]
      BY <1>0, <1>1, <1>4, SoundKept, OneMoveKept DEF RoundInv, Full
    <2> QED
      BY <1>5, <2>1 DEF Game
  <1>8. w.doc.winner # NoOne => server.state = "finished"
    BY SMTT(60), <1>0 DEF WaitSound
  <1>9. server' = [server EXCEPT !.state = "finished",
                                 !.winner = IF w.doc.winner = NoOne THEN @ ELSE w.doc.winner]
    <2>1. Merge(server, w) = [w.doc EXCEPT !.winner = IF @ = NoOne THEN server.winner ELSE @]
      BY DEF Merge
    <2> QED
      BY ZenonT(60), <1>0, <1>1, <1>5, <1>7, <2>1 DEF Game
  <1> QED
    BY <1>4, <1>6, <1>8, <1>9 DEF FinishCommitted

LEMMA CommitCases ==
    ASSUME RoundInv, NEW z \in Players, Commit(z)
    PROVE  LET w == own[z][Len(at[z]) + 1]
           IN  \/ ~w.whole /\ JoinCommitted
               \/ IsPick(w) /\ PickCommitted(z, w.doc)
               \/ w.whole /\ ~IsPick(w) /\ FinishCommitted(w.doc)
  BY JoinCommits, PickCommits, FinishCommits

\* The winner a document names has judged the two moves, and his is the better one.
LEMMA WinnerBeats ==
    ASSUME OneRound, RoundInv, NEW d \in SoundDocs(PickedBy, EarnedBy), NEW p \in Players, d.winner = p
    PROVE  LessThan(taps[Opponent(p)][1], taps[p][1])
  <1> DEFINE q == Opponent(p)
  <1>1. Earned(p)
    BY DEF SoundDocs, EarnedBy
  <1>2. PICK v \in judged[p] : v \in {"win", "tie"}
    BY <1>1 DEF Earned
  <1>3. PICK m \in Picked(p), o \in Picked(q) : v = Verdict(m, o)
    BY <1>2, Opposite DEF RoundInv, IndInv, JudgedSound
  <1>4. m = taps[p][1] /\ o = taps[q][1] /\ m # "idle" /\ o # "idle"
    BY <1>3, OneMove, Opposite DEF RoundInv
  <1>5. m \in Choices(p) /\ o \in Choices(q)
    BY <1>3, Opposite DEF RoundInv, RoundTaps
  <1>6. m \in PickSet /\ o \in PickSet /\ m # o
    BY <1>5 DEF OneRound, Choices, Opponent, Players
  <1>7. v # "tie"
    BY <1>3, <1>6 DEF Verdict, LessThan, PickSet
  <1>8. v = "win"
    BY <1>2, <1>7
  <1>9. LessThan(o, m)
    BY <1>3, <1>6, <1>8 DEF Verdict, LessThan, PickSet
  <1> QED
    BY <1>4, <1>9

LEMMA OneWinner ==
    ASSUME OneRound, RoundInv, NEW d \in SoundDocs(PickedBy, EarnedBy),
           NEW e \in SoundDocs(PickedBy, EarnedBy), d.winner # NoOne, e.winner # NoOne
    PROVE  d.winner = e.winner
  <1>1. d.winner \in Players /\ e.winner \in Players
    BY DEF SoundDocs, Game
  <1>2. SUFFICES ASSUME d.winner # e.winner PROVE FALSE
    OBVIOUS
  <1> DEFINE p == d.winner
  <1>3. e.winner = Opponent(p) /\ Opponent(Opponent(p)) = p
    BY <1>1, <1>2, Opposite
  <1>4. LessThan(taps[Opponent(p)][1], taps[p][1])
    BY <1>1, WinnerBeats
  <1>5. LessThan(taps[p][1], taps[Opponent(p)][1])
    BY <1>1, <1>3, WinnerBeats
  <1> QED
    BY <1>4, <1>5 DEF LessThan

\* Every commit is a step of the record, or none.
LEMMA CommitRecords ==
    ASSUME OneRound, RoundInv, NEW z \in Players, Commit(z)
    PROVE  [Record!Next]_<<server.state, server.moves, server.winner>>
  <1> DEFINE n == Len(at[z]) + 1
             w == own[z][n]
             y == Opponent(z)
  <1>0. n \in DOMAIN own[z] /\ w \in Write /\ w.doc \in SoundDocs(PickedBy, EarnedBy)
    BY NextWrite, SoundKept DEF RoundInv
  <1>1. server \in Game /\ server \in SoundDocs(PickedBy, EarnedBy) /\ w.doc \in Game
    BY <1>0, RoundTyped, SoundKept DEF RoundInv, Write
  <1>2. CASE JoinCommitted
    <2>1. server'.state = "inprogress" /\ server'.moves = server.moves /\ server'.winner = server.winner
      BY <1>1, <1>2 DEF JoinCommitted, Game
    <2> QED
      BY <1>2, <2>1 DEF JoinCommitted, Record!Next, Record!Start
  <1>3. CASE PickCommitted(z, w.doc)
    <2> DEFINE m == w.doc.moves[z]
    <2>1. server'.state = server.state /\ server'.moves = w.doc.moves /\ server'.winner = server.winner
      BY <1>1, <1>3 DEF PickCommitted, Game
    <2>2. server.state = "inprogress" /\ server.moves[z] = "idle"
      BY <1>3 DEF PickCommitted, NotIdle
    <2>3. m \in PickSet
      BY <1>1, <1>3 DEF PickCommitted, NotIdle, Game, MoveSet
    <2>4. w.doc.moves \in [Players -> MoveSet] /\ server.moves \in [Players -> MoveSet]
      BY <1>1 DEF Game
    <2>5. \/ w.doc.moves = [server.moves EXCEPT ![z] = m]
          \/ w.doc.moves = [q \in Players |-> IF q = z THEN m ELSE "idle"]
      <3>1. CASE NotIdle(w.doc, y)
        <4>1. w.doc.moves[y] = server.moves[y]
          BY <1>3, <3>1 DEF PickCommitted
        <4>2. w.doc.moves = [server.moves EXCEPT ![z] = m]
          BY <2>4, <4>1, Opposite
        <4> QED
          BY <4>2
      <3>2. CASE ~NotIdle(w.doc, y)
        <4>1. \A q \in Players : w.doc.moves[q] = IF q = z THEN m ELSE "idle"
          BY <3>2, Opposite DEF NotIdle
        <4> QED
          BY <2>4, <4>1
      <3> QED
        BY <3>1, <3>2
    <2> HIDE DEF m, w
    <2>6. Record!Record(z, m)
      BY <2>1, <2>2, <2>5 DEF Record!Record
    <2>7. Record!Next
      BY <2>3, <2>6 DEF Record!Next, Record!PickSet, PickSet
    <2> QED
      BY <2>7
  <1>4. CASE FinishCommitted(w.doc)
    <2>1. /\ server'.state = "finished" /\ server'.moves = server.moves
          /\ server'.winner = IF w.doc.winner = NoOne THEN server.winner ELSE w.doc.winner
      BY <1>1, <1>4 DEF FinishCommitted, Game
    <2>2. CASE server.state = "inprogress"
      <3>1. w.doc.winner = NoOne /\ \A p \in Players : server.moves[p] # "idle"
        BY <1>4, <2>2 DEF FinishCommitted, Full, NotIdle
      <3>2. Record!Finish
        BY <2>1, <2>2, <3>1 DEF Record!Finish
      <3> QED
        BY <3>2 DEF Record!Next
    <2>3. CASE server.state = "finished" /\ w.doc.winner \in {NoOne, server.winner}
      BY <2>1, <2>3
    <2>4. CASE server.state = "finished" /\ w.doc.winner \notin {NoOne, server.winner}
      <3> DEFINE p == w.doc.winner
      <3>1. p \in Players
        BY <1>1, <2>4 DEF Game
      <3>2. server.winner = NoOne
        BY <1>0, <1>1, <2>4, OneWinner
      <3>3. \A q \in Players : server.moves[q] = taps[q][1]
        BY SMTT(60), <1>1, <1>4, OneMoveKept DEF FinishCommitted, Full, RoundInv
      <3>4. \A q \in Players \ {p} : Record!Beats(p, q)
        <4>1. LessThan(taps[Opponent(p)][1], taps[p][1])
          BY <1>0, <3>1, WinnerBeats
        <4>2. \A q \in Players \ {p} : q = Opponent(p)
          BY <3>1, Opposite
        <4> QED
          BY ZenonT(60), <3>1, <3>3, <4>1, <4>2 DEF Record!Beats, Record!LessThan, LessThan
      <3>5. Record!Award(p)
        BY <2>1, <2>4, <3>2, <3>4 DEF Record!Award
      <3> HIDE DEF p
      <3>6. Record!Next
        BY <3>1, <3>5 DEF Record!Next
      <3> QED
        BY <3>6
    <2> QED
      BY <1>4, <2>2, <2>3, <2>4 DEF FinishCommitted
  <1> QED
    BY <1>2, <1>3, <1>4, CommitCases

\* What waits after a commit is what waited, less the write that was committed.
LEMMA CommitWaits ==
    ASSUME RoundInv, NEW z \in Players, Commit(z)
    PROVE  /\ own' = own /\ taps' = taps
           /\ Waiting(z)' = Waiting(z) \ {Len(at[z]) + 1}
           /\ at'[z] = Append(at[z], Len(feed'[z])) /\ Len(at'[z]) = Len(at[z]) + 1
           /\ \A x \in Players \ {z} : at'[x] = at[x] /\ Waiting(x)' = Waiting(x)
  <1>1. at \in [Players -> Seq(Nat)] /\ own \in [Players -> Seq(Write)] /\ feed \in [Players -> Seq(Game)]
    BY RoundTyped DEF RoundInv
  <1>2. own' = own /\ taps' = taps /\ at' = [at EXCEPT ![z] = Append(@, Len(feed'[z]))]
    BY DEF Commit, history
  <1>3. at'[z] = Append(at[z], Len(feed'[z])) /\ \A x \in Players \ {z} : at'[x] = at[x]
    BY <1>1, <1>2
  <1>4. at[z] \in Seq(Nat)
    BY <1>1
  <1>5. Len(at'[z]) = Len(at[z]) + 1 /\ Len(at[z]) \in Nat
    BY <1>3, <1>4
  <1>6. Len(own[z]) \in Nat
    BY <1>1
  <1>7. Waiting(z)' = Waiting(z) \ {Len(at[z]) + 1}
    BY <1>2, <1>5, <1>6 DEF Waiting
  <1> QED
    BY <1>2, <1>3, <1>5, <1>7 DEF Waiting

\* What the backend knows it does not forget, but for a pick that is wiped out.
LEMMA CommitAdvances ==
    ASSUME RoundInv, NEW z \in Players, Commit(z)
    PROVE  /\ server'.state # "starting" /\ server' \in Game
           /\ server.state = "finished" => server'.state = "finished"
           /\ server'.state = "finished" => Full(server')
           /\ Closing(server') => server'.state = "finished"
           /\ Full(server) => Full(server')
           /\ \A x \in Players : (PickWaits(x)' => PickWaits(x) /\ ~NotIdle(server', x))
           /\ \A x \in Players : FullPickWaits(x) => FullPickWaits(x)' \/ Full(server')
           /\ \A x \in Players : Over(x) => Over(x)'
           /\ \A x \in Players : taps[x] = << >> /\ NotIdle(server, Opponent(x)) => NotIdle(server', Opponent(x))
  <1> DEFINE n == Len(at[z]) + 1
             w == own[z][n]
             y == Opponent(z)
  <1>0. /\ n \in Waiting(z) /\ n \in DOMAIN own[z] /\ w \in Write /\ n \in Nat
        /\ \A i \in Waiting(z) : i \in DOMAIN own[z] /\ i \in Nat /\ i >= n
        /\ Local(z, w.doc)
    BY NextWrite
  <1>1. /\ own' = own /\ Waiting(z)' = Waiting(z) \ {n}
        /\ \A x \in Players \ {z} : Waiting(x)' = Waiting(x)
    BY CommitWaits
  <1>2. server \in Game /\ w.doc \in Game
    BY <1>0, RoundTyped DEF RoundInv, Write
  <1>3. Closing(server) => server.state = "finished"
    BY DEF RoundInv, ServerSound, Past
  <1>4. \A x \in Players : PickWaits(x)' => PickWaits(x) /\ ~NotIdle(server, x)
    <2>1. \A x \in Players : PickWaits(x)' => PickWaits(x)
      BY <1>1 DEF PickWaits
    <2> QED
      BY <2>1 DEF RoundInv, ServerSound, Past
  <1>5. \A x \in Players : x # z => FullPickWaits(x)' = FullPickWaits(x)
    BY <1>1 DEF FullPickWaits
  <1>6. FullPickWaits(z) /\ ~(IsPick(w) /\ Full(w.doc)) => FullPickWaits(z)'
    BY <1>1 DEF FullPickWaits
  <1>7. w.whole => ~PickWaits(z)'
    <2>1. SUFFICES ASSUME w.whole, NEW i \in Waiting(z) \ {n}, IsPick(own[z][i]) PROVE FALSE
      BY <1>1 DEF PickWaits
    <2>2. i > n
      BY <1>0, <2>1
    <2>3. \A j \in 1..(i - 1) : ~own[z][j].whole
      BY <1>0, <2>1 DEF RoundInv, OwnSound, WriteSound, IsPick
    <2>4. n \in 1..(i - 1)
      BY <1>0, <2>2
    <2> QED
      BY <2>1, <2>3, <2>4
  <1>8. \A x \in Players : Over(x) /\ ~IsFinish(w) /\ (server.state = "finished" => server'.state = "finished")
            => Over(x)'
    BY <1>1 DEF Over
  <1>9. CASE ~w.whole /\ JoinCommitted
    <2>1. server'.state = "inprogress" /\ server'.moves = server.moves /\ server'.winner = server.winner
      BY <1>2, <1>9 DEF JoinCommitted, Game
    <2>2. server' \in Game /\ server.state = "starting"
      BY <1>2, <1>9 DEF JoinCommitted, Game, GameState
    <2>3. ~IsFinish(w) /\ ~IsPick(w)
      <3>1. WriteSound(z, n)
        BY NextWrite
      <3>2. w = updateGameStatus("inprogress")
        BY <1>9, <3>1 DEF WriteSound
      <3> HIDE DEF w, n
      <3> QED
        BY ONLY <3>2, <1>9 DEF IsFinish, IsPick, updateGameStatus, Created
    <2>4. \A x \in Players : FullPickWaits(x) => FullPickWaits(x)'
      BY <1>5, <1>6, <2>3
    <2>5. \A x \in Players : Over(x) => Over(x)'
      BY <1>8, <2>2, <2>3 DEF GameState
    <2>6. Full(server') <=> Full(server)
      BY <2>1 DEF Full, NotIdle
    <2>7. ~Closing(server)
      BY <1>3, <2>2
    <2> QED
      BY <1>4, <2>1, <2>2, <2>4, <2>5, <2>6, <2>7 DEF NotIdle, Closing
  <1>10. CASE IsPick(w) /\ PickCommitted(z, w.doc)
    <2>1. server'.state = "inprogress" /\ server'.moves = w.doc.moves /\ server'.winner = NoOne
      BY SMTT(60), <1>2, <1>10 DEF PickCommitted, Game
    <2>2. server' \in Game /\ server.state = "inprogress" /\ ~NotIdle(server, z) /\ NotIdle(server', z)
      BY <1>2, <1>10, <2>1 DEF PickCommitted, Game, NotIdle
    <2>3. ~IsFinish(w)
      BY <1>10 DEF IsFinish, IsPick
    <2>4. ~Full(server)
      BY <2>2 DEF Full
    <2>5. IsPick(w) /\ Full(w.doc) => Full(server')
      BY <2>1 DEF Full, NotIdle
    <2>6. PickWaits(y)' => ~NotIdle(server', y)
      <3>1. PickWaits(y) => ~NotIdle(w.doc, y)
        BY <1>0 DEF Local
      <3> QED
        BY <1>4, <2>1, <3>1, Opposite DEF NotIdle
    <2>7. \A x \in Players : PickWaits(x)' => PickWaits(x) /\ ~NotIdle(server', x)
      BY <1>4, <1>7, <1>10, <2>6, Opposite DEF IsPick
    <2>8. taps[z] # << >>
      BY <1>0, <1>10, SeenPicked DEF PickCommitted, RoundInv
    <2>9. \A x \in Players : taps[x] = << >> /\ NotIdle(server, Opponent(x)) => NotIdle(server', Opponent(x))
      BY <2>2, <2>8, Opposite
    <2>10. \A x \in Players : Over(x) => Over(x)'
      BY <1>8, <2>2, <2>3
    <2>11. \A x \in Players : FullPickWaits(x) => FullPickWaits(x)' \/ Full(server')
      BY <1>5, <1>6, <2>5
    <2> QED
      BY <2>1, <2>2, <2>4, <2>7, <2>9, <2>10, <2>11 DEF Closing
  <1>11. CASE w.whole /\ ~IsPick(w) /\ FinishCommitted(w.doc)
    <2>1. server'.state = "finished" /\ server'.moves = server.moves /\ Full(server) /\ server' \in Game
      BY <1>2, <1>11 DEF FinishCommitted, Game, GameState
    <2>2. Full(server')
      BY <2>1 DEF Full, NotIdle
    <2> QED
      BY SMTT(60), <1>4, <1>5, <1>6, <2>1, <2>2 DEF Full, NotIdle, Over
  <1> QED
    BY <1>9, <1>10, <1>11, CommitCases

\* What was past, or at hand, stays so.
LEMMA CommitKeeps ==
    ASSUME RoundInv, NEW z \in Players, Commit(z), NEW x \in Players, NEW d
    PROVE  /\ Unerased(x, d) => Unerased(x, d)'
           /\ Past(d) => Past(d)'
           /\ Local(x, d) => Local(x, d)'
  <1>1. taps' = taps
    BY CommitWaits
  <1>2. \A p \in Players : Unerased(p, d) => Unerased(p, d)'
    BY <1>1, CommitAdvances DEF Unerased
  <1>3. \A p \in Players : PickWaits(p)' => PickWaits(p)
    BY CommitAdvances
  <1>4. Past(d) => Past(d)'
    BY <1>2, <1>3, CommitAdvances DEF Past
  <1>5. Local(x, d) => Local(x, d)'
    <2>1. Opponent(x) \in Players
      BY Opposite
    <2> QED
      BY <1>2, <1>3, <2>1, CommitAdvances DEF Local
  <1> QED
    BY <1>2, <1>4, <1>5

LEMMA CommitServer ==
    ASSUME RoundInv, NEW z \in Players, Commit(z)
    PROVE  ServerSound' /\ VersionsSound'
  <1>1. Past(server)'
    BY CommitAdvances DEF Past, Unerased
  <1>2. ServerSound'
    BY <1>1, CommitAdvances DEF ServerSound, Past, Unerased
  <1>3. feed \in [Players -> Seq(Game)] /\ base' = base
        /\ feed' = IF server' = server THEN feed ELSE [q \in Players |-> Append(feed[q], server')]
    BY RoundTyped DEF RoundInv, Commit
  <1>4. ASSUME NEW x \in Players
        PROVE  Past(base[x])' /\ \A i \in DOMAIN feed'[x] : Past(feed[x][i])'
    <2> DEFINE b == base[x]
    <2>1. Past(b)
      BY DEF RoundInv, VersionsSound
    <2>2. Past(base[x])'
      BY <1>3, <2>1, CommitKeeps DEF Past, Unerased
    <2>3. ASSUME NEW i \in DOMAIN feed[x], feed'[x][i] = feed[x][i]
          PROVE  Past(feed[x][i])'
      <3>1. Past(feed[x][i])
        BY DEF RoundInv, VersionsSound
      <3> QED
        BY <2>3, <3>1, CommitKeeps DEF Past, Unerased
    <2>4. ASSUME NEW i \in DOMAIN feed'[x], feed'[x][i] = server'
          PROVE  Past(feed[x][i])'
      BY <1>1, <2>4 DEF Past, Unerased
    <2>5. \A i \in DOMAIN feed'[x] : feed'[x][i] = server' \/ (i \in DOMAIN feed[x] /\ feed'[x][i] = feed[x][i])
      <3>1. feed[x] \in Seq(Game)
        BY <1>3
      <3>2. feed'[x] = feed[x] \/ feed'[x] = Append(feed[x], server')
        BY <1>3
      <3> QED
        BY <3>1, <3>2
    <2> QED
      BY <2>2, <2>3, <2>4, <2>5
  <1>5. VersionsSound'
    BY <1>4 DEF VersionsSound
  <1> QED
    BY <1>2, <1>5

LEMMA CommitCopies ==
    ASSUME RoundInv, NEW z \in Players, Commit(z)
    PROVE  CopiesSound'
  <1>1. own' = own /\ seen' = seen /\ game' = game /\ cb' = cb
    BY DEF Commit, device
  <1>2. \A x \in Players : Local(x, seen[x])' /\ Local(x, game[x])'
    BY <1>1, CommitKeeps DEF RoundInv, CopiesSound, Local, Unerased
  <1>3. ASSUME NEW x \in Players, NEW i \in DOMAIN cb[x]
        PROVE  Local(x, cb[x][i])'
    <2>1. Local(x, cb[x][i])
      BY DEF RoundInv, CopiesSound
    <2> QED
      BY <1>1, <2>1, CommitKeeps DEF Local, Unerased
  <1>4. ASSUME NEW x \in Players, NEW i \in DOMAIN own[x]
        PROVE  Local(x, own[x][i].doc)'
    <2>1. Local(x, own[x][i].doc)
      BY DEF RoundInv, CopiesSound
    <2> QED
      BY <1>1, <2>1, CommitKeeps DEF Local, Unerased
  <1> QED
    BY <1>1, <1>2, <1>3, <1>4 DEF CopiesSound

\* Nobody commits anything while the requester's device still loads the match.
LEMMA CommitAfterJoin ==
    ASSUME RoundInv, NEW z \in Players, Commit(z)
    PROVE  screen[Requester] # "loading"
  <1>1. SUFFICES ASSUME server.state = "starting", own[Requester] = << >> PROVE FALSE
    BY DEF RoundInv, StartSound
  <1>2. own[Acceptor] = << >>
    BY <1>1 DEF RoundInv, StartSound
  <1> QED
    BY <1>1, <1>2, NextWrite DEF Players

LEMMA CommitWaiting ==
    ASSUME RoundInv, NEW z \in Players, Commit(z), NEW x \in Players, NEW i \in Waiting(x)'
    PROVE  WaitSound(x, i)'
  <1> DEFINE n == Len(at[z]) + 1
             w == own[x][i]
             c == own[z][n]
  <1>1. i \in Waiting(x) /\ own' = own /\ (x = z => i # n)
    BY CommitWaits
  <1>2. /\ n \in Waiting(z) /\ n \in DOMAIN own[z] /\ n \in Nat
        /\ \A j \in Waiting(z) : j \in DOMAIN own[z] /\ j \in Nat /\ j >= n
        /\ WriteSound(z, n)
    BY NextWrite
  <1>3. WaitSound(x, i) /\ i \in DOMAIN own[x] /\ i \in Nat
    <2>1. at[x] \in Seq(Nat) /\ own[x] \in Seq(Write)
      BY RoundTyped DEF RoundInv
    <2> QED
      BY <1>1, <2>1 DEF RoundInv, WaitingSound, Waiting
  <1>4. WriteSound(x, i)
    BY <1>3 DEF RoundInv, OwnSound
  <1>5. w.whole
    <2>1. SUFFICES ASSUME ~w.whole PROVE FALSE
      OBVIOUS
    <2>2. server.state = "starting" /\ x = Requester /\ i = 1
      BY <1>3, <1>4, <2>1 DEF WaitSound, WriteSound
    <2>3. ~c.whole
      BY <2>2, StartFirst
    <2>4. z = Requester /\ n = 1
      BY <1>2, <2>3 DEF WriteSound
    <2> QED
      BY <1>1, <2>2, <2>4
  <1>6. ASSUME IsPick(w), Full(w.doc)
        PROVE  NotIdle(server', Opponent(x))
    <2>1. NotIdle(server, Opponent(x))
      BY <1>3, <1>6 DEF WaitSound
    <2>2. server \in Game
      BY RoundTyped DEF RoundInv
    <2>3. CASE JoinCommitted
      BY <2>1, <2>2, <2>3 DEF JoinCommitted, NotIdle, Game
    <2>4. CASE IsPick(c) /\ PickCommitted(z, c.doc)
      <3>1. x # z
        <4>1. SUFFICES ASSUME x = z PROVE FALSE
          OBVIOUS
        <4>2. i > n
          BY <1>1, <1>2, <4>1
        <4>3. n \in 1..(i - 1)
          BY <1>2, <1>3, <4>2
        <4>4. \A j \in 1..(i - 1) : ~own[x][j].whole
          BY <1>4, <1>6 DEF WriteSound, IsPick
        <4> QED
          BY <2>4, <4>1, <4>3, <4>4 DEF IsPick
      <3>2. z = Opponent(x)
        BY <3>1, Opposite
      <3>3. server'.moves = c.doc.moves
        BY <2>2, <2>4 DEF PickCommitted, Game
      <3> QED
        BY <2>4, <3>2, <3>3 DEF PickCommitted, NotIdle
    <2>5. CASE FinishCommitted(c.doc)
      BY <2>1, <2>2, <2>5 DEF FinishCommitted, NotIdle, Game
    <2> QED
      BY <2>3, <2>4, <2>5, CommitCases
  <1>7. ASSUME w.doc.winner # NoOne
        PROVE  server'.state = "finished" \/ \E j \in Waiting(x)' : j < i /\ IsFinish(own[x][j])
    <2>1. CASE server.state = "finished"
      BY <2>1, CommitAdvances
    <2>2. CASE server.state # "finished"
      <3>1. PICK j \in Waiting(x) : j < i /\ IsFinish(own[x][j])
        BY <1>3, <1>7, <2>2 DEF WaitSound
      <3>2. CASE j \in Waiting(x)'
        BY <3>1, <3>2
      <3>3. CASE j \notin Waiting(x)'
        <4>1. x = z /\ j = n
          BY <3>1, <3>3, CommitWaits
        <4>2. IsFinish(c)
          BY <3>1, <4>1
        <4>3. c.whole /\ ~IsPick(c)
          BY <1>2, <4>2 DEF WriteSound, IsFinish, IsPick, updateGameStatus, Created
        <4>4. FinishCommitted(c.doc)
          BY <4>3, FinishCommits
        <4>5. server \in Game
          BY RoundTyped DEF RoundInv
        <4> QED
          BY <4>4, <4>5 DEF FinishCommitted, Game
      <3> QED
        BY <3>2, <3>3
    <2> QED
      BY <2>1, <2>2
  <1> QED
    BY <1>1, <1>5, <1>6, <1>7 DEF WaitSound

LEMMA CommitLeaves ==
    ASSUME RoundInv, NEW z \in Players, Commit(z)
    PROVE  /\ RoundTaps' /\ OwnSound' /\ WaitingSound' /\ StartSound' /\ ButtonsSound'
           /\ JudgedFull' /\ ViewFull'
  <1>1. /\ own' = own /\ seen' = seen /\ game' = game /\ cb' = cb /\ base' = base /\ taps' = taps
        /\ alert' = alert /\ enabled' = enabled /\ judged' = judged /\ screen' = screen
    BY DEF Commit, device, history
  <1>2. RoundTaps' /\ OwnSound' /\ ButtonsSound' /\ ViewFull'
    <2>1. RoundTaps'
      BY <1>1 DEF RoundInv, RoundTaps, Picked
    <2>2. OwnSound'
      BY <1>1 DEF RoundInv, OwnSound, WriteSound
    <2>3. ButtonsSound'
      BY <1>1 DEF RoundInv, ButtonsSound
    <2>4. ViewFull'
      BY <1>1 DEF RoundInv, ViewFull
    <2> QED
      BY <2>1, <2>2, <2>3, <2>4
  <1>3. WaitingSound'
    BY CommitWaiting DEF WaitingSound
  <1>4. StartSound'
    BY <1>1, CommitAfterJoin, CommitAdvances DEF StartSound
  <1>5. JudgedFull'
    BY <1>1, CommitAdvances DEF RoundInv, JudgedFull
  <1> QED
    BY <1>2, <1>3, <1>4, <1>5

\* The new version is full when the write in it is.
LEMMA CommitFull ==
    ASSUME RoundInv, NEW z \in Players, Commit(z)
    PROVE  Full(own[z][Len(at[z]) + 1].doc) <=> Full(server')
  <1> DEFINE c == own[z][Len(at[z]) + 1]
  <1>1. server \in Game /\ WriteSound(z, Len(at[z]) + 1) /\ Requester \in Players
    BY RoundTyped, NextWrite DEF RoundInv, Players
  <1>2. CASE ~c.whole /\ JoinCommitted
    <2>1. ~NotIdle(c.doc, Requester)
      BY <1>1, <1>2 DEF WriteSound, updateGameStatus, Created, NotIdle
    <2>2. ~NotIdle(server', Requester)
      BY <1>1, <1>2 DEF RoundInv, ServerSound, JoinCommitted, NotIdle, Game
    <2> QED
      BY <1>1, <2>1, <2>2 DEF Full
  <1>3. CASE PickCommitted(z, c.doc)
    BY SMTT(60), <1>1, <1>3 DEF PickCommitted, Full, NotIdle, Game
  <1>4. CASE c.whole /\ ~IsPick(c) /\ FinishCommitted(c.doc)
    <2>1. Full(c.doc)
      BY <1>1, <1>4 DEF WriteSound, IsPick
    <2> QED
      BY <1>1, <1>4, <2>1 DEF FinishCommitted, Full, NotIdle, Game
  <1> QED
    BY <1>2, <1>3, <1>4, CommitCases

LEMMA CommitFeeds ==
    ASSUME RoundInv, NEW z \in Players, Commit(z), NEW x \in Players
    PROVE  /\ feed[x] \in Seq(Game) /\ feed'[x] \in Seq(Game)
           /\ Len(feed[x]) <= Len(feed'[x])
           /\ \A i \in DOMAIN feed[x] : i \in DOMAIN feed'[x] /\ feed'[x][i] = feed[x][i]
           /\ \A i \in DOMAIN feed'[x] : i \in DOMAIN feed[x] \/ (i = Len(feed'[x]) /\ feed'[x][i] = server')
           /\ server' = IF feed'[x] = << >> THEN base[x] ELSE feed'[x][Len(feed'[x])]
  <1>1. /\ feed \in [Players -> Seq(Game)] /\ server' \in Game
        /\ feed' = IF server' = server THEN feed ELSE [q \in Players |-> Append(feed[q], server')]
    BY RoundTyped, CommitAdvances DEF RoundInv, Commit
  <1>2. server = IF feed[x] = << >> THEN base[x] ELSE feed[x][Len(feed[x])]
    BY DEF RoundInv, FeedSound, Feeds
  <1>3. feed[x] \in Seq(Game)
    BY <1>1
  <1>4. CASE feed'[x] = feed[x] /\ server' = server
    BY <1>2, <1>3, <1>4
  <1>5. CASE feed'[x] = Append(feed[x], server')
    <2> DEFINE F == feed[x]
               s == server'
               F2 == feed'[x]
    <2>1. F \in Seq(Game) /\ s \in Game /\ F2 = Append(F, s)
      BY <1>1, <1>3, <1>5
    <2> HIDE DEF F, s, F2
    <2>2. F2 \in Seq(Game) /\ Len(F2) = Len(F) + 1 /\ Len(F) \in Nat /\ DOMAIN F = 1..Len(F)
      BY <2>1
    <2>3. DOMAIN F2 = 1..(Len(F) + 1) /\ F2 # << >>
      BY <2>2
    <2>4. F2[Len(F) + 1] = s /\ \A i \in 1..Len(F) : F2[i] = F[i]
      BY <2>1
    <2>5. \A i \in DOMAIN F2 : i \in DOMAIN F \/ (i = Len(F2) /\ F2[i] = s)
      BY <2>2, <2>3, <2>4
    <2>6. \A i \in DOMAIN F : i \in DOMAIN F2 /\ F2[i] = F[i]
      BY <2>2, <2>3, <2>4
    <2>7. s = F2[Len(F2)]
      BY <2>2, <2>4
    <2> QED
      BY <2>1, <2>2, <2>3, <2>5, <2>6, <2>7 DEF F, s, F2
  <1> QED
    BY <1>1, <1>4, <1>5

LEMMA CommitFeedSound ==
    ASSUME RoundInv, NEW z \in Players, Commit(z)
    PROVE  FeedSound'
  <1> SUFFICES ASSUME NEW x \in Players
               PROVE  Feeds(server', base'[x], feed'[x], own'[x], at'[x], acked'[x])
    BY DEF FeedSound
  <1> DEFINE A == at[x]
             F == feed[x]
             F2 == feed'[x]
  <1>1. /\ base' = base /\ acked' = acked /\ own' = own
        /\ A \in Seq(Nat) /\ acked[x] \in Nat /\ acked[x] <= Len(A)
    BY RoundTyped DEF RoundInv, Commit
  <1>2. /\ \A i \in DOMAIN A : A[i] <= Len(F)
        /\ \A i, j \in DOMAIN A : i < j => A[i] <= A[j]
        /\ acked[x] > 0 => A[acked[x]] > 0
        /\ \A i \in DOMAIN F : Full(base[x]) => Full(F[i])
        /\ \A i, j \in DOMAIN F : i < j /\ Full(F[i]) => Full(F[j])
        /\ \A i \in DOMAIN A :
               /\ A[i] = 0 /\ Full(own[x][i].doc) => Full(base[x])
               /\ A[i] > 0 => (Full(own[x][i].doc) <=> Full(F[A[i]]))
    BY DEF RoundInv, FeedSound, Feeds
  <1>3. /\ F \in Seq(Game) /\ F2 \in Seq(Game) /\ Len(F) <= Len(F2)
        /\ \A i \in DOMAIN F : i \in DOMAIN F2 /\ F2[i] = F[i]
        /\ \A i \in DOMAIN F2 : i \in DOMAIN F \/ (i = Len(F2) /\ F2[i] = server')
        /\ server' = IF F2 = << >> THEN base[x] ELSE F2[Len(F2)]
    BY CommitFeeds
  <1>4. /\ DOMAIN at'[x] \in SUBSET Nat /\ Len(at'[x]) \in Nat
        /\ \A i \in DOMAIN A : i \in DOMAIN at'[x] /\ at'[x][i] = A[i]
        /\ \A i \in DOMAIN at'[x] : i \in DOMAIN A \/ (at'[x][i] = Len(F2) /\ x = z /\ i = Len(A) + 1)
    <2>1. CASE x = z
      <3>1. at'[x] = Append(A, Len(F2))
        BY <2>1, CommitWaits
      <3> QED
        BY SMTT(60), <1>1, <1>3, <2>1, <3>1
    <2>2. CASE x # z
      <3>1. at'[x] = A
        BY <2>2, CommitWaits
      <3> QED
        BY <1>1, <3>1
    <2> QED
      BY <2>1, <2>2
  <1>5. (Full(base[x]) => Full(server')) /\ \A i \in DOMAIN F : Full(F[i]) => Full(server')
    <2>1. (Full(base[x]) => Full(server)) /\ \A i \in DOMAIN F : Full(F[i]) => Full(server)
      BY DEF RoundInv, VersionsSound, Past
    <2> QED
      BY <2>1, CommitAdvances
  <1> HIDE DEF A, F, F2
  <1>6. \A i \in DOMAIN at'[x] : at'[x][i] \in Nat /\ at'[x][i] <= Len(F2) /\ i \in Nat
    BY SMTT(60), <1>1, <1>2, <1>3, <1>4
  <1>7. \A i, j \in DOMAIN at'[x] : i < j => at'[x][i] <= at'[x][j]
    <2> SUFFICES ASSUME NEW i \in DOMAIN at'[x], NEW j \in DOMAIN at'[x], i < j PROVE at'[x][i] <= at'[x][j]
      OBVIOUS
    <2>1. CASE j \in DOMAIN A
      <3>1. i \in DOMAIN A
        BY <1>1, <1>4, <1>6, <2>1
      <3> QED
        BY <1>2, <1>4, <2>1, <3>1
    <2>2. CASE at'[x][j] = Len(F2)
      BY <1>6, <2>2
    <2> QED
      BY <1>4, <2>1, <2>2
  <1>8. acked[x] > 0 => at'[x][acked[x]] > 0
    BY <1>1, <1>2, <1>4
  <1>9. \A i \in DOMAIN F2 : Full(base[x]) => Full(F2[i])
    BY <1>2, <1>3, <1>5
  <1>10. \A i, j \in DOMAIN F2 : i < j /\ Full(F2[i]) => Full(F2[j])
    <2> SUFFICES ASSUME NEW i \in DOMAIN F2, NEW j \in DOMAIN F2, i < j, Full(F2[i]) PROVE Full(F2[j])
      OBVIOUS
    <2>1. i \in Nat /\ j \in Nat /\ j <= Len(F2) /\ i >= 1 /\ Len(F) \in Nat
      BY <1>3
    <2>2. CASE j \in DOMAIN F
      <3>1. i \in DOMAIN F
        BY <1>3, <2>1, <2>2
      <3> QED
        BY <1>2, <1>3, <2>2, <3>1
    <2>3. CASE j = Len(F2) /\ F2[j] = server'
      <3>1. i \in DOMAIN F
        BY <1>3, <2>1, <2>3
      <3> QED
        BY <1>3, <1>5, <2>3, <3>1
    <2> QED
      BY <1>3, <2>2, <2>3
  <1>11. \A i \in DOMAIN at'[x] :
             /\ at'[x][i] = 0 /\ Full(own[x][i].doc) => Full(base[x])
             /\ at'[x][i] > 0 => (Full(own[x][i].doc) <=> Full(F2[at'[x][i]]))
    <2> SUFFICES ASSUME NEW i \in DOMAIN at'[x]
                 PROVE  /\ at'[x][i] = 0 /\ Full(own[x][i].doc) => Full(base[x])
                        /\ at'[x][i] > 0 => (Full(own[x][i].doc) <=> Full(F2[at'[x][i]]))
      OBVIOUS
    <2>1. CASE i \in DOMAIN A
      <3>1. at'[x][i] = A[i] /\ A[i] \in Nat
        BY <1>1, <1>4, <2>1
      <3>2. A[i] > 0 => F2[A[i]] = F[A[i]]
        BY <1>2, <1>3, <2>1, <3>1
      <3> QED
        BY <1>2, <2>1, <3>1, <3>2
    <2>2. CASE at'[x][i] = Len(F2) /\ x = z /\ i = Len(A) + 1
      <3>1. Full(own[x][i].doc) <=> Full(server')
        BY <2>2, CommitFull DEF A
      <3>2. server' = IF F2 = << >> THEN base[x] ELSE F2[Len(F2)]
        BY <1>3
      <3>3. Len(F2) = 0 => F2 = << >>
        BY <1>3
      <3>4. Len(F2) > 0 => F2 # << >>
        BY <1>3
      <3> QED
        BY <2>2, <3>1, <3>2, <3>3, <3>4
    <2> QED
      BY <1>4, <2>1, <2>2
  <1> QED
    BY <1>1, <1>3, <1>6, <1>7, <1>8, <1>9, <1>10, <1>11 DEF F2, Feeds

-----------------------------------------------------------------------------
(***************************************************************************)
(* A device is sent an acknowledgement or a version.                       *)
(***************************************************************************)
LEMMA CutItems ==
    ASSUME NEW S, NEW s \in Seq(S), NEW m \in Nat, m <= Len(s)
    PROVE  LET r == SubSeq(s, m + 1, Len(s))
           IN  /\ r \in Seq(S) /\ Len(r) = Len(s) - m
               /\ \A i \in 1..(Len(s) - m) : r[i] = s[i + m]
  <1> DEFINE r == SubSeq(s, m + 1, Len(s))
  <1>1. r \in Seq(S) /\ Len(r) = Len(s) - m /\ Len(s) \in Nat
    BY CutSound
  <1>2. \A i \in 1..(Len(s) - m) : r[i] = s[i + m]
    OBVIOUS
  <1> QED
    BY <1>1, <1>2

LEMMA WithoutItems ==
    ASSUME NEW S, NEW s \in Seq(S), NEW n \in Nat \ {0}, n <= Len(s)
    PROVE  LET r == Without(s, n)
           IN  /\ r \in Seq(S) /\ Len(r) = Len(s) - 1
               /\ \A i \in 1..(Len(s) - 1) : r[i] = s[IF i < n THEN i ELSE i + 1]
  <1> DEFINE a == SubSeq(s, 1, n - 1)
             b == SubSeq(s, n + 1, Len(s))
  <1>1. n - 1 \in Nat /\ n - 1 <= Len(s) /\ Len(s) \in Nat
    OBVIOUS
  <1>2. a \in Seq(S) /\ Len(a) = n - 1
    BY <1>1, CutSound
  <1>3. b \in Seq(S) /\ Len(b) = Len(s) - n
    BY CutSound
  <1>4. \A i \in 1..(n - 1) : a[i] = s[i]
    OBVIOUS
  <1>5. \A i \in 1..(Len(s) - n) : b[i] = s[i + n]
    <2>1. \A m \in Nat : m <= Len(s) =>
              \A i \in 1..(Len(s) - m) : SubSeq(s, m + 1, Len(s))[i] = s[i + m]
      OBVIOUS
    <2> QED
      BY <2>1
  <1>6. Without(s, n) = a \o b
    BY DEF Without
  <1> HIDE DEF a, b
  <1>7. /\ a \o b \in Seq(S) /\ Len(a \o b) = Len(s) - 1
        /\ \A i \in 1..(Len(s) - 1) : (a \o b)[i] = IF i <= n - 1 THEN a[i] ELSE b[i - (n - 1)]
    <2>1. /\ a \o b \in Seq(S) /\ Len(a \o b) = Len(a) + Len(b)
          /\ \A i \in 1..(Len(a) + Len(b)) : (a \o b)[i] = IF i <= Len(a) THEN a[i] ELSE b[i - Len(a)]
      BY ONLY <1>2, <1>3, ConcatProperties
    <2>2. (n - 1) + (Len(s) - n) = Len(s) - 1
      BY <1>1
    <2> QED
      BY <1>2, <1>3, <2>1, <2>2
  <1>8. \A i \in 1..(Len(s) - 1) : (a \o b)[i] = s[IF i < n THEN i ELSE i + 1]
    <2> SUFFICES ASSUME NEW i \in 1..(Len(s) - 1) PROVE (a \o b)[i] = s[IF i < n THEN i ELSE i + 1]
      OBVIOUS
    <2>1. CASE i < n
      BY <1>1, <1>4, <1>7, <2>1
    <2>2. CASE ~(i < n)
      <3>1. i - (n - 1) \in 1..(Len(s) - n) /\ ~(i <= n - 1) /\ i - (n - 1) + n = i + 1
        BY <1>1, <2>2
      <3> QED
        BY <1>5, <1>7, <2>2, <3>1
    <2> QED
      BY <2>1, <2>2
  <1> QED
    BY <1>6, <1>7, <1>8

\* Of one device's writes, d that are committed are forgotten, from the n-th on.
Forgotten(z, n, d) ==
    /\ n \in Nat /\ d \in Nat /\ n >= 1 /\ n - 1 + d <= Len(at[z])
    /\ Len(own'[z]) = Len(own[z]) - d /\ Len(at'[z]) = Len(at[z]) - d
    /\ own'[z] \in Seq(Write) /\ at'[z] \in Seq(Nat)
    /\ \A i \in 1..(Len(own[z]) - d) : own'[z][i] = own[z][IF i < n THEN i ELSE i + d]
    /\ \A x \in Players \ {z} : own'[x] = own[x] /\ at'[x] = at[x]

LEMMA WatchForgets ==
    ASSUME IndInv, NEW z \in Players, NEW k \in 1..Len(feed[z]), Watch(z, k)
    PROVE  /\ Forgotten(z, 1, acked[z])
           /\ \A i \in 1..(Len(at[z]) - acked[z]) :
                  at'[z][i] = IF at[z][i + acked[z]] <= k THEN 0 ELSE at[z][i + acked[z]] - k
  <1> DEFINE A == at[z]
             O == own[z]
             m == acked[z]
             L == SubSeq(A, m + 1, Len(A))
             P == SubSeq(O, m + 1, Len(O))
             B == [i \in DOMAIN L |-> IF L[i] <= k THEN 0 ELSE L[i] - k]
  <1>1. /\ A \in Seq(Nat) /\ O \in Seq(Write) /\ m \in Nat /\ m <= Len(A) /\ Len(A) <= Len(O)
        /\ own \in [Players -> Seq(Write)] /\ at \in [Players -> Seq(Nat)] /\ k \in Nat
    BY RoundTyped
  <1>2. own' = [own EXCEPT ![z] = P] /\ at' = [at EXCEPT ![z] = B]
    BY DEF Watch
  <1> HIDE DEF A, O, m
  <1>3. P \in Seq(Write) /\ Len(P) = Len(O) - m /\ \A i \in 1..(Len(O) - m) : P[i] = O[i + m]
    BY <1>1, CutItems
  <1>4. L \in Seq(Nat) /\ Len(L) = Len(A) - m /\ \A i \in 1..(Len(A) - m) : L[i] = A[i + m]
    BY SMTT(60), <1>1, CutItems
  <1> HIDE DEF P, L
  <1>5. Len(A) - m \in Nat /\ DOMAIN L = 1..(Len(A) - m)
    BY <1>1, <1>4
  <1>6. B \in Seq(Nat) /\ Len(B) = Len(A) - m
    <2>1. \A i \in 1..(Len(A) - m) : L[i] \in Nat
      BY <1>4, <1>5
    <2>2. B \in [1..(Len(A) - m) -> Nat]
      <3>1. \A a \in Nat : (IF a <= k THEN 0 ELSE a - k) \in Nat
        BY <1>1
      <3> HIDE DEF A, m
      <3> QED
        BY <1>5, <2>1, <3>1
    <2> HIDE DEF B
    <2> QED
      BY <1>5, <2>2
  <1>7. \A i \in 1..(Len(A) - m) : B[i] = IF A[i + m] <= k THEN 0 ELSE A[i + m] - k
    BY <1>4, <1>5
  <1> HIDE DEF B
  <1>8. own'[z] = P /\ at'[z] = B /\ \A x \in Players \ {z} : own'[x] = own[x] /\ at'[x] = at[x]
    BY <1>1, <1>2
  <1>9. \A i \in 1..(Len(O) - m) : P[i] = O[IF i < 1 THEN i ELSE i + m]
    BY <1>1, <1>3
  <1> QED
    BY <1>1, <1>3, <1>6, <1>7, <1>8, <1>9 DEF Forgotten, A, O, m

LEMMA AckForgets ==
    ASSUME IndInv, NEW z \in Players, Ack(z)
    PROVE  /\ at[z][acked[z] + 1] > Shown(z) =>
                  own' = own /\ at' = at /\ acked' = [acked EXCEPT ![z] = acked[z] + 1]
           /\ ~(at[z][acked[z] + 1] > Shown(z)) =>
                  /\ Forgotten(z, acked[z] + 1, 1) /\ acked' = acked
                  /\ \A i \in 1..(Len(at[z]) - 1) :
                         at'[z][i] = at[z][IF i < acked[z] + 1 THEN i ELSE i + 1]
  <1> DEFINE A == at[z]
             O == own[z]
             n == acked[z] + 1
  <1>1. /\ A \in Seq(Nat) /\ O \in Seq(Write) /\ n \in Nat \ {0} /\ n <= Len(A) /\ Len(A) <= Len(O)
        /\ own \in [Players -> Seq(Write)] /\ at \in [Players -> Seq(Nat)] /\ acked \in [Players -> Nat]
    BY SMTT(60), RoundTyped DEF Ack
  <1>2. A[n] \in Nat /\ Shown(z) \in Nat
    <2>1. acked[z] \in Nat
      BY <1>1
    <2>2. acked[z] # 0 => A[acked[z]] \in Nat
      <3> HIDE DEF A
      <3>1. acked[z] # 0 => acked[z] \in 1..Len(A)
        BY <1>1, <2>1
      <3> QED
        BY <1>1, <3>1
    <2>3. A[n] \in Nat
      <3> HIDE DEF A, n
      <3> QED
        BY <1>1
    <2> QED
      BY <2>2, <2>3 DEF Shown
  <1>3. CASE A[n] > Shown(z)
    <2>1. ~(A[n] <= Shown(z))
      BY <1>2, <1>3
    <2> QED
      BY <1>3, <2>1 DEF Ack
  <1>4. CASE ~(A[n] > Shown(z))
    <2>1. A[n] <= Shown(z)
      BY <1>2, <1>4
    <2>2. own' = [own EXCEPT ![z] = Without(O, n)] /\ at' = [at EXCEPT ![z] = Without(A, n)] /\ acked' = acked
      BY <2>1 DEF Ack
    <2> HIDE DEF A, O, n
    <2>3. /\ Without(O, n) \in Seq(Write) /\ Len(Without(O, n)) = Len(O) - 1
          /\ \A i \in 1..(Len(O) - 1) : Without(O, n)[i] = O[IF i < n THEN i ELSE i + 1]
      <3>1. n <= Len(O)
        BY <1>1
      <3> QED
        BY <1>1, <3>1, WithoutItems
    <2>4. /\ Without(A, n) \in Seq(Nat) /\ Len(Without(A, n)) = Len(A) - 1
          /\ \A i \in 1..(Len(A) - 1) : Without(A, n)[i] = A[IF i < n THEN i ELSE i + 1]
      BY <1>1, WithoutItems
    <2>5. own'[z] = Without(O, n) /\ at'[z] = Without(A, n)
          /\ \A x \in Players \ {z} : own'[x] = own[x] /\ at'[x] = at[x]
      BY <1>1, <2>2
    <2>6. n \in Nat /\ 1 \in Nat /\ n >= 1 /\ n - 1 + 1 <= Len(A)
      BY <1>1
    <2>7. Forgotten(z, n, 1)
      BY <2>3, <2>4, <2>5, <2>6 DEF Forgotten, A, O
    <2> QED
      BY <1>4, <2>2, <2>4, <2>5, <2>7 DEF A, n
  <1> QED
    BY <1>3, <1>4

\* What waits for the backend waits as before, further ahead.
LEMMA ForgetWaits ==
    ASSUME IndInv, NEW z \in Players, NEW n, NEW d, Forgotten(z, n, d)
    PROVE  /\ \A i \in Waiting(z)' : i \in Nat /\ i >= n /\ i + d \in Waiting(z) /\ own'[z][i] = own[z][i + d]
           /\ \A i \in Waiting(z) : i \in Nat /\ i - d \in Waiting(z)' /\ own'[z][i - d] = own[z][i]
           /\ \A x \in Players \ {z} : Waiting(x)' = Waiting(x) /\ own'[x] = own[x]
  <1> DEFINE A == Len(at[z])
             O == Len(own[z])
  <1>1. A \in Nat /\ O \in Nat /\ A <= O
    <2>1. at[z] \in Seq(Nat) /\ own[z] \in Seq(Write) /\ Len(at[z]) <= Len(own[z])
      BY RoundTyped
    <2> QED
      BY <2>1
  <1>2. /\ n \in Nat /\ d \in Nat /\ n >= 1 /\ n - 1 + d <= A
        /\ Len(own'[z]) = O - d /\ Len(at'[z]) = A - d
        /\ \A i \in 1..(O - d) : own'[z][i] = own[z][IF i < n THEN i ELSE i + d]
    BY DEF Forgotten
  <1>3. Waiting(z) = (A + 1)..O /\ Waiting(z)' = (A - d + 1)..(O - d)
    BY <1>2 DEF Waiting
  <1> HIDE DEF A, O
  <1>4. \A i \in (A - d + 1)..(O - d) : i \in 1..(O - d) /\ ~(i < n)
    BY <1>1, <1>2
  <1>5. \A i \in (A - d + 1)..(O - d) : own'[z][i] = own[z][i + d]
    BY <1>2, <1>4
  <1>6. \A i \in (A - d + 1)..(O - d) : i \in Nat /\ i >= n /\ i + d \in (A + 1)..O
    BY <1>1, <1>2
  <1>7. \A i \in (A + 1)..O : i \in Nat /\ i - d \in (A - d + 1)..(O - d) /\ i - d + d = i
    BY <1>1, <1>2
  <1>8. \A x \in Players \ {z} : Waiting(x)' = Waiting(x) /\ own'[x] = own[x]
    BY DEF Waiting, Forgotten
  <1>9. \A i \in Waiting(z) : own'[z][i - d] = own[z][i]
    <2> SUFFICES ASSUME NEW i \in (A + 1)..O PROVE own'[z][i - d] = own[z][i]
      BY <1>3
    <2>1. own'[z][i - d] = own[z][i - d + d]
      BY <1>5, <1>7
    <2> QED
      BY <1>7, <2>1
  <1> QED
    BY <1>3, <1>5, <1>6, <1>7, <1>8, <1>9

LEMMA ForgetKeeps ==
    ASSUME IndInv, NEW z \in Players, NEW n, NEW d, Forgotten(z, n, d), server' = server, taps' = taps
    PROVE  /\ \A x \in Players : /\ PickWaits(x)' <=> PickWaits(x)
                                 /\ FullPickWaits(x)' <=> FullPickWaits(x)
                                 /\ Over(x)' <=> Over(x)
           /\ \A x \in Players : \A e : Local(x, e) => Local(x, e)'
           /\ \A e : Past(e) => Past(e)'
  <1>1. ASSUME NEW x \in Players
        PROVE  /\ \A i \in Waiting(x)' : \E j \in Waiting(x) : own'[x][i] = own[x][j]
               /\ \A j \in Waiting(x) : \E i \in Waiting(x)' : own'[x][i] = own[x][j]
    BY ForgetWaits
  <1>2. ASSUME NEW x \in Players
        PROVE  /\ PickWaits(x)' <=> PickWaits(x)
               /\ FullPickWaits(x)' <=> FullPickWaits(x)
               /\ Over(x)' <=> Over(x)
    <2>1. PickWaits(x)' <=> PickWaits(x)
      BY <1>1 DEF PickWaits
    <2>2. FullPickWaits(x)' <=> FullPickWaits(x)
      BY <1>1 DEF FullPickWaits
    <2>3. Over(x)' <=> Over(x)
      BY <1>1 DEF Over
    <2> QED
      BY <2>1, <2>2, <2>3
  <1>3. ASSUME NEW x \in Players, NEW e
        PROVE  Local(x, e) => Local(x, e)'
    BY <1>2, Opposite DEF Local, Unerased
  <1>4. ASSUME NEW e
        PROVE  Past(e) => Past(e)'
    BY <1>2 DEF Past, Unerased
  <1> QED
    BY <1>2, <1>3, <1>4

\* Every write that is left has its place behind those that were before it.
LEMMA ForgetOwn ==
    ASSUME RoundInv, NEW z \in Players, NEW n, NEW d, Forgotten(z, n, d), server' = server, taps' = taps
    PROVE  /\ \A x \in Players : \A i \in DOMAIN own'[x] : \E j \in DOMAIN own[x] : own'[x][i] = own[x][j]
           /\ OwnSound' /\ WaitingSound'
  <1> DEFINE f(i) == IF i < n THEN i ELSE i + d
  <1>0. IndInv
    BY DEF RoundInv
  <1>1. /\ own[z] \in Seq(Write) /\ own'[z] \in Seq(Write)
        /\ n \in Nat /\ d \in Nat /\ n >= 1 /\ Len(own'[z]) = Len(own[z]) - d
        /\ \A i \in 1..(Len(own[z]) - d) : own'[z][i] = own[z][f(i)]
    BY <1>0, RoundTyped DEF Forgotten
  <1>2. \A i \in DOMAIN own'[z] : /\ i \in Nat /\ i >= 1 /\ f(i) \in DOMAIN own[z] /\ f(i) >= i /\ f(i) \in Nat
                                  /\ own'[z][i] = own[z][f(i)]
                                  /\ \A j \in 1..(i - 1) : j \in DOMAIN own'[z] /\ f(j) \in 1..(f(i) - 1)
    <2> DEFINE O == Len(own[z])
               M == Len(own[z]) - d
    <2>1. DOMAIN own'[z] = 1..M /\ DOMAIN own[z] = 1..O /\ O \in Nat /\ M = O - d
      BY <1>1
    <2>2. \A i \in 1..M : own'[z][i] = own[z][f(i)]
      BY <1>1
    <2>3. n \in Nat /\ d \in Nat
      BY <1>1
    <2> HIDE DEF O, M
    <2>4. \A i \in 1..M : i \in Nat /\ i >= 1 /\ f(i) \in 1..O /\ f(i) >= i /\ f(i) \in Nat
      BY <2>1, <2>3
    <2>5. \A i \in 1..M : \A j \in 1..(i - 1) : j \in 1..M
      BY <2>1, <2>3
    <2>6. \A i \in 1..M : \A j \in 1..(i - 1) : f(j) \in 1..(f(i) - 1)
      BY <2>1, <2>3
    <2> QED
      BY <2>1, <2>2, <2>4, <2>5, <2>6
  <1>3. \A x \in Players \ {z} : own'[x] = own[x]
    BY DEF Forgotten
  <1> HIDE DEF f
  <1>4. ASSUME NEW i \in DOMAIN own'[z]
        PROVE  WriteSound(z, i)'
    <2>1. WriteSound(z, f(i))
      BY <1>2 DEF RoundInv, OwnSound
    <2>2. own'[z][i] = own[z][f(i)] /\ f(i) >= i /\ i \in Nat /\ i >= 1 /\ f(i) \in Nat
          /\ \A j \in 1..(i - 1) : f(j) \in 1..(f(i) - 1) /\ own'[z][j] = own[z][f(j)]
      BY <1>2
    <2> QED
      BY <2>1, <2>2 DEF WriteSound
  <1>5. OwnSound'
    <2>1. \A x \in Players \ {z} : \A i \in DOMAIN own'[x] : WriteSound(x, i)'
      BY <1>3 DEF RoundInv, OwnSound, WriteSound
    <2> QED
      BY <1>4, <2>1 DEF OwnSound
  <1>6. ASSUME NEW i \in Waiting(z)'
        PROVE  WaitSound(z, i)'
    <2>1. i \in Nat /\ i + d \in Waiting(z) /\ own'[z][i] = own[z][i + d]
      BY <1>0, ForgetWaits
    <2>2. WaitSound(z, i + d)
      BY <2>1 DEF RoundInv, WaitingSound
    <2>3. ASSUME NEW j \in Waiting(z), j < i + d, IsFinish(own[z][j])
          PROVE  \E k \in Waiting(z)' : k < i /\ IsFinish(own'[z][k])
      <3>1. j - d \in Waiting(z)' /\ own'[z][j - d] = own[z][j] /\ j \in Nat
        BY <1>0, ForgetWaits
      <3>2. j - d < i
        BY <1>1, <2>1, <2>3, <3>1
      <3> QED
        BY <2>3, <3>1, <3>2
    <2> QED
      BY <2>1, <2>2, <2>3 DEF WaitSound
  <1>7. WaitingSound'
    <2>1. \A x \in Players \ {z} : \A i \in Waiting(x)' : WaitSound(x, i)'
      BY <1>0, ForgetWaits DEF RoundInv, WaitingSound, WaitSound
    <2> QED
      BY <1>6, <2>1 DEF WaitingSound
  <1> QED
    BY <1>2, <1>3, <1>5, <1>7

\* Versions and writes that are left keep their order.
LEMMA AckFeeds ==
    ASSUME RoundInv, NEW z \in Players, Ack(z)
    PROVE  FeedSound'
  <1> DEFINE A == at[z]
             O == own[z]
             m == acked[z]
             F == feed[z]
  <1>0. IndInv
    BY DEF RoundInv
  <1>1. server' = server /\ base' = base /\ feed' = feed
    BY DEF Ack
  <1>2. /\ A \in Seq(Nat) /\ m \in Nat /\ m + 1 <= Len(A) /\ acked \in [Players -> Nat]
    BY <1>0, RoundTyped DEF Ack
  <1>3. Feeds(server, base[z], F, O, A, m)
    BY DEF RoundInv, FeedSound
  <1>4. CASE A[m + 1] > Shown(z)
    <2>1. own' = own /\ at' = at /\ acked' = [acked EXCEPT ![z] = m + 1]
      BY <1>0, <1>4, AckForgets
    <2>2. Shown(z) \in Nat /\ A[m + 1] \in Nat
      <3>1. m # 0 => m \in 1..Len(A)
        BY <1>2
      <3>2. m # 0 => A[m] \in Nat
        <4> HIDE DEF A, m
        <4> QED
          BY <1>2, <3>1
      <3>3. A[m + 1] \in Nat
        <4> HIDE DEF A, m
        <4> QED
          BY <1>2
      <3> QED
        BY <3>2, <3>3 DEF Shown
    <2>3. A[m + 1] > 0 /\ acked'[z] = m + 1
      BY <1>2, <1>4, <2>1, <2>2
    <2> HIDE DEF A, O, m, F
    <2>4. Feeds(server, base[z], F, O, A, m + 1)
      BY <1>3, <2>3 DEF Feeds
    <2>5. \A x \in Players \ {z} : acked'[x] = acked[x]
      BY <1>2, <2>1
    <2>6. \A x \in Players \ {z} : Feeds(server', base'[x], feed'[x], own'[x], at'[x], acked'[x])
      BY <1>1, <2>1, <2>5 DEF RoundInv, FeedSound
    <2>7. Feeds(server', base'[z], feed'[z], own'[z], at'[z], acked'[z])
      BY <1>1, <2>1, <2>3, <2>4 DEF A, O, F
    <2> QED
      BY <2>6, <2>7 DEF FeedSound
  <1>5. CASE ~(A[m + 1] > Shown(z))
    <2> DEFINE n == m + 1
               f(i) == IF i < n THEN i ELSE i + 1
               A2 == at'[z]
               O2 == own'[z]
    <2>1. /\ Forgotten(z, n, 1) /\ acked' = acked
          /\ \A i \in 1..(Len(A) - 1) : A2[i] = A[f(i)]
      BY <1>0, <1>5, AckForgets
    <2>2. /\ A2 \in Seq(Nat) /\ Len(A2) = Len(A) - 1
          /\ \A i \in 1..(Len(O) - 1) : O2[i] = O[f(i)]
          /\ \A x \in Players \ {z} : own'[x] = own[x] /\ at'[x] = at[x]
      BY <2>1 DEF Forgotten
    <2>3. Len(A) <= Len(O) /\ Len(A) \in Nat /\ Len(O) \in Nat
      <3>1. Len(A) <= Len(O) /\ O \in Seq(Write) /\ A \in Seq(Nat)
        BY <1>0, RoundTyped
      <3> QED
        BY <3>1
    <2> HIDE DEF A, O, m, F, A2, O2
    <2>4. \A i \in DOMAIN A2 : /\ i \in Nat /\ f(i) \in DOMAIN A /\ f(i) \in Nat
                               /\ A2[i] = A[f(i)] /\ O2[i] = O[f(i)]
      <3> DEFINE a == Len(A)
                 o == Len(O)
      <3>1. DOMAIN A2 = 1..(a - 1) /\ DOMAIN A = 1..a
        BY <1>2, <2>2
      <3>2. a \in Nat /\ o \in Nat /\ a <= o /\ m \in Nat
        BY <1>2, <2>3
      <3>3. \A i \in 1..(a - 1) : A2[i] = A[f(i)]
        BY <2>1
      <3>4. \A i \in 1..(o - 1) : O2[i] = O[f(i)]
        BY <2>2
      <3> HIDE DEF a, o
      <3>5. \A i \in 1..(a - 1) : i \in Nat /\ i \in 1..(o - 1) /\ f(i) \in 1..a /\ f(i) \in Nat
        BY <3>2
      <3> QED
        BY <3>1, <3>3, <3>4, <3>5
    <2>5. \A i, j \in DOMAIN A2 : i < j => f(i) < f(j)
      BY SMTT(60), <1>2, <2>4
    <2>6. m > 0 => A2[m] = A[m]
      <3>1. m > 0 => m \in 1..(Len(A) - 1) /\ m < n
        BY <1>2, <2>3
      <3> QED
        BY <2>1, <3>1
    <2> HIDE DEF f
    <2>7. Feeds(server, base[z], F, O2, A2, m)
      <3>1. /\ \A i \in DOMAIN A2 : A2[i] <= Len(F)
            /\ \A i, j \in DOMAIN A2 : i < j => A2[i] <= A2[j]
        BY <1>3, <2>4, <2>5 DEF Feeds
      <3>2. \A i \in DOMAIN A2 :
               /\ A2[i] = 0 /\ Full(O2[i].doc) => Full(base[z])
               /\ A2[i] > 0 => (Full(O2[i].doc) <=> Full(F[A2[i]]))
        BY <1>3, <2>4 DEF Feeds
      <3> QED
        BY <1>3, <2>6, <3>1, <3>2 DEF Feeds
    <2>8. \A x \in Players \ {z} : Feeds(server', base'[x], feed'[x], own'[x], at'[x], acked'[x])
      BY <1>1, <2>1, <2>2 DEF RoundInv, FeedSound
    <2>9. Feeds(server', base'[z], feed'[z], own'[z], at'[z], acked'[z])
      BY <1>1, <2>1, <2>7 DEF A2, O2, F, m
    <2> QED
      BY <2>8, <2>9 DEF FeedSound
  <1> QED
    BY <1>4, <1>5

LEMMA WatchFeeds ==
    ASSUME RoundInv, NEW z \in Players, NEW k \in 1..Len(feed[z]), Watch(z, k)
    PROVE  FeedSound'
  <1> DEFINE A == at[z]
             O == own[z]
             m == acked[z]
             F == feed[z]
             A2 == at'[z]
             O2 == own'[z]
             F2 == feed'[z]
             b2 == feed[z][k]
             l == Len(feed[z])
             a == Len(at[z]) - m
  <1>0. IndInv
    BY DEF RoundInv
  <1>1. /\ base \in [Players -> Game] /\ feed \in [Players -> Seq(Game)] /\ acked \in [Players -> Nat]
        /\ A \in Seq(Nat) /\ O \in Seq(Write) /\ F \in Seq(Game)
        /\ m \in Nat /\ m <= Len(A) /\ Len(A) <= Len(O)
    BY <1>0, RoundTyped
  <1>2. Feeds(server, base[z], F, O, A, m)
    BY DEF RoundInv, FeedSound
  <1>3. /\ server' = server /\ base'[z] = b2 /\ F2 = SubSeq(F, k + 1, Len(F)) /\ acked'[z] = 0
        /\ \A x \in Players \ {z} : base'[x] = base[x] /\ feed'[x] = feed[x] /\ acked'[x] = acked[x]
    BY <1>1 DEF Watch
  <1>4. l \in Nat /\ k \in 1..l /\ DOMAIN F = 1..l
    BY <1>1
  <1>5. F2 \in Seq(Game) /\ Len(F2) = l - k /\ \A i \in 1..(l - k) : F2[i] = F[i + k]
    <2>1. k \in Nat /\ k <= Len(F)
      BY <1>4
    <2> HIDE DEF F, F2
    <2> QED
      BY <1>1, <1>3, <2>1, CutItems DEF F
  <1>6. /\ Forgotten(z, 1, m)
        /\ \A i \in 1..a : A2[i] = IF A[i + m] <= k THEN 0 ELSE A[i + m] - k
    BY <1>0, WatchForgets
  <1>7. /\ A2 \in Seq(Nat) /\ Len(A2) = a
        /\ \A i \in 1..(Len(O) - m) : O2[i] = O[IF i < 1 THEN i ELSE i + m]
        /\ \A x \in Players \ {z} : own'[x] = own[x] /\ at'[x] = at[x]
    BY <1>6 DEF Forgotten
  <1>8. \A x \in Players \ {z} : Feeds(server', base'[x], feed'[x], own'[x], at'[x], acked'[x])
    BY <1>3, <1>7 DEF RoundInv, FeedSound
  <1>9. a \in Nat /\ DOMAIN A2 = 1..a /\ DOMAIN A = 1..(a + m) /\ \A i \in 1..a : i \in 1..(Len(O) - m)
    <2>1. Len(A) \in Nat /\ Len(O) \in Nat
      BY <1>1
    <2> QED
      BY SMTT(60), <1>1, <1>7, <2>1
  <1>10. DOMAIN F2 = 1..(l - k)
    BY <1>5, <1>4
  <1> HIDE DEF A, O, F, A2, O2, F2, b2, l, a, m
  <1>11. \A i \in 1..a : /\ i \in Nat /\ i + m \in DOMAIN A /\ A[i + m] \in Nat
                         /\ O2[i] = O[i + m] /\ A[i + m] <= l
                         /\ A2[i] = IF A[i + m] <= k THEN 0 ELSE A[i + m] - k
    <2>1. \A i \in 1..a : i \in Nat /\ i + m \in DOMAIN A /\ ~(i < 1)
      BY <1>1, <1>9
    <2>2. \A i \in DOMAIN A : A[i] \in Nat /\ A[i] <= l
      BY <1>1, <1>2 DEF Feeds, l, F
    <2> QED
      BY <1>6, <1>7, <1>9, <2>1, <2>2
  <1>12. \A i \in 1..(l - k) : i \in Nat /\ i + k \in 1..l /\ F2[i] = F[i + k]
    BY <1>4, <1>5
  <1>13. \A i \in 1..l : i <= k => (Full(F[i]) => Full(b2))
    BY <1>2, <1>4 DEF Feeds, b2, F
  <1>14. Full(base[z]) => Full(b2)
    BY <1>2, <1>4 DEF Feeds, b2, F
  <1>15. \A i \in DOMAIN A2 : A2[i] <= l - k
    BY <1>4, <1>9, <1>11
  <1>16. \A i, j \in DOMAIN A2 : i < j => A2[i] <= A2[j]
    <2> SUFFICES ASSUME NEW i \in 1..a, NEW j \in 1..a, i < j PROVE A2[i] <= A2[j]
      BY <1>9
    <2>1. i + m < j + m
      BY <1>1, <1>11
    <2>2. A[i + m] <= A[j + m]
      BY <1>2, <1>11, <2>1 DEF Feeds
    <2> QED
      BY <1>4, <1>11, <2>2
  <1>17. server = IF F2 = << >> THEN b2 ELSE F2[Len(F2)]
    <2>1. server = F[l]
      <3>1. F # << >>
        BY <1>4
      <3> QED
        BY <1>2, <3>1 DEF Feeds, l, F
    <2>2. CASE l = k
      <3>1. F2 = << >>
        BY <1>4, <1>5, <2>2
      <3> QED
        BY <2>1, <2>2, <3>1 DEF b2, F
    <2>3. CASE l # k
      <3>1. l - k \in 1..(l - k) /\ l - k + k = l
        BY <1>4, <2>3
      <3>2. F2 # << >> /\ F2[Len(F2)] = F[l]
        BY <1>5, <1>10, <1>12, <3>1
      <3> QED
        BY <2>1, <3>2
    <2> QED
      BY <2>2, <2>3
  <1>18. \A i \in DOMAIN F2 : Full(b2) => Full(F2[i])
    <2> SUFFICES ASSUME NEW i \in 1..(l - k), Full(b2) PROVE Full(F2[i])
      BY <1>10
    <2>1. F2[i] = F[i + k] /\ i + k \in DOMAIN F /\ k \in DOMAIN F /\ k < i + k
      BY <1>4, <1>12
    <2>2. b2 = F[k]
      BY DEF b2, F
    <2> QED
      BY <1>2, <2>1, <2>2 DEF Feeds
  <1>19. \A i, j \in DOMAIN F2 : i < j /\ Full(F2[i]) => Full(F2[j])
    <2> SUFFICES ASSUME NEW i \in 1..(l - k), NEW j \in 1..(l - k), i < j, Full(F2[i]) PROVE Full(F2[j])
      BY <1>10
    <2>1. F2[i] = F[i + k] /\ i + k \in DOMAIN F /\ F2[j] = F[j + k] /\ j + k \in DOMAIN F /\ i + k < j + k
      BY <1>4, <1>12
    <2> QED
      BY <1>2, <2>1 DEF Feeds
  <1>20. \A i \in DOMAIN A2 :
             /\ A2[i] = 0 /\ Full(O2[i].doc) => Full(b2)
             /\ A2[i] > 0 => (Full(O2[i].doc) <=> Full(F2[A2[i]]))
    <2> SUFFICES ASSUME NEW i \in 1..a
                 PROVE  /\ A2[i] = 0 /\ Full(O2[i].doc) => Full(b2)
                        /\ A2[i] > 0 => (Full(O2[i].doc) <=> Full(F2[A2[i]]))
      BY <1>9
    <2> DEFINE c == A[i + m]
    <2>1. /\ c \in Nat /\ c <= l /\ O2[i] = O[i + m]
          /\ A2[i] = IF c <= k THEN 0 ELSE c - k
      BY <1>11
    <2>2. /\ c = 0 /\ Full(O2[i].doc) => Full(base[z])
          /\ c > 0 => (Full(O2[i].doc) <=> Full(F[c]))
      BY <1>2, <1>11 DEF Feeds
    <2> HIDE DEF c
    <2>3. CASE c <= k
      <3>1. c > 0 => c \in 1..l
        BY <1>4, <2>1
      <3> QED
        BY <1>4, <1>13, <1>14, <2>1, <2>2, <2>3, <3>1
    <2>4. CASE ~(c <= k)
      <3>1. A2[i] = c - k /\ c - k \in 1..(l - k) /\ c - k + k = c /\ c > 0
        BY <1>4, <2>1, <2>4
      <3>2. F2[A2[i]] = F[c]
        BY <1>12, <3>1
      <3> QED
        BY <1>4, <2>2, <3>1, <3>2
    <2> QED
      BY <2>3, <2>4
  <1>21. Feeds(server, b2, F2, O2, A2, 0)
    <2>1. ~(0 > 0)
      OBVIOUS
    <2> QED
      BY <1>5, <1>15, <1>16, <1>17, <1>18, <1>19, <1>20, <2>1 DEF Feeds
  <1> QED
    BY <1>3, <1>8, <1>21 DEF FeedSound, A2, O2, F2

\* Whether a view is full, its last write tells, if it is one of a whole game.
LastFull(b, ws) ==
    IF \E i \in DOMAIN ws : ws[i].whole THEN ws[Len(ws)].whole /\ Full(ws[Len(ws)].doc) ELSE Full(b)

LEMMA OverlayFull ==
    ASSUME NEW b, NEW ws \in Seq(Write), \A i \in DOMAIN ws : ~ws[i].whole => i = 1
    PROVE  Full(Overlay(b, ws)) <=> LastFull(b, ws)
  <1>1. CASE \E i \in DOMAIN ws : ws[i].whole
    <2> DEFINE n == Len(ws)
    <2>1. n \in DOMAIN ws /\ \A i \in DOMAIN ws : i \in Nat /\ i <= n
      BY <1>1
    <2>2. PICK i \in DOMAIN ws : ws[i].whole
      BY <1>1
    <2>3. ws[n].whole
      <3>1. CASE i = n
        BY <2>2, <3>1
      <3>2. CASE i # n
        <4>1. i >= 1 /\ n # 1
          BY <2>1, <2>2, <3>2
        <4> QED
          BY <2>1, <4>1
      <3> QED
        BY <3>1, <3>2
    <2> QED
      BY <1>1, <2>3, OverlayMoves DEF LastFull, Full, NotIdle
  <1>2. CASE ~\E i \in DOMAIN ws : ws[i].whole
    BY <1>2, OverlayMoves DEF LastFull, Full, NotIdle
  <1> QED
    BY <1>1, <1>2

\* A state alone has no moves.
LEMMA StateNotFull ==
    ASSUME NEW x \in Players, NEW i, WriteSound(x, i), ~own[x][i].whole
    PROVE  i = 1 /\ ~Full(own[x][i].doc)
  <1>1. own[x][i] = updateGameStatus("inprogress") /\ i = 1
    BY DEF WriteSound
  <1>2. \A p \in Players : own[x][i].doc.moves[p] = "idle"
    BY <1>1 DEF updateGameStatus, Created
  <1> QED
    BY <1>1, <1>2 DEF Full, NotIdle, Players

LEMMA AckViews ==
    ASSUME RoundInv, NEW z \in Players, Ack(z), LastFull(base[z], own[z])
    PROVE  LastFull(base'[z], own'[z])
  <1> DEFINE A == at[z]
             O == own[z]
             O2 == own'[z]
             m == acked[z]
             b == base[z]
  <1>0. IndInv /\ base' = base
    BY DEF RoundInv, Ack
  <1>1. A \in Seq(Nat) /\ m \in Nat /\ m + 1 <= Len(A) /\ Len(A) <= Len(O) /\ O \in Seq(Write)
    BY <1>0, RoundTyped DEF Ack
  <1>2. CASE A[m + 1] > Shown(z)
    BY <1>0, <1>2, AckForgets
  <1>3. CASE ~(A[m + 1] > Shown(z))
    <2> DEFINE n == m + 1
               l == Len(O)
               f(i) == IF i < n THEN i ELSE i + 1
    <2>1. Forgotten(z, n, 1)
      BY <1>0, <1>3, AckForgets
    <2>2. O2 \in Seq(Write) /\ Len(O2) = l - 1 /\ \A i \in 1..(l - 1) : O2[i] = O[f(i)]
      BY <2>1 DEF Forgotten
    <2>3. l \in Nat /\ n \in 1..l /\ DOMAIN O = 1..l /\ DOMAIN O2 = 1..(l - 1)
      <3>1. l \in Nat /\ Len(A) \in Nat
        BY <1>1
      <3> QED
        BY SMTT(60), <1>1, <2>2, <3>1
    <2>4. Feeds(server, b, feed[z], O, A, m)
      BY DEF RoundInv, FeedSound
    <2>5. \A i \in 1..l : ~O[i].whole => i = 1 /\ ~Full(O[i].doc)
      <3>1. \A i \in 1..l : WriteSound(z, i)
        BY <2>3 DEF RoundInv, OwnSound
      <3> QED
        BY <3>1, StateNotFull
    <2>6. LastFull(b, O)
      BY <1>0
    <2>7. Shown(z) = IF m = 0 THEN 0 ELSE A[m]
      BY DEF Shown
    <2>8. A[n] \in Nat /\ n \in DOMAIN A /\ (m # 0 => m \in DOMAIN A /\ A[m] \in Nat)
      <3>1. Len(A) \in Nat /\ n \in 1..Len(A) /\ (m # 0 => m \in 1..Len(A))
        BY <1>1
      <3> HIDE DEF A, m, n
      <3> QED
        BY <1>1, <3>1
    <2> HIDE DEF A, O, O2, b, l
    <2>9. CASE ~\E i \in 1..l : O[i].whole
      <3>1. Full(b)
        BY <2>3, <2>6, <2>9 DEF LastFull
      <3>2. \A i \in 1..(l - 1) : f(i) \in 1..l
        BY <2>3
      <3>3. ~\E i \in 1..(l - 1) : O2[i].whole
        BY <2>2, <2>9, <3>2
      <3> QED
        BY <1>0, <2>3, <3>1, <3>3 DEF LastFull, O2, b
    <2>10. CASE \E i \in 1..l : O[i].whole
      <3>1. O[l].whole /\ Full(O[l].doc)
        <4>1. Len(O) = l
          BY DEF l
        <4> QED
          BY <2>3, <2>6, <2>10, <4>1 DEF LastFull
      <3>2. CASE n < l
        <4>1. l - 1 \in 1..(l - 1) /\ f(l - 1) = l
          BY <2>3, <3>2
        <4>2. O2[l - 1] = O[l]
          BY <2>2, <4>1
        <4> QED
          BY <1>0, <2>2, <2>3, <3>1, <4>1, <4>2 DEF LastFull, O2, b
      <3>3. CASE n = l /\ n > 1
        <4>1. m \in 1..(l - 1) /\ m = l - 1 /\ m > 0 /\ m < n
          BY <1>1, <2>3, <3>3
        <4>2. A[m] > 0 /\ A[m] <= A[n] /\ A[n] <= A[m]
          BY <1>3, <2>4, <2>7, <2>8, <4>1 DEF Feeds
        <4>3. A[m] = A[n]
          BY <2>8, <4>1, <4>2
        <4>4. Full(O[m].doc)
          BY <2>4, <2>8, <3>1, <3>3, <4>1, <4>2, <4>3 DEF Feeds
        <4>5. O[m].whole
          BY <2>3, <2>5, <4>1, <4>4
        <4>6. f(m) = m
          BY <4>1
        <4>7. O2[m] = O[m]
          BY <2>2, <4>1, <4>6
        <4> QED
          BY <1>0, <2>2, <2>3, <4>1, <4>4, <4>5, <4>7 DEF LastFull, O2, b
      <3>4. CASE n = l /\ n = 1
        <4>1. m = 0 /\ l - 1 = 0
          BY <1>1, <3>4
        <4>2. A[n] = 0
          BY <1>3, <2>7, <2>8, <4>1
        <4>3. Full(b)
          BY <2>4, <2>8, <3>1, <3>4, <4>2 DEF Feeds
        <4>4. ~\E i \in DOMAIN O2 : O2[i].whole
          BY <2>3, <4>1
        <4> QED
          BY <1>0, <4>3, <4>4 DEF LastFull, O2, b
      <3> QED
        BY <2>3, <3>2, <3>3, <3>4
    <2> QED
      BY <2>9, <2>10
  <1> QED
    BY <1>2, <1>3

LEMMA WatchViews ==
    ASSUME RoundInv, NEW z \in Players, NEW k \in 1..Len(feed[z]), Watch(z, k), LastFull(base[z], own[z])
    PROVE  LastFull(base'[z], own'[z])
  <1> DEFINE A == at[z]
             O == own[z]
             O2 == own'[z]
             m == acked[z]
             l == Len(O)
             b == base[z]
             b2 == feed[z][k]
             F == feed[z]
  <1>0. IndInv
    BY DEF RoundInv
  <1>1. /\ A \in Seq(Nat) /\ m \in Nat /\ m <= Len(A) /\ Len(A) <= l /\ O \in Seq(Write)
        /\ F \in Seq(Game) /\ base \in [Players -> Game]
    BY <1>0, RoundTyped
  <1>2. base'[z] = b2 /\ Shown(z) <= k
    BY <1>1 DEF Watch
  <1>3. Forgotten(z, 1, m)
    BY <1>0, WatchForgets
  <1>4. O2 \in Seq(Write) /\ Len(O2) = l - m /\ \A i \in 1..(l - m) : O2[i] = O[IF i < 1 THEN i ELSE i + m]
    BY <1>3 DEF Forgotten
  <1>5. l \in Nat /\ m \in 0..l /\ DOMAIN O = 1..l /\ DOMAIN O2 = 1..(l - m) /\ k \in Nat
    <2>1. l \in Nat /\ Len(A) \in Nat
      BY <1>1
    <2> QED
      BY <1>1, <1>4, <2>1
  <1>6. \A i \in 1..(l - m) : i + m \in 1..l /\ O2[i] = O[i + m]
    <2>1. \A i \in 1..(l - m) : i + m \in 1..l /\ ~(i < 1)
      BY <1>5
    <2> QED
      BY <1>4, <2>1
  <1>7. Feeds(server, b, F, O, A, m)
    BY DEF RoundInv, FeedSound
  <1>8. k \in DOMAIN F /\ DOMAIN F = 1..Len(F) /\ Len(F) \in Nat
    BY <1>1
  <1>9. m # 0 => m \in DOMAIN A /\ A[m] \in Nat /\ A[m] <= k
    <2>1. m # 0 => m \in 1..Len(A) /\ A[m] <= k
      BY <1>1, <1>2 DEF Shown
    <2> HIDE DEF A, m
    <2> QED
      BY <1>1, <2>1
  <1>10. LastFull(b, O)
    OBVIOUS
  <1> HIDE DEF A, O, O2, m, l, b, b2, F
  <1>11. CASE ~\E i \in 1..l : O[i].whole
    <2>1. Full(b)
      BY <1>5, <1>10, <1>11 DEF LastFull
    <2>2. Full(b2)
      BY <1>7, <1>8, <2>1 DEF Feeds, b2, F
    <2>3. ~\E i \in 1..(l - m) : O2[i].whole
      BY <1>6, <1>11
    <2> QED
      BY <1>2, <1>5, <2>2, <2>3 DEF LastFull, O2
  <1>12. CASE \E i \in 1..l : O[i].whole
    <2>1. O[l].whole /\ Full(O[l].doc) /\ l > 0
      <3>1. Len(O) = l
        BY DEF l
      <3> QED
        BY <1>5, <1>10, <1>12, <3>1 DEF LastFull
    <2>2. CASE m < l
      <3>1. l - m \in 1..(l - m) /\ l - m + m = l
        BY <1>5, <2>2
      <3>2. O2[l - m] = O[l]
        BY <1>6, <3>1
      <3> QED
        BY <1>4, <1>5, <2>1, <3>1, <3>2 DEF LastFull, O2
    <2>3. CASE m = l
      <3>1. m # 0 /\ m > 0
        BY <1>5, <2>1, <2>3
      <3>2. A[m] > 0 /\ A[m] <= k /\ A[m] \in Nat /\ m \in DOMAIN A
        BY <1>7, <1>9, <3>1 DEF Feeds
      <3>3. Full(F[A[m]])
        BY <1>7, <2>1, <2>3, <3>2 DEF Feeds
      <3>4. A[m] \in DOMAIN F
        BY <1>5, <1>8, <3>2
      <3>5. Full(b2)
        <4>1. CASE A[m] = k
          BY <3>3, <4>1 DEF b2, F
        <4>2. CASE A[m] < k
          BY <1>7, <1>8, <3>3, <3>4, <4>2 DEF Feeds, b2, F
        <4> QED
          BY <1>5, <3>2, <4>1, <4>2
      <3>6. ~\E i \in DOMAIN O2 : O2[i].whole
        BY <1>5, <2>3
      <3> QED
        BY <1>2, <3>5, <3>6 DEF LastFull, O2
    <2> QED
      BY <1>5, <2>2, <2>3
  <1> QED
    BY <1>11, <1>12

-----------------------------------------------------------------------------
(***************************************************************************)
(* What a step shows a device.                                             *)
(***************************************************************************)
\* Local(x, d)' and Past(d)', for the d there is now.
LocalNext(x, d) ==
    /\ Full(d) => Full(server') \/ FullPickWaits(x)'
    /\ Closing(d) => Over(x)'
    /\ server'.state = "starting" /\ x = Acceptor => d.state = "starting"
    /\ PickWaits(Opponent(x))' => ~NotIdle(d, Opponent(x))
    /\ taps'[x] = << >> /\ NotIdle(d, Opponent(x)) => NotIdle(server', Opponent(x))
PastNext(d) ==
    /\ Full(d) => Full(server')
    /\ Closing(d) => server'.state = "finished"
    /\ server'.state = "starting" => d.state = "starting"
    /\ \A x \in Players : /\ PickWaits(x)' => ~NotIdle(d, x)
                          /\ taps'[x] = << >> /\ NotIdle(d, Opponent(x)) => NotIdle(server', Opponent(x))

\* z's view has doc, and z's listener is told, or not, after q.
Presents(z, doc, q) ==
    /\ seen' = [seen EXCEPT ![z] = doc]
    /\ \E told \in {<< >>, <<doc>>} : cb' = [cb EXCEPT ![z] = q \o told]

LEMMA SeePresents ==
    ASSUME NEW z \in Players, NEW doc, NEW q, See(z, doc, q)
    PROVE  Presents(z, doc, q)
  BY DEF See, Presents, Told

LEMMA Presented ==
    ASSUME IndInv, NEW z \in Players, NEW q \in Seq(Game), NEW doc \in Game, Presents(z, doc, q)
    PROVE  /\ seen'[z] = doc /\ \A x \in Players \ {z} : seen'[x] = seen[x] /\ cb'[x] = cb[x]
           /\ \A i \in DOMAIN cb'[z] : /\ i \in Nat
                                       /\ \/ i \in DOMAIN q /\ cb'[z][i] = q[i]
                                          \/ i = Len(q) + 1 /\ cb'[z][i] = doc
  <1>1. seen \in [Players -> Game] /\ cb \in [Players -> Seq(Game)]
    BY RoundTyped
  <1>2. seen'[z] = doc /\ \A x \in Players \ {z} : seen'[x] = seen[x]
    BY <1>1 DEF Presents
  <1>3. PICK told \in {<< >>, <<doc>>} : cb' = [cb EXCEPT ![z] = q \o told]
    BY DEF Presents
  <1>4. cb'[z] = q \o told /\ \A x \in Players \ {z} : cb'[x] = cb[x]
    BY <1>1, <1>3
  <1>5. told \in Seq(Game) /\ Len(told) \in {0, 1} /\ (Len(told) = 1 => told[1] = doc)
    <2>1. CASE told = << >>
      BY <2>1
    <2>2. CASE told = <<doc>>
      BY <2>2
    <2> QED
      BY <1>3, <2>1, <2>2
  <1>6. \A i \in DOMAIN (q \o told) : /\ i \in Nat
                                      /\ \/ i \in DOMAIN q /\ (q \o told)[i] = q[i]
                                         \/ i = Len(q) + 1 /\ (q \o told)[i] = doc
    BY <1>5
  <1> QED
    BY <1>2, <1>4, <1>6

\* What mixes documents a device has is a document it has.
LEMMA MixLocal ==
    ASSUME NEW x \in Players, NEW d, NEW m, NEW s, NEW v,
           d.moves = m.moves, d.state = s.state, d.winner = v.winner,
           LocalNext(x, m), LocalNext(x, s), LocalNext(x, v)
    PROVE  LocalNext(x, d)
  BY DEF LocalNext, Full, NotIdle, Closing

LEMMA PastLocal ==
    ASSUME NEW x \in Players, NEW d, PastNext(d)
    PROVE  LocalNext(x, d)
  BY Opposite DEF PastNext, LocalNext, Over

LEMMA ViewLocal ==
    ASSUME IndInv', VersionsSound', NEW x \in Players,
           \A i \in DOMAIN own'[x] : LocalNext(x, own'[x][i].doc)
    PROVE  LocalNext(x, Overlay(base'[x], own'[x]))
  <1> DEFINE b == base'[x]
             O == own'[x]
  <1>1. O \in Seq(Write)
    <2>1. Typed'
      BY IndTyped, PTL
    <2> QED
      BY <2>1 DEF Typed
  <1>2. PastNext(b)
    BY DEF VersionsSound, Past, PastNext, Unerased
  <1>3. LocalNext(x, b)
    BY <1>2, PastLocal
  <1>4. \A e \in {b} \cup {O[i].doc : i \in DOMAIN O} : LocalNext(x, e)
    BY <1>3
  <1> HIDE DEF b, O
  <1>5. PICK m, s, v \in {b} \cup {O[i].doc : i \in DOMAIN O} :
            /\ Overlay(b, O).moves = m.moves
            /\ Overlay(b, O).state = s.state
            /\ Overlay(b, O).winner = v.winner
    BY <1>1, OverlayMixes
  <1>6. LocalNext(x, m) /\ LocalNext(x, s) /\ LocalNext(x, v)
    BY <1>4
  <1>7. LocalNext(x, Overlay(b, O))
    BY <1>5, <1>6, MixLocal
  <1> QED
    BY <1>7 DEF b, O

LEMMA PresentedLocal ==
    ASSUME IndInv, IndInv', VersionsSound', NEW z \in Players, NEW q \in Seq(Game), NEW doc \in Game,
           doc \in {seen[z], Overlay(base'[z], own'[z])}, Presents(z, doc, q),
           \A x \in Players : LocalNext(x, seen[x]) /\ LocalNext(x, game'[x]),
           \A x \in Players : \A i \in DOMAIN cb[x] : LocalNext(x, cb[x][i]),
           \A i \in DOMAIN q : LocalNext(z, q[i]),
           \A x \in Players : \A i \in DOMAIN own'[x] : LocalNext(x, own'[x][i].doc)
    PROVE  CopiesSound'
  <1>1. LocalNext(z, doc)
    BY ViewLocal
  <1>2. \A x \in Players : LocalNext(x, seen'[x])
    BY <1>1, Presented
  <1>3. ASSUME NEW x \in Players, NEW i \in DOMAIN cb'[x]
        PROVE  LocalNext(x, cb'[x][i])
    <2>1. CASE x = z
      <3>1. \/ i \in DOMAIN q /\ cb'[z][i] = q[i]
            \/ cb'[z][i] = doc
        BY <1>3, <2>1, Presented
      <3> QED
        BY <1>1, <2>1, <3>1
    <2>2. CASE x # z
      <3>1. cb'[x] = cb[x]
        BY <2>2, Presented
      <3> QED
        BY <3>1
    <2> QED
      BY <2>1, <2>2
  <1> QED
    BY <1>2, <1>3 DEF CopiesSound, Local, LocalNext, Unerased

LEMMA PresentedFull ==
    ASSUME IndInv, ViewFull, NEW z \in Players, NEW q \in Seq(Game), NEW doc \in Game,
           doc \in {seen[z], Overlay(base'[z], own'[z])}, Presents(z, doc, q),
           Full(seen[z]) => Full(Overlay(base'[z], own'[z])),
           \A x \in Players \ {z} : base'[x] = base[x] /\ own'[x] = own[x] /\ game'[x] = game[x],
           Full(game'[z]) => Full(seen[z]) /\ \A i \in DOMAIN q : Full(q[i]),
           \A i \in DOMAIN q : Full(q[i]) => Full(seen[z]) /\ \A j \in DOMAIN q : i < j => Full(q[j])
    PROVE  ViewFull'
  <1> DEFINE Good(g, s, c, o) == /\ Full(g) => Full(s) /\ \A i \in DOMAIN c : Full(c[i])
                                 /\ \A i \in DOMAIN c : Full(c[i]) =>
                                        Full(s) /\ \A j \in DOMAIN c : i < j => Full(c[j])
                                 /\ Full(s) => Full(o)
  <1>1. \A x \in Players : Good(game[x], seen[x], cb[x], Overlay(base[x], own[x]))
    BY DEF ViewFull
  <1>2. Full(seen[z]) => Full(doc)
    OBVIOUS
  <1>3. Full(doc) => Full(Overlay(base'[z], own'[z]))
    OBVIOUS
  <1> DEFINE c2 == cb'[z]
             l == Len(q)
  <1>4. \A i \in DOMAIN c2 : i \in Nat /\ ((i \in DOMAIN q /\ c2[i] = q[i]) \/ (i = l + 1 /\ c2[i] = doc))
    BY Presented
  <1>5. DOMAIN q = 1..l /\ l \in Nat
    OBVIOUS
  <1>6. seen'[z] = doc
    BY Presented
  <1> HIDE DEF c2, l
  <1>7. Full(game'[z]) => Full(doc) /\ \A i \in DOMAIN c2 : Full(c2[i])
    BY <1>2, <1>4
  <1>8. \A i \in DOMAIN c2 : Full(c2[i]) => Full(doc) /\ \A j \in DOMAIN c2 : i < j => Full(c2[j])
    <2> SUFFICES ASSUME NEW i \in DOMAIN c2, Full(c2[i])
                 PROVE  Full(doc) /\ \A j \in DOMAIN c2 : i < j => Full(c2[j])
      OBVIOUS
    <2>1. Full(doc)
      BY <1>2, <1>4
    <2>2. ASSUME NEW j \in DOMAIN c2, i < j
          PROVE  Full(c2[j])
      <3>1. CASE i \in DOMAIN q /\ c2[i] = q[i]
        BY <1>4, <2>1, <2>2, <3>1
      <3>2. CASE i = l + 1
        <4>1. j \notin DOMAIN q
          BY <1>4, <1>5, <2>2, <3>2
        <4> QED
          BY <1>4, <2>1, <4>1
      <3> QED
        BY <1>4, <3>1, <3>2
    <2> QED
      BY <2>1, <2>2
  <1>9. Good(game'[z], seen'[z], cb'[z], Overlay(base'[z], own'[z]))
    BY <1>3, <1>6, <1>7, <1>8 DEF c2
  <1>10. \A x \in Players \ {z} : Good(game'[x], seen'[x], cb'[x], Overlay(base'[x], own'[x]))
    <2>1. \A x \in Players \ {z} : seen'[x] = seen[x] /\ cb'[x] = cb[x]
      BY Presented
    <2> HIDE DEF Good
    <2> QED
      BY <1>1, <2>1
  <1> QED
    BY <1>9, <1>10 DEF ViewFull

ViewsAgree == \A x \in Players : Full(Overlay(base[x], own[x])) <=> LastFull(base[x], own[x])

LEMMA ViewsAre == Typed /\ OwnSound => ViewsAgree
  <1> SUFFICES ASSUME Typed, OwnSound, NEW x \in Players
               PROVE  Full(Overlay(base[x], own[x])) <=> LastFull(base[x], own[x])
    BY DEF ViewsAgree
  <1>1. own[x] \in Seq(Write)
    BY DEF Typed
  <1>2. \A i \in DOMAIN own[x] : ~own[x][i].whole => i = 1
    BY DEF OwnSound, WriteSound
  <1> QED
    BY <1>1, <1>2, OverlayFull

\* A device that forgets committed writes, and is shown what is left.
LEMMA ToldKeeps ==
    ASSUME RoundInv, IndInv', NEW z \in Players, NEW n, NEW d, Forgotten(z, n, d),
           UNCHANGED <<server, screen, alert, game, enabled, taps, judged>>,
           VersionsSound', FeedSound', \A x \in Players \ {z} : base'[x] = base[x],
           LastFull(base[z], own[z]) => LastFull(base'[z], own'[z]),
           NEW doc \in {seen[z], Overlay(base'[z], own'[z])}, Presents(z, doc, cb[z])
    PROVE  RoundInv'
  <1>0. IndInv /\ Typed /\ Typed' /\ ViewsAgree
    <2>1. Typed'
      BY IndTyped, PTL
    <2> QED
      BY <2>1, IndTyped, ViewsAre DEF RoundInv
  <1>1. RoundTaps'
    BY DEF RoundInv, RoundTaps, Picked
  <1>2. \A x \in Players : /\ PickWaits(x)' <=> PickWaits(x)
                           /\ FullPickWaits(x)' <=> FullPickWaits(x)
                           /\ Over(x)' <=> Over(x)
    BY <1>0, ForgetKeeps
  <1>3. ServerSound'
    BY <1>2 DEF RoundInv, ServerSound, Past, Unerased
  <1>4. OwnSound' /\ WaitingSound'
        /\ \A x \in Players : \A i \in DOMAIN own'[x] : \E j \in DOMAIN own[x] : own'[x][i] = own[x][j]
    BY ForgetOwn
  <1>5. ASSUME NEW x \in Players, NEW e, Local(x, e)
        PROVE  LocalNext(x, e)
    BY <1>2, <1>5, Opposite DEF Local, LocalNext, Unerased
  <1>6. Overlay(base'[z], own'[z]) \in Game /\ seen[z] \in Game /\ cb[z] \in Seq(Game)
    <2>1. Overlay(base'[z], own'[z]) \in Game
      BY <1>0, OverlayTyped DEF Typed
    <2> QED
      BY <1>0, <2>1 DEF Typed
  <1>7. doc \in Game
    BY <1>6
  <1>8. CopiesSound'
    <2>1. \A x \in Players : LocalNext(x, seen[x]) /\ LocalNext(x, game'[x])
      BY <1>5 DEF RoundInv, CopiesSound
    <2>2. \A x \in Players : \A i \in DOMAIN cb[x] : LocalNext(x, cb[x][i])
      BY <1>5 DEF RoundInv, CopiesSound
    <2>3. \A x \in Players : \A i \in DOMAIN own'[x] : LocalNext(x, own'[x][i].doc)
      <3>1. \A x \in Players : \A i \in DOMAIN own[x] : LocalNext(x, own[x][i].doc)
        BY <1>5 DEF RoundInv, CopiesSound
      <3> QED
        BY <1>4, <3>1
    <2> DEFINE q == cb[z]
    <2>4. q \in Seq(Game) /\ (\A i \in DOMAIN q : LocalNext(z, q[i])) /\ Presents(z, doc, q)
      BY <1>6, <2>2
    <2> HIDE DEF q
    <2> QED
      BY <1>0, <1>7, <2>1, <2>2, <2>3, <2>4, PresentedLocal
  <1>9. StartSound'
    <2>1. /\ own[z] \in Seq(Write) /\ at[z] \in Seq(Nat) /\ Len(at[z]) <= Len(own[z])
          /\ n \in Nat /\ d \in Nat /\ n >= 1 /\ n - 1 + d <= Len(at[z])
          /\ own'[z] \in Seq(Write) /\ at'[z] \in Seq(Nat)
          /\ Len(own'[z]) = Len(own[z]) - d /\ Len(at'[z]) = Len(at[z]) - d
          /\ \A i \in 1..(Len(own[z]) - d) : own'[z][i] = own[z][IF i < n THEN i ELSE i + d]
          /\ \A x \in Players \ {z} : own'[x] = own[x] /\ at'[x] = at[x]
      BY <1>0 DEF Forgotten, Typed
    <2>2. Len(at[z]) = 0 => own'[z] = own[z] /\ at'[z] = at[z]
      <3>1. SUFFICES ASSUME Len(at[z]) = 0 PROVE own'[z] = own[z] /\ at'[z] = at[z]
        OBVIOUS
      <3>2. d = 0 /\ n = 1
        BY <2>1, <3>1
      <3>3. at'[z] = at[z]
        BY <2>1, <3>1, <3>2
      <3>4. Len(own'[z]) = Len(own[z]) /\ Len(own[z]) \in Nat /\ \A i \in 1..Len(own[z]) : own'[z][i] = own[z][i]
        BY <2>1, <3>2
      <3>5. own'[z] = own[z]
        <4> DEFINE O == own[z]
                   O2 == own'[z]
                   l == Len(O)
        <4>1. O \in Seq(Write) /\ O2 \in Seq(Write) /\ Len(O2) = l /\ \A i \in 1..l : O2[i] = O[i]
          BY <2>1, <3>4
        <4> HIDE DEF O, O2
        <4>2. O \in [1..l -> Write] /\ O2 \in [1..l -> Write]
          BY <4>1
        <4>3. O2 = O
          <5> HIDE DEF l
          <5> QED
            BY <4>1, <4>2
        <4> QED
          BY <4>3 DEF O, O2
      <3> QED
        BY <3>3, <3>5
    <2>3. at[z] = << >> => Len(at[z]) = 0
      OBVIOUS
    <2>4. own[z] = << >> => Len(at[z]) = 0
      BY <2>1
    <2>5. screen[Requester] = "loading" => own'[Requester] = << >>
      BY <2>1, <2>2, <2>4 DEF RoundInv, StartSound, Players
    <2>6. server.state = "starting" => own' = own /\ at' = at
      <3>1. server.state = "starting" => at[z] = << >>
        BY DEF RoundInv, StartSound
      <3>2. server.state = "starting" => \A x \in Players : own'[x] = own[x] /\ at'[x] = at[x]
        BY <2>1, <2>2, <2>3, <3>1
      <3> QED
        BY <1>0, <3>2 DEF Typed
    <2> QED
      BY <2>5, <2>6 DEF RoundInv, StartSound
  <1>10. ButtonsSound'
    BY DEF RoundInv, ButtonsSound
  <1>11. JudgedFull'
    BY <1>2 DEF RoundInv, JudgedFull
  <1>12. ViewFull'
    <2>1. ViewsAgree'
      BY <1>0, <1>4, ViewsAre, PTL
    <2>2. Full(Overlay(base[z], own[z])) => Full(Overlay(base'[z], own'[z]))
      BY <1>0, <2>1 DEF ViewsAgree
    <2>3. ViewFull
      BY DEF RoundInv
    <2>4. Full(seen[z]) => Full(Overlay(base'[z], own'[z]))
      BY <2>2, <2>3 DEF ViewFull
    <2> DEFINE q == cb[z]
    <2>5. /\ Full(game'[z]) => Full(seen[z]) /\ \A i \in DOMAIN q : Full(q[i])
          /\ \A i \in DOMAIN q : Full(q[i]) => Full(seen[z]) /\ \A j \in DOMAIN q : i < j => Full(q[j])
      BY <2>3 DEF ViewFull
    <2>6. \A x \in Players \ {z} : base'[x] = base[x] /\ own'[x] = own[x] /\ game'[x] = game[x]
      BY DEF Forgotten
    <2>7. q \in Seq(Game) /\ Presents(z, doc, q)
      BY <1>6
    <2> HIDE DEF q
    <2> QED
      BY <1>0, <1>7, <2>3, <2>4, <2>5, <2>6, <2>7, PresentedFull
  <1> QED
    BY <1>1, <1>3, <1>4, <1>8, <1>9, <1>10, <1>11, <1>12 DEF RoundInv

LEMMA AckInv ==
    ASSUME RoundInv, IndInv', NEW z \in Players, Ack(z)
    PROVE  RoundInv'
  <1> DEFINE n == acked[z] + 1
             newOwn == Without(own[z], n)
  <1>0. IndInv /\ Typed
    BY IndTyped DEF RoundInv
  <1>1. UNCHANGED <<server, base, feed, screen, alert, game, enabled, taps, judged>>
    BY DEF Ack, device, history
  <1>2. FeedSound'
    BY AckFeeds
  <1>3. CASE at[z][n] > Shown(z)
    <2>1. own' = own /\ at' = at
      BY <1>0, <1>3, AckForgets
    <2>2. seen' = seen /\ cb' = cb
      <3>1. n \in Nat /\ at[z] \in Seq(Nat) /\ n \in 1..Len(at[z])
        BY <1>0 DEF Typed, Ack
      <3>2. at[z][n] \in Nat
        BY <3>1
      <3>3. Shown(z) \in Nat
        <4>1. acked[z] \in Nat /\ (acked[z] # 0 => acked[z] \in 1..Len(at[z]))
          BY <1>0 DEF Typed
        <4>2. acked[z] # 0 => at[z][acked[z]] \in Nat
          BY <3>1, <4>1
        <4> QED
          BY <4>2 DEF Shown
      <3>4. ~(at[z][n] <= Shown(z))
        BY <1>3, <3>2, <3>3
      <3> QED
        BY <3>4 DEF Ack
    <2>3. /\ RoundTaps' /\ ServerSound' /\ VersionsSound' /\ CopiesSound' /\ OwnSound' /\ WaitingSound'
          /\ StartSound' /\ ButtonsSound' /\ JudgedFull' /\ ViewFull'
      <3>1. \A x \in Players : /\ Waiting(x)' = Waiting(x) /\ (PickWaits(x)' <=> PickWaits(x))
                               /\ (FullPickWaits(x)' <=> FullPickWaits(x)) /\ (Over(x)' <=> Over(x))
        BY <1>1, <2>1 DEF Waiting, PickWaits, FullPickWaits, Over
      <3>2. RoundTaps' /\ ButtonsSound'
        BY <1>1 DEF RoundInv, RoundTaps, Picked, ButtonsSound
      <3>3. ServerSound' /\ VersionsSound'
        BY <1>1, <3>1 DEF RoundInv, ServerSound, VersionsSound, Past, Unerased
      <3>4. CopiesSound'
        BY <1>1, <2>1, <2>2, <3>1, Opposite DEF RoundInv, CopiesSound, Local, Unerased
      <3>5. OwnSound' /\ WaitingSound'
        BY <1>1, <2>1, <3>1 DEF RoundInv, OwnSound, WriteSound, WaitingSound, WaitSound
      <3>6. StartSound' /\ JudgedFull' /\ ViewFull'
        BY <1>1, <2>1, <2>2, <3>1 DEF RoundInv, StartSound, JudgedFull, ViewFull
      <3> QED
        BY <3>2, <3>3, <3>4, <3>5, <3>6
    <2> QED
      BY <1>2, <2>3 DEF RoundInv
  <1>4. CASE ~(at[z][n] > Shown(z))
    <2>1. Forgotten(z, n, 1) /\ acked' = acked
      BY <1>0, <1>4, AckForgets
    <2>2. at[z][n] <= Shown(z)
      <3>1. n \in Nat /\ at[z] \in Seq(Nat) /\ n \in 1..Len(at[z])
        BY <1>0 DEF Typed, Ack
      <3>2. at[z][n] \in Nat
        BY <3>1
      <3>3. Shown(z) \in Nat
        <4>1. acked[z] \in Nat /\ (acked[z] # 0 => acked[z] \in 1..Len(at[z]))
          BY <1>0 DEF Typed
        <4>2. acked[z] # 0 => at[z][acked[z]] \in Nat
          BY <3>1, <4>1
        <4> QED
          BY <4>2 DEF Shown
      <3> QED
        BY <1>4, <3>2, <3>3
    <2>3. own' = [own EXCEPT ![z] = newOwn] /\ See(z, Seen(z, base[z], newOwn, acked[z]), cb[z])
      BY <2>2 DEF Ack
    <2>4. own'[z] = newOwn
      <3> HIDE DEF newOwn
      <3> QED
        BY <1>0, <2>3 DEF Typed
    <2>5. PICK doc \in {seen[z], Overlay(base'[z], own'[z])} : Presents(z, doc, cb[z])
      <3>1. Seen(z, base[z], newOwn, acked[z]) \in {seen[z], Overlay(base'[z], own'[z])}
        BY <1>1, <2>4 DEF Seen
      <3> QED
        BY <2>3, <3>1, SeePresents
    <2>6. VersionsSound'
      <3>1. \A e : Past(e) => PastNext(e)
        BY <1>0, <1>1, <2>1, ForgetKeeps DEF Past, PastNext, Unerased
      <3> QED
        BY <1>1, <3>1 DEF RoundInv, VersionsSound, Past, PastNext, Unerased
    <2> HIDE DEF n
    <2> QED
      BY <1>1, <1>2, <2>1, <2>5, <2>6, AckViews, ToldKeeps
  <1> QED
    BY <1>3, <1>4

LEMMA WatchInv ==
    ASSUME RoundInv, IndInv', NEW z \in Players, NEW k \in 1..Len(feed[z]), Watch(z, k)
    PROVE  RoundInv'
  <1> DEFINE newOwn == SubSeq(own[z], acked[z] + 1, Len(own[z]))
  <1>0. IndInv /\ Typed
    BY IndTyped DEF RoundInv
  <1>1. UNCHANGED <<server, screen, alert, game, enabled, taps, judged>>
        /\ base' = [base EXCEPT ![z] = feed[z][k]]
        /\ own' = [own EXCEPT ![z] = newOwn]
        /\ feed' = [feed EXCEPT ![z] = SubSeq(@, k + 1, Len(@))]
        /\ See(z, Seen(z, feed[z][k], newOwn, 0), cb[z])
    BY DEF Watch, device, history
  <1>2. FeedSound'
    BY WatchFeeds
  <1>3. Forgotten(z, 1, acked[z])
    BY <1>0, WatchForgets
  <1>4. own'[z] = newOwn /\ base'[z] = feed[z][k] /\ \A x \in Players \ {z} : base'[x] = base[x]
    <2> HIDE DEF newOwn
    <2> QED
      BY <1>0, <1>1 DEF Typed
  <1>5. PICK doc \in {seen[z], Overlay(base'[z], own'[z])} : Presents(z, doc, cb[z])
    <2>1. Seen(z, feed[z][k], newOwn, 0) \in {seen[z], Overlay(base'[z], own'[z])}
      BY <1>4 DEF Seen
    <2> QED
      BY <1>1, <2>1, SeePresents
  <1>6. VersionsSound'
    <2>1. \A e : Past(e) => PastNext(e)
      BY <1>0, <1>1, <1>3, ForgetKeeps DEF Past, PastNext, Unerased
    <2>2. \A x \in Players : Past(base[x]) /\ \A i \in DOMAIN feed[x] : Past(feed[x][i])
      BY DEF RoundInv, VersionsSound
    <2>3. feed[z] \in Seq(Game) /\ feed \in [Players -> Seq(Game)] /\ k \in Nat /\ k <= Len(feed[z])
          /\ k \in DOMAIN feed[z]
      <3>1. feed[z] \in Seq(Game) /\ feed \in [Players -> Seq(Game)]
        BY <1>0 DEF Typed
      <3> QED
        BY <3>1
    <2>4. \A x \in Players : PastNext(base'[x])
      BY <1>4, <2>1, <2>2, <2>3
    <2>5. ASSUME NEW i \in DOMAIN feed'[z]
          PROVE  PastNext(feed'[z][i])
      <3> DEFINE F == feed[z]
                 R == SubSeq(F, k + 1, Len(F))
      <3>1. feed'[z] = R
        BY <1>1, <2>3
      <3>2. F \in Seq(Game) /\ k \in Nat /\ k <= Len(F)
        BY <2>3
      <3>3. \A j \in DOMAIN F : PastNext(F[j])
        BY <2>1, <2>2
      <3> HIDE DEF F
      <3>4. R \in Seq(Game) /\ Len(R) = Len(F) - k /\ \A j \in 1..(Len(F) - k) : R[j] = F[j + k]
        BY <3>2, CutItems
      <3>5. i \in DOMAIN R
        BY <3>1
      <3> HIDE DEF R
      <3>6. i \in 1..(Len(F) - k) /\ i + k \in DOMAIN F
        BY <3>2, <3>4, <3>5
      <3> QED
        BY <3>1, <3>3, <3>4, <3>6
    <2>6. \A x \in Players \ {z} : feed'[x] = feed[x]
      BY <1>1, <2>3
    <2>7. \A x \in Players : \A i \in DOMAIN feed'[x] : PastNext(feed'[x][i])
      BY <2>1, <2>2, <2>5, <2>6
    <2> QED
      BY <2>4, <2>7 DEF VersionsSound, Past, PastNext, Unerased
  <1> QED
    BY <1>1, <1>2, <1>3, <1>4, <1>5, <1>6, WatchViews, ToldKeeps

LEMMA CommitInv ==
    ASSUME RoundInv, IndInv', NEW z \in Players, Commit(z)
    PROVE  RoundInv'
  BY CommitServer, CommitCopies, CommitLeaves, CommitFeedSound DEF RoundInv

-----------------------------------------------------------------------------
(***************************************************************************)
(* A device makes a write.                                                 *)
(***************************************************************************)
Appends(z, w) ==
    /\ own' = [own EXCEPT ![z] = Append(@, w)]
    /\ UNCHANGED <<server, base, feed, at, acked>>

LEMMA Appended ==
    ASSUME IndInv, NEW z \in Players, NEW w \in Write, Appends(z, w)
    PROVE  LET n == Len(own[z]) + 1
           IN  /\ n \in Nat /\ own'[z][n] = w /\ Len(own'[z]) = n
               /\ DOMAIN own'[z] = DOMAIN own[z] \cup {n}
               /\ \A i \in DOMAIN own[z] : i \in Nat /\ i >= 1 /\ i < n /\ own'[z][i] = own[z][i]
               /\ Waiting(z)' = Waiting(z) \cup {n}
               /\ \A i \in Waiting(z) : i \in DOMAIN own[z]
               /\ \A x \in Players \ {z} : own'[x] = own[x] /\ Waiting(x)' = Waiting(x)
  <1> DEFINE O == own[z]
             n == Len(own[z]) + 1
             O2 == own'[z]
             a == Len(at[z])
  <1>1. /\ O \in Seq(Write) /\ own \in [Players -> Seq(Write)] /\ at[z] \in Seq(Nat) /\ a <= Len(O)
        /\ a \in Nat
    <2>1. at[z] \in Seq(Nat)
      BY RoundTyped
    <2>2. a \in Nat
      BY <2>1
    <2> QED
      BY <2>1, <2>2, RoundTyped
  <1>2. O2 = Append(O, w) /\ at' = at /\ \A x \in Players \ {z} : own'[x] = own[x]
    BY <1>1 DEF Appends
  <1>3. Waiting(z) = (a + 1)..Len(O) /\ Waiting(z)' = (a + 1)..Len(O2)
    BY <1>2 DEF Waiting
  <1>4. \A x \in Players \ {z} : Waiting(x)' = Waiting(x)
    BY <1>2 DEF Waiting
  <1>5. n = Len(O) + 1
    OBVIOUS
  <1> HIDE DEF O, n, O2, a
  <1>6. O2 \in Seq(Write) /\ Len(O2) = n /\ O2[n] = w /\ \A i \in 1..Len(O) : O2[i] = O[i]
    BY <1>1, <1>2, <1>5
  <1>7. Len(O) \in Nat /\ DOMAIN O = 1..Len(O) /\ DOMAIN O2 = 1..n
    BY <1>1, <1>6
  <1>8. n \in Nat /\ 1..n = (1..Len(O)) \cup {n} /\ (a + 1)..n = ((a + 1)..Len(O)) \cup {n}
    BY <1>1, <1>5, <1>7
  <1>9. \A i \in DOMAIN O : i \in Nat /\ i >= 1 /\ i < n /\ O2[i] = O[i]
    BY <1>5, <1>6, <1>7
  <1>10. \A i \in (a + 1)..Len(O) : i \in DOMAIN O
    BY <1>1, <1>7
  <1> QED
    BY <1>2, <1>3, <1>4, <1>6, <1>7, <1>8, <1>9, <1>10 DEF O, n, O2

LEMMA AppendWaits ==
    ASSUME IndInv, NEW z \in Players, NEW w \in Write, Appends(z, w)
    PROVE  /\ PickWaits(z)' <=> PickWaits(z) \/ IsPick(w)
           /\ FullPickWaits(z)' <=> FullPickWaits(z) \/ (IsPick(w) /\ Full(w.doc))
           /\ Over(z)' <=> Over(z) \/ IsFinish(w)
           /\ \A x \in Players \ {z} : /\ PickWaits(x)' <=> PickWaits(x)
                                       /\ FullPickWaits(x)' <=> FullPickWaits(x)
                                       /\ Over(x)' <=> Over(x)
  <1> DEFINE n == Len(own[z]) + 1
  <1>1. /\ Waiting(z)' = Waiting(z) \cup {n} /\ own'[z][n] = w
        /\ \A i \in Waiting(z) : own'[z][i] = own[z][i]
        /\ \A x \in Players \ {z} : own'[x] = own[x] /\ Waiting(x)' = Waiting(x)
    BY Appended
  <1>2. server' = server
    BY DEF Appends
  <1> HIDE DEF n
  <1>3. PickWaits(z)' <=> PickWaits(z) \/ IsPick(w)
    BY <1>1 DEF PickWaits
  <1>4. FullPickWaits(z)' <=> FullPickWaits(z) \/ (IsPick(w) /\ Full(w.doc))
    BY <1>1 DEF FullPickWaits
  <1>5. Over(z)' <=> Over(z) \/ IsFinish(w)
    BY <1>1, <1>2 DEF Over
  <1> QED
    BY <1>1, <1>2, <1>3, <1>4, <1>5 DEF PickWaits, FullPickWaits, Over

LEMMA AppendFeeds ==
    ASSUME RoundInv, NEW z \in Players, NEW w \in Write, Appends(z, w)
    PROVE  FeedSound'
  <1>0. IndInv
    BY DEF RoundInv
  <1>1. UNCHANGED <<server, base, feed, at, acked>>
    BY DEF Appends
  <1>2. ASSUME NEW x \in Players
        PROVE  Feeds(server, base[x], feed[x], own'[x], at[x], acked[x])
    <2>1. Feeds(server, base[x], feed[x], own[x], at[x], acked[x])
      BY DEF RoundInv, FeedSound
    <2>2. at[x] \in Seq(Nat) /\ own[x] \in Seq(Write) /\ Len(at[x]) <= Len(own[x])
      BY <1>0, RoundTyped
    <2>3. \A i \in DOMAIN at[x] : i \in DOMAIN own[x]
      BY <2>2
    <2>4. \A i \in DOMAIN own[x] : own'[x][i] = own[x][i]
      BY <1>0, Appended
    <2> QED
      BY <2>1, <2>3, <2>4 DEF Feeds
  <1> QED
    BY <1>1, <1>2 DEF FeedSound

\* A write with which a device ends the match: the moves of g, which it has in full.
Ends(z, g, w) ==
    /\ w \in Write /\ w.whole /\ w.doc.state = "finished" /\ w.doc.moves = g.moves
    /\ Full(g) /\ Local(z, g)
    /\ w.doc.winner # NoOne => Over(z)
EndsOrNot(z) ==
    /\ UNCHANGED <<server, base, feed, at, acked>>
    /\ own' = own \/ \E g, w : Ends(z, g, w) /\ Appends(z, w)

\* Nobody has both moves before the requester's first write is committed.
LEMMA FullStarted ==
    ASSUME RoundInv, NEW z \in Players, NEW g, Local(z, g), Full(g)
    PROVE  server.state # "starting"
  <1> SUFFICES ASSUME server.state = "starting" PROVE FALSE
    OBVIOUS
  <1>1. \A p \in Players : ~NotIdle(server, p)
    BY DEF RoundInv, ServerSound
  <1>2. FullPickWaits(z)
    BY <1>1 DEF Local, Full, Players
  <1>3. PICK i \in Waiting(z) : IsPick(own[z][i]) /\ Full(own[z][i].doc)
    BY <1>2 DEF FullPickWaits
  <1>4. NotIdle(server, Opponent(z))
    BY <1>3 DEF RoundInv, WaitingSound, WaitSound
  <1> QED
    BY <1>1, <1>4, Opposite

LEMMA EndWaits ==
    ASSUME RoundInv, NEW z \in Players, taps' = taps, EndsOrNot(z)
    PROVE  /\ \A x \in Players : /\ PickWaits(x)' <=> PickWaits(x)
                                 /\ FullPickWaits(x)' <=> FullPickWaits(x)
                                 /\ Over(x) => Over(x)'
           /\ own' # own => server.state # "starting" /\ Over(z)'
           /\ \A x \in Players : \A e : Local(x, e) => LocalNext(x, e)
           /\ \A e : Past(e) => PastNext(e)
  <1>0. IndInv
    BY DEF RoundInv
  <1>1. /\ \A x \in Players : /\ PickWaits(x)' <=> PickWaits(x)
                              /\ FullPickWaits(x)' <=> FullPickWaits(x)
                              /\ Over(x) => Over(x)'
        /\ own' # own => server.state # "starting" /\ Over(z)'
    <2>1. CASE own' = own
      BY <2>1 DEF EndsOrNot, PickWaits, FullPickWaits, Over, Waiting
    <2>2. CASE own' # own
      <3>1. PICK g, w : Ends(z, g, w) /\ Appends(z, w)
        BY <2>2 DEF EndsOrNot
      <3>2. server.state # "starting"
        BY <3>1, FullStarted DEF Ends
      <3>3. w \in Write /\ ~IsPick(w) /\ (Over(z) \/ IsFinish(w))
        BY <3>1 DEF Ends, IsPick, IsFinish
      <3>4. Over(z)'
        BY <1>0, <3>1, <3>3, AppendWaits
      <3>5. \A x \in Players : /\ PickWaits(x)' <=> PickWaits(x)
                               /\ FullPickWaits(x)' <=> FullPickWaits(x)
                               /\ Over(x) => Over(x)'
        BY <1>0, <3>1, <3>3, AppendWaits
      <3> QED
        BY <3>2, <3>4, <3>5
    <2> QED
      BY <2>1, <2>2
  <1>2. server' = server
    BY DEF EndsOrNot
  <1>3. ASSUME NEW x \in Players, NEW e, Local(x, e)
        PROVE  LocalNext(x, e)
    BY <1>1, <1>2, <1>3, Opposite DEF Local, LocalNext, Unerased
  <1>4. ASSUME NEW e, Past(e)
        PROVE  PastNext(e)
    BY <1>1, <1>2, <1>4 DEF Past, PastNext, Unerased
  <1> QED
    BY <1>1, <1>3, <1>4

LEMMA EndOwn ==
    ASSUME RoundInv, NEW z \in Players, taps' = taps, EndsOrNot(z)
    PROVE  OwnSound' /\ WaitingSound' /\ FeedSound' /\ ServerSound' /\ VersionsSound'
  <1>0. IndInv
    BY DEF RoundInv
  <1>1. ServerSound' /\ VersionsSound'
    <2>1. UNCHANGED <<server, base, feed>>
      BY DEF EndsOrNot
    <2> QED
      BY <2>1, EndWaits DEF RoundInv, ServerSound, VersionsSound, Past, PastNext, Unerased
  <1>2. CASE own' = own
    <2>1. UNCHANGED <<server, base, feed, at, acked>>
      BY DEF EndsOrNot
    <2>2. \A x \in Players : Waiting(x)' = Waiting(x)
      BY <1>2, <2>1 DEF Waiting
    <2> QED
      BY <1>1, <1>2, <2>1, <2>2 DEF RoundInv, OwnSound, WriteSound, WaitingSound, WaitSound, FeedSound
  <1>3. CASE own' # own
    <2>1. PICK g, w : Ends(z, g, w) /\ Appends(z, w)
      BY <1>3 DEF EndsOrNot
    <2>2. w \in Write /\ w.whole /\ w.doc.state = "finished" /\ Full(w.doc) /\ server' = server
      BY <2>1 DEF Ends, Full, NotIdle, Appends
    <2>3. PICK n \in Nat :
          /\ n = Len(own[z]) + 1 /\ own'[z][n] = w /\ DOMAIN own'[z] = DOMAIN own[z] \cup {n}
          /\ \A i \in DOMAIN own[z] : i \in Nat /\ i >= 1 /\ i < n /\ own'[z][i] = own[z][i]
          /\ Waiting(z)' = Waiting(z) \cup {n}
          /\ \A i \in Waiting(z) : i \in DOMAIN own[z]
          /\ \A x \in Players \ {z} : own'[x] = own[x] /\ Waiting(x)' = Waiting(x)
      BY <1>0, <2>1, <2>2, Appended
    <2>4. DOMAIN own[z] = 1..Len(own[z]) /\ Len(own[z]) \in Nat
      <3>1. own[z] \in Seq(Write)
        BY <1>0, RoundTyped
      <3> QED
        BY <3>1
    <2>5. \A i \in DOMAIN own[z] : \A j \in 1..(i - 1) : j \in DOMAIN own[z]
      BY <2>4
    <2>6. WriteSound(z, n)'
      BY <2>2, <2>3 DEF WriteSound, Full
    <2>7. ASSUME NEW i \in DOMAIN own[z]
          PROVE  WriteSound(z, i)'
      <3>1. WriteSound(z, i)
        BY DEF RoundInv, OwnSound
      <3>2. own'[z][i] = own[z][i] /\ \A j \in 1..(i - 1) : own'[z][j] = own[z][j]
        BY <2>3, <2>5
      <3> QED
        BY <3>1, <3>2 DEF WriteSound
    <2>8. OwnSound'
      <3>1. \A x \in Players \ {z} : \A i \in DOMAIN own'[x] : WriteSound(x, i)'
        BY <2>3 DEF RoundInv, OwnSound, WriteSound
      <3> QED
        BY <2>3, <2>6, <2>7, <3>1 DEF OwnSound
    <2>9. WaitSound(z, n)'
      <3>1. w.doc.winner # NoOne => server.state = "finished" \/ \E j \in Waiting(z) : IsFinish(own[z][j])
        BY <2>1 DEF Ends, Over
      <3>2. \A j \in Waiting(z) : j \in Waiting(z)' /\ j < n /\ own'[z][j] = own[z][j]
        BY <2>3
      <3> QED
        BY <2>2, <2>3, <3>1, <3>2 DEF WaitSound, IsPick
    <2>10. ASSUME NEW i \in Waiting(z)
           PROVE  WaitSound(z, i)'
      <3>1. WaitSound(z, i)
        BY DEF RoundInv, WaitingSound
      <3>2. \A j \in Waiting(z) : j \in Waiting(z)' /\ own'[z][j] = own[z][j]
        BY <2>3
      <3> QED
        BY <2>2, <3>1, <3>2 DEF WaitSound
    <2>11. WaitingSound'
      <3>1. \A x \in Players \ {z} : \A i \in Waiting(x)' : WaitSound(x, i)'
        BY <2>2, <2>3 DEF RoundInv, WaitingSound, WaitSound
      <3> QED
        BY <2>3, <2>9, <2>10, <3>1 DEF WaitingSound
    <2>12. FeedSound'
      BY <2>1, <2>2, AppendFeeds
    <2> QED
      BY <1>1, <2>8, <2>11, <2>12
  <1> QED
    BY <1>2, <1>3

LEMMA EndShows ==
    ASSUME RoundInv, NEW z \in Players, taps' = taps, EndsOrNot(z)
    PROVE  /\ LastFull(base[z], own[z]) => LastFull(base'[z], own'[z])
           /\ \A x \in Players : \A i \in DOMAIN own'[x] : LocalNext(x, own'[x][i].doc)
           /\ \A x \in Players \ {z} : own'[x] = own[x]
  <1>0. IndInv /\ base' = base /\ server' = server
    BY DEF RoundInv, EndsOrNot
  <1>1. \A x \in Players : \A i \in DOMAIN own[x] : LocalNext(x, own[x][i].doc)
    BY EndWaits DEF RoundInv, CopiesSound
  <1>2. CASE own' = own
    BY <1>0, <1>1, <1>2
  <1>3. CASE own' # own
    <2>1. PICK g, w : Ends(z, g, w) /\ Appends(z, w)
      BY <1>3 DEF EndsOrNot
    <2>2. w \in Write /\ w.whole /\ w.doc.state = "finished" /\ Full(w.doc) /\ w.doc.moves = g.moves
      BY <2>1 DEF Ends, Full, NotIdle
    <2> DEFINE n == Len(own[z]) + 1
    <2>3. /\ own'[z][n] = w /\ DOMAIN own'[z] = DOMAIN own[z] \cup {n} /\ Len(own'[z]) = n
          /\ \A i \in DOMAIN own[z] : own'[z][i] = own[z][i]
          /\ \A x \in Players \ {z} : own'[x] = own[x]
      BY <1>0, <2>1, <2>2, Appended
    <2> HIDE DEF n
    <2>4. LastFull(base'[z], own'[z])
      BY <2>2, <2>3 DEF LastFull
    <2>5. LocalNext(z, w.doc)
      <3>1. LocalNext(z, g)
        BY <2>1, EndWaits DEF Ends
      <3>2. server.state # "starting" /\ Over(z)'
        BY <1>3, EndWaits
      <3> QED
        BY <1>0, <2>2, <3>1, <3>2 DEF LocalNext, Full, NotIdle
    <2>6. \A i \in DOMAIN own'[z] : LocalNext(z, own'[z][i].doc)
      BY <1>1, <2>3, <2>5
    <2> QED
      BY <1>1, <2>3, <2>4, <2>6
  <1> QED
    BY <1>2, <1>3

LEMMA StartedKept ==
    ASSUME RoundInv, NEW z \in Players, UNCHANGED <<at, screen, taps>>, EndsOrNot(z), taps' = taps,
           server.state = "starting" => ~enabled'[Acceptor]
    PROVE  StartSound'
  <1>1. own' # own => server.state # "starting"
    BY EndWaits
  <1>2. server' = server
    BY DEF EndsOrNot
  <1> QED
    BY <1>1, <1>2 DEF RoundInv, StartSound

\* A step of z's device, in which it may end the match.
LEMMA DeviceInv ==
    ASSUME RoundInv, IndInv', NEW z \in Players,
           UNCHANGED <<at, taps, alert, screen>>, EndsOrNot(z),
           NEW q \in Seq(Game), NEW doc \in {seen[z], Overlay(base'[z], own'[z])}, Presents(z, doc, q),
           \A x \in Players \ {z} : game'[x] = game[x] /\ enabled'[x] = enabled[x] /\ judged'[x] = judged[x],
           LocalNext(z, game'[z]),
           \A i \in DOMAIN q : Local(z, q[i]),
           Full(game'[z]) => Full(seen[z]) /\ \A i \in DOMAIN q : Full(q[i]),
           \A i \in DOMAIN q : Full(q[i]) => Full(seen[z]) /\ \A j \in DOMAIN q : i < j => Full(q[j]),
           enabled'[z] /\ taps[z] = << >> => game'[z].state = "inprogress" /\ game'[z].winner = NoOne,
           server.state = "starting" /\ z = Acceptor => ~enabled'[z],
           judged'[z] # {} => Full(game'[z]),
           judged'[z] \cap {"win", "tie"} # {} => Over(z)'
    PROVE  RoundInv'
  <1>0. IndInv /\ Typed /\ Typed' /\ ViewsAgree
    <2>1. Typed'
      BY IndTyped, PTL
    <2> QED
      BY <2>1, IndTyped, ViewsAre DEF RoundInv
  <1>1. RoundTaps'
    BY DEF RoundInv, RoundTaps, Picked
  <1>2. OwnSound' /\ WaitingSound' /\ FeedSound' /\ ServerSound' /\ VersionsSound'
    BY EndOwn
  <1>3. \A x \in Players : \A e : Local(x, e) => LocalNext(x, e)
    BY EndWaits
  <1>4. doc \in Game
    <2>1. Overlay(base'[z], own'[z]) \in Game
      BY <1>0, OverlayTyped DEF Typed
    <2> QED
      BY <1>0, <2>1 DEF Typed
  <1>5. CopiesSound'
    <2>1. \A x \in Players : LocalNext(x, seen[x]) /\ LocalNext(x, game[x])
      BY <1>3 DEF RoundInv, CopiesSound
    <2>2. \A x \in Players : LocalNext(x, seen[x]) /\ LocalNext(x, game'[x])
      BY <2>1
    <2>3. \A x \in Players : \A i \in DOMAIN cb[x] : LocalNext(x, cb[x][i])
      BY <1>3 DEF RoundInv, CopiesSound
    <2>4. \A x \in Players : \A i \in DOMAIN own'[x] : LocalNext(x, own'[x][i].doc)
      BY EndShows
    <2>5. \A i \in DOMAIN q : LocalNext(z, q[i])
      BY <1>3
    <2> QED
      BY <1>0, <1>2, <1>4, <2>2, <2>3, <2>4, <2>5, PresentedLocal
  <1>6. StartSound'
    <2>1. server.state = "starting" => ~enabled'[Acceptor]
      BY DEF RoundInv, StartSound, Players
    <2> QED
      BY <2>1, StartedKept
  <1>7. ButtonsSound'
    <2>1. \A x \in Players : enabled'[x] /\ taps[x] = << >> => game'[x].state = "inprogress" /\ game'[x].winner = NoOne
      BY DEF RoundInv, ButtonsSound
    <2> QED
      BY <2>1 DEF ButtonsSound
  <1>8. JudgedFull'
    <2>1. \A x \in Players : judged'[x] # {} => Full(game'[x])
      BY DEF RoundInv, JudgedFull
    <2>2. \A x \in Players : judged'[x] \cap {"win", "tie"} # {} => Over(x)'
      BY EndWaits DEF RoundInv, JudgedFull
    <2> QED
      BY <2>1, <2>2 DEF JudgedFull
  <1>9. ViewFull'
    <2>1. ViewsAgree'
      BY <1>0, <1>2, ViewsAre, PTL
    <2>2. Full(Overlay(base[z], own[z])) => Full(Overlay(base'[z], own'[z]))
      BY <1>0, <2>1, EndShows DEF ViewsAgree
    <2>3. ViewFull
      BY DEF RoundInv
    <2>4. Full(seen[z]) => Full(Overlay(base'[z], own'[z]))
      BY <2>2, <2>3 DEF ViewFull
    <2>5. \A x \in Players \ {z} : base'[x] = base[x] /\ own'[x] = own[x] /\ game'[x] = game[x]
      BY EndShows DEF EndsOrNot
    <2> QED
      BY <1>0, <1>4, <2>3, <2>4, <2>5, PresentedFull
  <1> QED
    BY <1>1, <1>2, <1>5, <1>6, <1>7, <1>8, <1>9 DEF RoundInv

\* A step that nobody but the agenda and the screen notices.
LEMMA QuietInv ==
    ASSUME RoundInv, IndInv',
           UNCHANGED <<server, base, feed, at, acked, own, seen, alert, game, enabled, taps, judged>>,
           screen'[Requester] = "loading" <=> screen[Requester] = "loading",
           \/ cb' = cb
           \/ \E p \in Players : cb[p] # << >> /\ cb' = [cb EXCEPT ![p] = Tail(@)]
    PROVE  RoundInv'
  <1>0. IndInv /\ Typed
    BY IndTyped DEF RoundInv
  <1>1. \A x \in Players : /\ Waiting(x)' = Waiting(x) /\ (PickWaits(x)' <=> PickWaits(x))
                           /\ (FullPickWaits(x)' <=> FullPickWaits(x)) /\ (Over(x)' <=> Over(x))
    BY DEF Waiting, PickWaits, FullPickWaits, Over
  <1>2. ASSUME NEW x \in Players
        PROVE  \/ cb'[x] = cb[x]
               \/ \A i \in DOMAIN cb'[x] : i \in Nat /\ i + 1 \in DOMAIN cb[x] /\ cb'[x][i] = cb[x][i + 1]
    <2>1. ASSUME NEW p \in Players, cb[p] # << >>, cb' = [cb EXCEPT ![p] = Tail(@)]
          PROVE  \/ cb'[x] = cb[x]
                 \/ \A i \in DOMAIN cb'[x] : i \in Nat /\ i + 1 \in DOMAIN cb[x] /\ cb'[x][i] = cb[x][i + 1]
      <3>1. CASE x # p
        BY <1>0, <2>1, <3>1 DEF Typed
      <3>2. CASE x = p
        <4> DEFINE c == cb[p]
        <4>1. cb'[x] = Tail(c) /\ c \in Seq(Game) /\ c # << >>
          BY <1>0, <2>1, <3>2 DEF Typed
        <4> HIDE DEF c
        <4>2. \A i \in DOMAIN Tail(c) : i \in Nat /\ i + 1 \in DOMAIN c /\ Tail(c)[i] = c[i + 1]
          BY <4>1
        <4> QED
          BY <3>2, <4>1, <4>2 DEF c
      <3> QED
        BY <3>1, <3>2
    <2> QED
      BY <2>1
  <1>3. RoundTaps' /\ ButtonsSound'
    BY DEF RoundInv, RoundTaps, Picked, ButtonsSound
  <1>4. ServerSound' /\ VersionsSound'
    BY <1>1 DEF RoundInv, ServerSound, VersionsSound, Past, Unerased
  <1>5. CopiesSound'
    <2>1. \A x \in Players : \A e : Local(x, e) => LocalNext(x, e)
      BY <1>1, Opposite DEF Local, LocalNext, Unerased
    <2>2. \A x \in Players : /\ LocalNext(x, seen[x]) /\ LocalNext(x, game[x])
                             /\ \A i \in DOMAIN own[x] : LocalNext(x, own[x][i].doc)
                             /\ \A i \in DOMAIN cb[x] : LocalNext(x, cb[x][i])
      BY <2>1 DEF RoundInv, CopiesSound
    <2>3. \A x \in Players : \A i \in DOMAIN cb'[x] : LocalNext(x, cb'[x][i])
      BY <1>2, <2>2
    <2> QED
      BY <2>2, <2>3 DEF CopiesSound, Local, LocalNext, Unerased
  <1>6. OwnSound' /\ WaitingSound'
    BY <1>1 DEF RoundInv, OwnSound, WriteSound, WaitingSound, WaitSound
  <1>7. StartSound' /\ JudgedFull' /\ FeedSound'
    BY <1>1 DEF RoundInv, StartSound, JudgedFull, FeedSound
  <1>8. ViewFull'
    <2> SUFFICES ASSUME NEW x \in Players
                 PROVE  /\ Full(game[x]) => Full(seen[x]) /\ \A i \in DOMAIN cb'[x] : Full(cb'[x][i])
                        /\ \A i \in DOMAIN cb'[x] : Full(cb'[x][i]) =>
                               Full(seen[x]) /\ \A j \in DOMAIN cb'[x] : i < j => Full(cb'[x][j])
                        /\ Full(seen[x]) => Full(Overlay(base[x], own[x]))
      BY DEF ViewFull
    <2>1. /\ Full(game[x]) => Full(seen[x]) /\ \A i \in DOMAIN cb[x] : Full(cb[x][i])
          /\ \A i \in DOMAIN cb[x] : Full(cb[x][i]) =>
                 Full(seen[x]) /\ \A j \in DOMAIN cb[x] : i < j => Full(cb[x][j])
          /\ Full(seen[x]) => Full(Overlay(base[x], own[x]))
      BY DEF RoundInv, ViewFull
    <2>2. CASE cb'[x] = cb[x]
      BY <2>1, <2>2
    <2>3. CASE \A i \in DOMAIN cb'[x] : i \in Nat /\ i + 1 \in DOMAIN cb[x] /\ cb'[x][i] = cb[x][i + 1]
      <3>1. \A i, j \in DOMAIN cb'[x] : i < j => i + 1 < j + 1
        BY <2>3
      <3> QED
        BY <2>1, <2>3, <3>1
    <2> QED
      BY <1>2, <2>2, <2>3
  <1> QED
    BY <1>3, <1>4, <1>5, <1>6, <1>7, <1>8 DEF RoundInv

\* Whoever has not picked has nothing that ends the match.
LEMMA NotOver ==
    ASSUME RoundInv, NEW p \in Players, taps[p] = << >>
    PROVE  ~Over(p)
  <1>0. IndInv /\ RoundTaps
    BY DEF RoundInv
  <1>1. ~NotIdle(server, p) /\ \A i \in DOMAIN own[p] : ~NotIdle(own[p][i].doc, p)
    BY <1>0, SeenPicked
  <1>2. server.state # "finished"
    BY <1>1 DEF RoundInv, ServerSound, Full
  <1>3. ASSUME NEW i \in Waiting(p), IsFinish(own[p][i])
        PROVE  FALSE
    <2>1. i \in DOMAIN own[p]
      <3>1. own[p] \in Seq(Write) /\ at[p] \in Seq(Nat)
        BY <1>0, RoundTyped
      <3>2. Len(at[p]) \in Nat
        BY <3>1
      <3> QED
        BY <3>1, <3>2 DEF Waiting
    <2>2. WriteSound(p, i)
      BY <2>1 DEF RoundInv, OwnSound
    <2>3. ~own[p][i].whole
      BY <1>1, <2>1, <2>2 DEF WriteSound
    <2>4. own[p][i] = updateGameStatus("inprogress")
      BY <2>2, <2>3 DEF WriteSound
    <2> QED
      BY <1>3, <2>4 DEF IsFinish, updateGameStatus, Created
  <1> QED
    BY <1>2, <1>3 DEF Over

\* checkForWinner ends the match only with a game that it has in full.
LEMMA CheckEnds ==
    ASSUME RoundInv, NEW p \in Players, NEW g \in Game, NEW v, Local(p, g), taps' = taps,
           v # "waiting" => Full(g),
           UNCHANGED <<server, base, feed, at, acked>>,
           own' = [own EXCEPT ![p] = @ \o CheckedWrites(g, v)]
    PROVE  /\ EndsOrNot(p)
           /\ TakesElse(v) => Over(p)'
           /\ LocalNext(p, CheckedGame(g, v))
           /\ g.state = "finished" => LocalNext(p, [CheckedGame(g, v) EXCEPT !.winner = p])
  <1>0. IndInv /\ own \in [Players -> Seq(Write)]
    BY RoundTyped DEF RoundInv
  <1> DEFINE d == [g EXCEPT !.state = "finished"]
             w == updateGameMoves(d)
  <1>1. d \in Game /\ d.state = "finished" /\ d.moves = g.moves /\ d.winner = g.winner
    BY DEF Game, GameState
  <1>2. w \in Write /\ w.whole /\ w.doc = d
    BY <1>1 DEF updateGameMoves, Write
  <1>3. CASE ~TakesElse(v)
    <2>1. own' = own
      <3>1. own[p] \in Seq(Write)
        BY <1>0
      <3>2. own[p] \o << >> = own[p]
        BY <3>1
      <3> QED
        BY <1>0, <1>3, <3>2 DEF CheckedWrites
    <2>2. EndsOrNot(p)
      BY <2>1 DEF EndsOrNot
    <2>3. LocalNext(p, g)
      BY <2>2, EndWaits
    <2>4. g.state = "finished" => LocalNext(p, [g EXCEPT !.winner = p])
      <3>1. [g EXCEPT !.winner = p].moves = g.moves /\ [g EXCEPT !.winner = p].state = g.state
        BY DEF Game
      <3> HIDE DEF d, w
      <3> QED
        BY <2>3, <3>1 DEF LocalNext, Full, NotIdle, Closing
    <2> QED
      BY <1>3, <2>2, <2>3, <2>4 DEF CheckedGame
  <1>4. CASE TakesElse(v)
    <2>1. Full(g)
      BY <1>4 DEF TakesElse
    <2>2. Appends(p, w)
      <3>1. own[p] \in Seq(Write)
        BY <1>0
      <3>2. CheckedWrites(g, v) = <<w>>
        BY <1>4 DEF CheckedWrites
      <3> HIDE DEF w
      <3>3. own[p] \o <<w>> = Append(own[p], w)
        BY <1>2, <3>1
      <3> QED
        BY <1>0, <3>2, <3>3 DEF Appends
    <2> HIDE DEF d, w
    <2>3. Ends(p, g, w)
      <3>1. w.doc.winner # NoOne => Over(p)
        BY <1>1, <1>2 DEF Local, Closing
      <3> QED
        BY <1>1, <1>2, <2>1, <3>1 DEF Ends
    <2>4. EndsOrNot(p)
      BY <2>2, <2>3 DEF EndsOrNot
    <2>5. Over(p)'
      <3>1. Over(p) \/ IsFinish(w)
        BY <1>1, <1>2, <2>3 DEF Ends, IsFinish
      <3> QED
        BY <1>0, <1>2, <2>2, <3>1, AppendWaits
    <2>6. LocalNext(p, g) /\ server'.state # "starting"
      BY <2>1, <2>4, EndWaits, FullStarted
    <2>7. \A e : e.moves = g.moves => LocalNext(p, e)
      BY <2>5, <2>6 DEF LocalNext, Full, NotIdle
    <2>8. CheckedGame(g, v).moves = g.moves /\ [CheckedGame(g, v) EXCEPT !.winner = p].moves = g.moves
      BY <1>4 DEF CheckedGame, Game
    <2> QED
      BY <2>4, <2>5, <2>7, <2>8
  <1> QED
    BY <1>3, <1>4

\* checkForWinner, with what updateGame adds to it: of the game, and of the writes.
Checks(p, g, v) ==
    /\ own' = [own EXCEPT ![p] = @ \o CheckedWrites(g, v)]
    /\ \/ game'[p] = CheckedGame(g, v)
       \/ g.state = "finished" /\ game'[p] = [CheckedGame(g, v) EXCEPT !.winner = p]
    /\ Judge(p, v)

LEMMA CheckInv ==
    ASSUME RoundInv, IndInv', NEW p \in Players, NEW g \in Game, NEW v \in VerdictSet, NEW q \in Seq(Game),
           NEW doc \in {seen[p], Overlay(base'[p], own'[p])}, Presents(p, doc, q),
           UNCHANGED <<server, base, feed, at, acked, taps, alert, screen>>,
           Checks(p, g, v),
           \A x \in Players \ {p} : game'[x] = game[x] /\ enabled'[x] = enabled[x],
           Local(p, g),
           v # "waiting" => Full(g),
           Full(game[p]) => Full(g),
           Full(g) => Full(seen[p]) /\ \A i \in DOMAIN q : Full(q[i]),
           \A i \in DOMAIN q : Local(p, q[i]),
           \A i \in DOMAIN q : Full(q[i]) => Full(seen[p]) /\ \A j \in DOMAIN q : i < j => Full(q[j]),
           taps[p] = << >> => ~NotIdle(g, p),
           enabled'[p] /\ taps[p] = << >> => g.state = "inprogress",
           server.state = "starting" /\ p = Acceptor => ~enabled'[p]
    PROVE  RoundInv'
  <1>0. IndInv /\ judged \in [Players -> SUBSET {"win", "lose", "tie"}]
    BY RoundTyped DEF RoundInv
  <1>1. /\ EndsOrNot(p)
        /\ TakesElse(v) => Over(p)'
        /\ LocalNext(p, CheckedGame(g, v))
        /\ g.state = "finished" => LocalNext(p, [CheckedGame(g, v) EXCEPT !.winner = p])
    BY CheckEnds DEF Checks
  <1>2. LocalNext(p, game'[p])
    BY <1>1 DEF Checks
  <1>3. game'[p].moves = g.moves
    BY DEF Checks, CheckedGame, Game
  <1>4. Full(game'[p]) <=> Full(g)
    BY <1>3 DEF Full, NotIdle
  <1>5. /\ judged'[p] = IF v = "waiting" THEN judged[p] ELSE judged[p] \cup {v}
        /\ \A x \in Players \ {p} : judged'[x] = judged[x]
    BY <1>0 DEF Checks, Judge
  <1>6. enabled'[p] /\ taps[p] = << >> => game'[p].state = "inprogress" /\ game'[p].winner = NoOne
    <2> SUFFICES ASSUME enabled'[p], taps[p] = << >>
                 PROVE  game'[p].state = "inprogress" /\ game'[p].winner = NoOne
      OBVIOUS
    <2>1. g.state = "inprogress" /\ ~Full(g)
      BY DEF Full
    <2>2. ~TakesElse(v)
      BY <2>1 DEF TakesElse
    <2>3. game'[p] = g
      BY <2>1, <2>2 DEF Checks, CheckedGame
    <2>4. g.winner = NoOne
      BY NotOver DEF Local, Closing
    <2> QED
      BY <2>1, <2>3, <2>4
  <1>7. judged'[p] # {} => Full(game'[p])
    BY <1>4, <1>5 DEF RoundInv, JudgedFull
  <1>8. judged'[p] \cap {"win", "tie"} # {} => Over(p)'
    <2>1. Over(p) => Over(p)'
      BY <1>1, EndWaits
    <2> QED
      BY <1>1, <1>5, <2>1 DEF RoundInv, JudgedFull, TakesElse
  <1> QED
    BY <1>1, <1>2, <1>4, <1>5, <1>6, <1>7, <1>8, DeviceInv

-----------------------------------------------------------------------------
(***************************************************************************)
(* The steps of a device.                                                  *)
(***************************************************************************)
LEMMA SendPresents ==
    ASSUME IndInv, NEW p \in Players, NEW ws, NEW q, Send(p, ws, q), base' = base
    PROVE  /\ own' = [own EXCEPT ![p] = @ \o ws]
           /\ \E doc \in {seen[p], Overlay(base'[p], own'[p])} : Presents(p, doc, q)
  <1>1. own \in [Players -> Seq(Write)]
    BY RoundTyped
  <1>2. own' = [own EXCEPT ![p] = @ \o ws] /\ See(p, Seen(p, base[p], own[p] \o ws, acked[p]), q)
    BY DEF Send
  <1>3. Seen(p, base[p], own[p] \o ws, acked[p]) \in {seen[p], Overlay(base'[p], own'[p])}
    BY <1>1, <1>2 DEF Seen
  <1> QED
    BY <1>2, <1>3, SeePresents

LEMMA RunCheckInv ==
    ASSUME RoundInv, IndInv', NEW p \in Players, NEW finished \in BOOLEAN, RunCheck(p, finished)
    PROVE  RoundInv'
  <1> DEFINE v == IF finished THEN Head(agenda[p][0]).verdict ELSE "waiting"
  <1>0. IndInv /\ game \in [Players -> Game] /\ enabled \in [Players -> BOOLEAN] /\ cb \in [Players -> Seq(Game)]
    BY RoundTyped DEF RoundInv
  <1>1. UNCHANGED <<server, base, feed, at, acked, taps, alert, screen, enabled>>
    BY DEF RunCheck, network
  <1>2. v \in VerdictSet /\ (v = "waiting" \/ v \in judged[p])
    BY <1>0, DueStep DEF RunCheck, SoundTasks, Task, VerdictSet, IndInv
  <1>3. /\ game' = [game EXCEPT ![p] = CheckedGame(game[p], v)]
        /\ Send(p, CheckedWrites(game[p], v), cb[p])
        /\ Judge(p, v)
    BY DEF RunCheck
  <1> HIDE DEF v
  <1>4. v # "waiting" => Full(game[p])
    BY <1>2 DEF RoundInv, JudgedFull
  <1>5. PICK doc \in {seen[p], Overlay(base'[p], own'[p])} : Presents(p, doc, cb[p])
    BY <1>0, <1>1, <1>3, SendPresents
  <1>6. Checks(p, game[p], v) /\ \A x \in Players \ {p} : game'[x] = game[x] /\ enabled'[x] = enabled[x]
    BY <1>0, <1>1, <1>3, SendPresents DEF Checks
  <1>7. Local(p, game[p]) /\ \A i \in DOMAIN cb[p] : Local(p, cb[p][i])
    BY DEF RoundInv, CopiesSound
  <1>8. /\ Full(game[p]) => Full(seen[p]) /\ \A i \in DOMAIN cb[p] : Full(cb[p][i])
        /\ \A i \in DOMAIN cb[p] : Full(cb[p][i]) =>
               Full(seen[p]) /\ \A j \in DOMAIN cb[p] : i < j => Full(cb[p][j])
    BY DEF RoundInv, ViewFull
  <1>9. taps[p] = << >> => ~NotIdle(game[p], p)
    BY <1>0, SeenPicked DEF RoundInv
  <1>10. enabled'[p] /\ taps[p] = << >> => game[p].state = "inprogress"
    BY <1>1 DEF RoundInv, ButtonsSound
  <1>11. server.state = "starting" /\ p = Acceptor => ~enabled'[p]
    BY <1>1 DEF RoundInv, StartSound
  <1>12. game[p] \in Game /\ cb[p] \in Seq(Game)
    BY <1>0
  <1> QED
    BY <1>1, <1>2, <1>4, <1>5, <1>6, <1>7, <1>8, <1>9, <1>10, <1>11, <1>12, CheckInv

LEMMA UpdateGameInv ==
    ASSUME RoundInv, IndInv', NEW p \in Players, UpdateGame(p)
    PROVE  RoundInv'
  <1> DEFINE g == Head(cb[p])
             q == Tail(cb[p])
             v == VerdictOf(p, g)
  <1>0. IndInv /\ game \in [Players -> Game] /\ enabled \in [Players -> BOOLEAN] /\ cb \in [Players -> Seq(Game)]
    BY RoundTyped DEF RoundInv
  <1>1. UNCHANGED <<server, base, feed, at, acked, taps, alert, screen>>
    BY DEF UpdateGame, network
  <1>2. /\ \/ game' = [game EXCEPT ![p] = CheckedGame(g, v)]
           \/ g.state = "finished" /\ game' = [game EXCEPT ![p] = [CheckedGame(g, v) EXCEPT !.winner = p]]
        /\ enabled' = [enabled EXCEPT ![p] = g.state = "inprogress"]
        /\ Send(p, CheckedWrites(g, v), q)
        /\ Judge(p, v)
    BY DEF UpdateGame, TakenAsForfeit, WinnerByForfeit, ShouldEnable
  <1>3. /\ g \in Game /\ q \in Seq(Game) /\ 1 \in DOMAIN cb[p] /\ g = cb[p][1]
        /\ \A i \in DOMAIN q : i \in Nat /\ i + 1 \in DOMAIN cb[p] /\ 1 < i + 1 /\ q[i] = cb[p][i + 1]
    <2> DEFINE c == cb[p]
    <2>1. c \in Seq(Game) /\ c # << >>
      BY <1>0 DEF UpdateGame
    <2> HIDE DEF c
    <2>2. /\ Head(c) \in Game /\ Tail(c) \in Seq(Game) /\ 1 \in DOMAIN c /\ Head(c) = c[1]
          /\ \A i \in DOMAIN Tail(c) : i \in Nat /\ i + 1 \in DOMAIN c /\ 1 < i + 1 /\ Tail(c)[i] = c[i + 1]
      BY <2>1
    <2> QED
      BY <2>2 DEF c
  <1>4. /\ v \in VerdictSet
        /\ v # "waiting" => Full(g)
    <2>1. g.moves[p] \in MoveSet /\ g.moves[Opponent(p)] \in MoveSet
      BY <1>3, Opposite DEF Game
    <2>2. v = Verdict(g.moves[p], g.moves[Opponent(p)])
      BY DEF VerdictOf
    <2> HIDE DEF g, v
    <2>3. v \in VerdictSet /\ (v # "waiting" => g.moves[p] # "idle" /\ g.moves[Opponent(p)] # "idle")
      BY <2>1, <2>2, VerdictsOppose
    <2> QED
      BY <2>3, Opposite DEF Full, NotIdle
  <1>5. PICK doc \in {seen[p], Overlay(base'[p], own'[p])} : Presents(p, doc, q)
    BY <1>0, <1>1, <1>2, SendPresents
  <1>6. own' = [own EXCEPT ![p] = @ \o CheckedWrites(g, v)]
    BY <1>0, <1>1, <1>2, SendPresents
  <1> HIDE DEF g, q, v
  <1>7. Checks(p, g, v)
    BY <1>0, <1>2, <1>6 DEF Checks
  <1>8. \A x \in Players \ {p} : game'[x] = game[x] /\ enabled'[x] = enabled[x]
    BY <1>0, <1>2
  <1>9. Local(p, g) /\ \A i \in DOMAIN q : Local(p, q[i])
    BY <1>3 DEF RoundInv, CopiesSound
  <1>10. /\ Full(game[p]) => Full(g)
         /\ Full(g) => Full(seen[p]) /\ \A i \in DOMAIN q : Full(q[i])
    BY <1>3 DEF RoundInv, ViewFull
  <1>11. ASSUME NEW i \in DOMAIN q, Full(q[i])
         PROVE  Full(seen[p]) /\ \A j \in DOMAIN q : i < j => Full(q[j])
    <2>1. \A j \in DOMAIN q : i < j => i + 1 < j + 1
      BY <1>3
    <2>2. Full(cb[p][i + 1]) /\ i + 1 \in DOMAIN cb[p]
      BY <1>3, <1>11
    <2>3. Full(seen[p]) /\ \A j \in DOMAIN cb[p] : i + 1 < j => Full(cb[p][j])
      BY <2>2 DEF RoundInv, ViewFull
    <2> QED
      BY <1>3, <2>1, <2>3
  <1>12. taps[p] = << >> => ~NotIdle(g, p)
    BY <1>0, <1>3, SeenPicked DEF RoundInv
  <1>13. enabled'[p] <=> g.state = "inprogress"
    BY <1>0, <1>2
  <1>14. server.state = "starting" /\ p = Acceptor => ~enabled'[p]
    BY <1>9, <1>13 DEF Local
  <1>15. g \in Game /\ q \in Seq(Game)
    BY <1>3
  <1> QED
    BY <1>1, <1>4, <1>5, <1>7, <1>8, <1>9, <1>10, <1>11, <1>12, <1>13, <1>14, <1>15, CheckInv

LEMMA RunSetWinnerInv ==
    ASSUME RoundInv, IndInv', NEW p \in Players, RunSetWinner(p)
    PROVE  RoundInv'
  <1> DEFINE won == WonGame(p)
             w == updateGameMoves(won)
             g == game[p]
  <1>0. /\ IndInv /\ game \in [Players -> Game] /\ g \in Game
        /\ own \in [Players -> Seq(Write)] /\ own[p] \in Seq(Write) /\ cb[p] \in Seq(Game)
    BY RoundTyped DEF RoundInv
  <1>1. UNCHANGED <<server, base, feed, at, acked, taps, alert, screen, enabled, judged>>
    BY DEF RunSetWinner, network, history
  <1>2. game' = [game EXCEPT ![p] = won] /\ Send(p, <<w>>, cb[p])
    BY DEF RunSetWinner
  <1>3. "win" \in judged[p]
    <2>1. Due(p, "setWinner")
      BY DEF RunSetWinner
    <2>2. Head(agenda[p][0]) \in SoundTasks(judged[p]) /\ Head(agenda[p][0]).kind = "setWinner"
      BY <1>0, <2>1, DueStep DEF IndInv
    <2> QED
      BY <2>2 DEF SoundTasks
  <1>4. Full(g) /\ Over(p) /\ Local(p, g)
    BY <1>3 DEF RoundInv, JudgedFull, CopiesSound
  <1>5. won \in Game /\ won.state = "finished" /\ won.moves = g.moves
    BY <1>0 DEF WonGame, Game, GameState
  <1>6. w \in Write /\ w.whole /\ w.doc = won
    BY <1>5 DEF updateGameMoves, Write
  <1>7. PICK doc \in {seen[p], Overlay(base'[p], own'[p])} : Presents(p, doc, cb[p])
    BY <1>0, <1>1, <1>2, SendPresents
  <1>8. own' = [own EXCEPT ![p] = @ \o <<w>>]
    BY <1>0, <1>1, <1>2, SendPresents
  <1> HIDE DEF won, w, g
  <1>9. Appends(p, w)
    <2>1. own[p] \o <<w>> = Append(own[p], w)
      BY <1>0, <1>6
    <2> QED
      BY <1>1, <1>8, <2>1 DEF Appends
  <1>10. EndsOrNot(p)
    <2>1. Ends(p, g, w)
      BY <1>4, <1>5, <1>6 DEF Ends
    <2> QED
      BY <1>1, <1>9, <2>1 DEF EndsOrNot
  <1>11. LocalNext(p, game'[p])
    <2>1. LocalNext(p, g) /\ Over(p)' /\ server.state # "starting" /\ server' = server
      BY <1>1, <1>4, <1>10, EndWaits, FullStarted
    <2>2. game'[p] = won
      BY <1>0, <1>2
    <2> QED
      BY <1>5, <2>1, <2>2 DEF LocalNext, Full, NotIdle
  <1>12. \A x \in Players \ {p} : game'[x] = game[x] /\ enabled'[x] = enabled[x] /\ judged'[x] = judged[x]
    BY <1>0, <1>1, <1>2
  <1>13. game'[p] = won /\ game'[p].moves = g.moves
    BY <1>0, <1>2, <1>5
  <1>14. Full(game'[p]) /\ Full(game[p])
    BY <1>4, <1>13 DEF Full, NotIdle, g
  <1>15. /\ Full(seen[p]) /\ \A i \in DOMAIN cb[p] : Full(cb[p][i])
         /\ \A i \in DOMAIN cb[p] : Full(cb[p][i]) =>
               Full(seen[p]) /\ \A j \in DOMAIN cb[p] : i < j => Full(cb[p][j])
    BY <1>14 DEF RoundInv, ViewFull
  <1>16. taps[p] # << >>
    <2>1. NotIdle(game[p], p)
      BY <1>14 DEF Full
    <2> QED
      BY <1>0, <2>1, SeenPicked DEF RoundInv
  <1>17. server.state = "starting" /\ p = Acceptor => ~enabled'[p]
    BY <1>1 DEF RoundInv, StartSound
  <1>18. Over(p)'
    BY <1>1, <1>4, <1>10, EndWaits
  <1>19. cb[p] \in Seq(Game) /\ \A i \in DOMAIN cb[p] : Local(p, cb[p][i])
    BY <1>0 DEF RoundInv, CopiesSound
  <1> QED
    BY <1>1, <1>7, <1>10, <1>11, <1>12, <1>14, <1>15, <1>16, <1>17, <1>18, <1>19, DeviceInv

\* A second passes, a hand kicks, the results are presented, a dead controller is told
\* something, the results are closed: nothing of the match changes.
LEMMA QuietSteps ==
    ASSUME RoundInv, IndInv',
           \/ Tick
           \/ \E p \in Players : \/ IgnoreSnapshot(p) \/ RunResults(p) \/ Home(p)
                                 \/ \E finished \in BOOLEAN : RunKick(p, finished)
    PROVE  RoundInv'
  <1> DEFINE quiet == UNCHANGED <<server, base, feed, at, acked, own, seen, alert, game, enabled, taps, judged>>
  <1>0. IndInv /\ screen \in [Players -> Screen]
    BY DEF RoundInv, IndInv, MatchSound, DevicesTyped
  <1>1. CASE Tick
    <2>1. quiet /\ cb' = cb
      BY <1>1 DEF Tick, network, history
    <2>2. screen'[Requester] = "loading" <=> screen[Requester] = "loading"
      BY <1>1 DEF Tick, Players
    <2> QED
      BY <2>1, <2>2, QuietInv
  <1>2. ASSUME NEW p \in Players, IgnoreSnapshot(p)
        PROVE  RoundInv'
    <2>1. quiet /\ screen' = screen
      BY <1>2 DEF IgnoreSnapshot, network, device, history
    <2>2. cb[p] # << >> /\ cb' = [cb EXCEPT ![p] = Tail(@)]
      BY <1>2 DEF IgnoreSnapshot
    <2> QED
      BY <2>1, <2>2, QuietInv
  <1>3. ASSUME NEW p \in Players, RunResults(p)
        PROVE  RoundInv'
    <2>1. quiet /\ cb' = cb
      BY <1>3 DEF RunResults, network, history
    <2>2. screen'[Requester] = "loading" <=> screen[Requester] = "loading"
      <3>1. \/ screen' = screen
            \/ screen[p] = "game" /\ screen' = [screen EXCEPT ![p] = "results"]
        BY <1>3 DEF RunResults
      <3> QED
        BY <1>0, <3>1 DEF Players
    <2> QED
      BY <2>1, <2>2, QuietInv
  <1>4. ASSUME NEW p \in Players, Home(p)
        PROVE  RoundInv'
    <2>1. quiet /\ cb' = cb
      BY <1>4 DEF Home, network, history
    <2>2. screen'[Requester] = "loading" <=> screen[Requester] = "loading"
      BY <1>0, <1>4 DEF Home
    <2> QED
      BY <2>1, <2>2, QuietInv
  <1>5. ASSUME NEW p \in Players, NEW finished \in BOOLEAN, RunKick(p, finished)
        PROVE  RoundInv'
    <2>1. quiet /\ cb' = cb /\ screen' = screen
      BY <1>5 DEF RunKick, network
    <2> QED
      BY <2>1, QuietInv
  <1> QED
    BY <1>1, <1>2, <1>3, <1>4, <1>5

\* The requester enters the match.
LEMMA JoinInv ==
    ASSUME RoundInv, IndInv', Join
    PROVE  RoundInv'
  <1> DEFINE p == Requester
             w == updateGameStatus("inprogress")
             doc == Overlay(base[p], own[p] \o <<w>>)
             b == base[p]
  <1>0. /\ p \in Players /\ IndInv /\ Typed /\ game \in [Players -> Game] /\ enabled \in [Players -> BOOLEAN]
        /\ own \in [Players -> Seq(Write)] /\ own[p] \in Seq(Write) /\ cb[p] \in Seq(Game) /\ b \in Game
    BY RoundTyped, IndTyped DEF RoundInv, Players
  <1>1. /\ UNCHANGED <<server, base, feed, at, acked, taps, alert, judged>>
        /\ screen'[p] = "game" /\ screen[p] = "loading"
    BY <1>0 DEF Join, network, history, RoundInv, IndInv, MatchSound, DevicesTyped
  <1>2. /\ server.state = "starting" /\ own[p] = << >> /\ taps[p] = << >>
        /\ \A x \in Players : at[x] = << >>
        /\ own[Acceptor] = << >> /\ ~enabled[Acceptor]
    BY <1>1 DEF RoundInv, StartSound
  <1>3. w \in Write /\ ~w.whole /\ w.doc.state = "inprogress" /\ w.doc.winner = NoOne
        /\ \A x \in Players : ~NotIdle(w.doc, x)
    BY DEF updateGameStatus, Created, Write, Game, GameState, MoveSet, NotIdle
  <1>4. /\ game' = [game EXCEPT ![p] = [b EXCEPT !.state = "inprogress"]]
        /\ enabled' = [enabled EXCEPT ![p] = TRUE]
        /\ own' = [own EXCEPT ![p] = @ \o <<w>>]
        /\ seen' = [seen EXCEPT ![p] = doc] /\ cb' = [cb EXCEPT ![p] = <<doc>>]
    BY DEF Join
  <1> HIDE DEF w
  <1>5. own[p] \o <<w>> = <<w>>
    BY <1>2
  <1>6. Appends(p, w) /\ own'[p] = <<w>> /\ \A x \in Players \ {p} : own'[x] = own[x]
    <2>1. own[p] \o <<w>> = Append(own[p], w)
      BY <1>0, <1>3
    <2> QED
      BY <1>0, <1>1, <1>4, <1>5, <2>1 DEF Appends
  <1>7. doc \in Game /\ doc = Overlay(base'[p], own'[p])
    <2>1. <<w>> \in Seq(Write)
      BY <1>3
    <2> QED
      BY <1>0, <1>1, <1>5, <1>6, <2>1, OverlayTyped
  <1> HIDE DEF doc
  <1>8. Presents(p, doc, << >>)
    <2>1. << >> \o <<doc>> = <<doc>>
      OBVIOUS
    <2> QED
      BY <1>4, <2>1 DEF Presents
  <1>9. \A x \in Players : /\ PickWaits(x)' <=> PickWaits(x)
                           /\ FullPickWaits(x)' <=> FullPickWaits(x)
                           /\ Over(x)' <=> Over(x)
    <2>1. ~IsPick(w) /\ ~IsFinish(w)
      BY <1>3 DEF IsPick, IsFinish
    <2> QED
      BY <1>0, <1>3, <1>6, <2>1, AppendWaits
  <1>10. \A x \in Players : \A e : Local(x, e) => LocalNext(x, e)
    BY <1>1, <1>9, Opposite DEF Local, LocalNext, Unerased
  <1>11. /\ Past(b) /\ PastNext(b)
         /\ b.winner = NoOne /\ ~NotIdle(b, p)
    <2>1. Past(b)
      BY <1>0 DEF RoundInv, VersionsSound
    <2>2. PastNext(b)
      BY <1>1, <1>9, <2>1 DEF Past, PastNext, Unerased
    <2>3. b.winner = NoOne
      BY <1>2, <2>1 DEF Past, Closing
    <2>4. ~NotIdle(b, p)
      BY <1>0, <1>2, SeenPicked DEF RoundInv
    <2> QED
      BY <2>1, <2>2, <2>3, <2>4
  <1>12. /\ game'[p].state = "inprogress" /\ game'[p].winner = NoOne /\ game'[p].moves = b.moves
         /\ \A x \in Players \ {p} : game'[x] = game[x] /\ enabled'[x] = enabled[x]
    BY <1>0, <1>4, <1>11 DEF Game
  <1>13. LocalNext(p, game'[p]) /\ LocalNext(p, w.doc)
    <2>1. LocalNext(p, b) /\ p # Acceptor
      BY <1>0, <1>11, PastLocal
    <2> QED
      BY <1>0, <1>3, <1>12, <2>1, Opposite DEF LocalNext, Full, NotIdle, Closing
  <1> HIDE DEF b
  <1>14. ServerSound' /\ VersionsSound'
    BY <1>1, <1>9 DEF RoundInv, ServerSound, VersionsSound, Past, Unerased
  <1>15. CopiesSound'
    <2>1. \A x \in Players : /\ LocalNext(x, seen[x]) /\ LocalNext(x, game[x])
                             /\ \A i \in DOMAIN cb[x] : LocalNext(x, cb[x][i])
                             /\ \A i \in DOMAIN own[x] : LocalNext(x, own[x][i].doc)
      BY <1>10 DEF RoundInv, CopiesSound
    <2>2. \A x \in Players : LocalNext(x, seen[x]) /\ LocalNext(x, game'[x])
      BY <1>12, <1>13, <2>1
    <2>3. \A x \in Players : \A i \in DOMAIN own'[x] : LocalNext(x, own'[x][i].doc)
      BY <1>6, <1>13, <2>1
    <2> DEFINE q == << >>
    <2>4. q \in Seq(Game) /\ (\A i \in DOMAIN q : LocalNext(p, q[i])) /\ Presents(p, doc, q)
      BY <1>8
    <2> HIDE DEF q, p
    <2>5. doc \in {seen[p], Overlay(base'[p], own'[p])}
      BY <1>7
    <2> QED
      BY <1>0, <1>7, <1>14, <2>1, <2>2, <2>3, <2>4, <2>5, PresentedLocal
  <1>16. OwnSound' /\ WaitingSound'
    <2>1. Len(own'[p]) = 1 /\ own'[p][1] = w /\ DOMAIN own'[p] = {1}
      BY <1>6
    <2>2. WriteSound(p, 1)' /\ WaitSound(p, 1)'
      BY <1>1, <1>2, <1>3, <2>1 DEF WriteSound, WaitSound, IsPick, w
    <2>3. \A x \in Players \ {p} : Waiting(x)' = Waiting(x)
      BY <1>1, <1>6 DEF Waiting
    <2>4. \A x \in Players \ {p} : /\ \A i \in DOMAIN own'[x] : WriteSound(x, i)'
                                   /\ \A i \in Waiting(x)' : WaitSound(x, i)'
      BY <1>1, <1>6, <2>3 DEF RoundInv, OwnSound, WriteSound, WaitingSound, WaitSound
    <2>5. Waiting(p)' \subseteq {1}
      BY <1>0, <1>1, <1>2, <2>1 DEF Waiting
    <2> QED
      BY <2>1, <2>2, <2>4, <2>5 DEF OwnSound, WaitingSound
  <1>17. StartSound'
    <2>1. Acceptor \in Players \ {p}
      BY DEF Players
    <2>2. own'[p] # << >> /\ ~own'[p][1].whole
      BY <1>3, <1>6
    <2> QED
      BY <1>1, <1>2, <1>6, <1>12, <2>1, <2>2 DEF StartSound
  <1>18. RoundTaps' /\ ButtonsSound'
    BY <1>1, <1>12 DEF RoundInv, RoundTaps, Picked, ButtonsSound
  <1>19. JudgedFull'
    <2>1. ~Full(game[p])
      BY <1>0, <1>2, SeenPicked DEF RoundInv, Full
    <2> QED
      BY <1>0, <1>1, <1>9, <1>12, <2>1 DEF RoundInv, JudgedFull
  <1>20. FeedSound'
    BY <1>0, <1>3, <1>6, AppendFeeds
  <1>21. ViewFull'
    <2>1. ~Full(seen[p])
      <3>1. ViewsAgree /\ ~LastFull(base[p], own[p])
        BY <1>0, <1>2, <1>11, ViewsAre DEF RoundInv, LastFull, Full, b
      <3> QED
        BY <1>0, <3>1 DEF RoundInv, ViewFull, ViewsAgree
    <2>2. ~Full(game'[p])
      BY <1>0, <1>11, <1>12 DEF Full, NotIdle
    <2>3. \A x \in Players \ {p} : base'[x] = base[x] /\ own'[x] = own[x] /\ game'[x] = game[x]
      BY <1>1, <1>6, <1>12
    <2> DEFINE q == << >>
    <2>4. /\ q \in Seq(Game) /\ Presents(p, doc, q)
          /\ \A i \in DOMAIN q : Full(q[i])
          /\ \A i \in DOMAIN q : Full(q[i]) => Full(seen[p]) /\ \A j \in DOMAIN q : i < j => Full(q[j])
      BY <1>8
    <2> HIDE DEF q, p
    <2>5. doc \in {seen[p], Overlay(base'[p], own'[p])}
      BY <1>7
    <2>6. ViewFull
      BY DEF RoundInv
    <2> QED
      BY <1>0, <1>7, <2>1, <2>2, <2>3, <2>4, <2>5, <2>6, PresentedFull
  <1> QED
    BY <1>14, <1>15, <1>16, <1>17, <1>18, <1>19, <1>20, <1>21 DEF RoundInv

\* A view does not show the move of a player who has not picked.
SeenIdle == \A x, p \in Players : taps[p] = << >> => ~NotIdle(seen[x], p)

\* A player picks.
PickWrites(p, m, e, w) ==
    /\ e \in Game /\ e.state = "inprogress" /\ e.winner = NoOne
    /\ NotIdle(e, p) /\ e.moves[Opponent(p)] = game[p].moves[Opponent(p)]
    /\ w \in Write /\ w.whole /\ w.doc = e
    /\ Appends(p, w)

LEMMA PickTaps ==
    ASSUME OnePick, RoundInv, NEW p \in Players, NEW m \in Choices(p), Pick(p, m)
    PROVE  /\ taps[p] = << >> /\ taps'[p] = <<m>> /\ \A x \in Players \ {p} : taps'[x] = taps[x]
           /\ game[p].state = "inprogress" /\ game[p].winner = NoOne
           /\ RoundTaps'
  <1>1. taps \in [Players -> Seq(PickSet)] /\ taps[p] \in Seq(PickSet)
    BY RoundTyped DEF RoundInv
  <1>2. taps' = [taps EXCEPT ![p] = Append(@, m)] /\ alert' = alert /\ enabled[p] /\ Len(taps[p]) < MaxTaps
    BY DEF Pick
  <1>3. taps[p] = << >>
    <2>1. Len(taps[p]) \in Nat /\ Len(taps[p]) < 1
      BY <1>1, <1>2 DEF OnePick
    <2> QED
      BY <1>1, <2>1
  <1>4. taps'[p] = <<m>> /\ \A x \in Players \ {p} : taps'[x] = taps[x]
    <2>1. Append(taps[p], m) = <<m>>
      BY <1>3
    <2> QED
      BY <1>1, <1>2, <2>1
  <1>5. RoundTaps'
    <2>1. Len(taps'[p]) = 1 /\ Picked(p)' = {m}
      BY <1>4 DEF Picked
    <2>2. \A x \in Players \ {p} : Picked(x)' = Picked(x)
      BY <1>4 DEF Picked
    <2> QED
      BY <1>2, <1>4, <2>1, <2>2 DEF RoundInv, RoundTaps
  <1> QED
    BY <1>2, <1>3, <1>4, <1>5 DEF RoundInv, ButtonsSound

LEMMA PickIssues ==
    ASSUME OnePick, RoundInv, NEW p \in Players, NEW m \in Choices(p), Pick(p, m)
    PROVE  \E e, w : PickWrites(p, m, e, w)
  <1> DEFINE g == game[p]
             e == PickedGame(p, m)
             w == updateGameMoves(e)
  <1>0. g \in Game /\ own \in [Players -> Seq(Write)] /\ own[p] \in Seq(Write) /\ m \in PickSet
    BY RoundTyped DEF RoundInv, Choices
  <1>1. g.state = "inprogress" /\ g.winner = NoOne
    BY PickTaps
  <1>2. UNCHANGED network /\ own' = [own EXCEPT ![p] = @ \o <<w>>]
    BY DEF Pick, Send
  <1> DEFINE moved == [g.moves EXCEPT ![p] = m]
  <1>3. /\ moved \in [Players -> MoveSet]
        /\ moved[p] = m /\ moved[Opponent(p)] = g.moves[Opponent(p)]
    <2>1. g.moves \in [Players -> MoveSet] /\ m \in MoveSet
      BY <1>0 DEF Game, MoveSet
    <2> QED
      BY <2>1, Opposite
  <1>4. e = [g EXCEPT !.moves = moved]
    BY <1>0 DEF PickedGame, Game
  <1> HIDE DEF e, moved, g
  <1>5. e \in Game /\ e.state = "inprogress" /\ e.winner = NoOne /\ e.moves = moved
    BY <1>0, <1>1, <1>3, <1>4 DEF Game
  <1>6. NotIdle(e, p) /\ e.moves[Opponent(p)] = g.moves[Opponent(p)]
    BY <1>0, <1>3, <1>5 DEF NotIdle, PickSet
  <1>7. w \in Write /\ w.whole /\ w.doc = e
    BY <1>5 DEF updateGameMoves, Write
  <1> HIDE DEF w
  <1>8. Appends(p, w)
    <2>1. own[p] \o <<w>> = Append(own[p], w)
      BY <1>0, <1>7
    <2> QED
      BY <1>0, <1>2, <2>1 DEF Appends, network
  <1>9. PickWrites(p, m, e, w)
    BY <1>5, <1>6, <1>7, <1>8 DEF PickWrites, g
  <1> QED
    BY <1>9

LEMMA PickWaiting ==
    ASSUME OnePick, RoundInv, NEW p \in Players, NEW m \in Choices(p), Pick(p, m),
           NEW e, NEW w, PickWrites(p, m, e, w)
    PROVE  /\ \A x \in Players : \A d : Local(x, d) /\ ~NotIdle(d, p) => LocalNext(x, d)
           /\ \A d : Past(d) /\ ~NotIdle(d, p) => PastNext(d)
           /\ \A x \in Players : Over(x)' <=> Over(x)
           /\ Full(e) => FullPickWaits(p)'
  <1>0. IndInv /\ server' = server /\ w \in Write /\ Appends(p, w)
    BY DEF RoundInv, PickWrites, Appends
  <1>1. IsPick(w) /\ ~IsFinish(w) /\ w.doc = e
    BY DEF PickWrites, IsPick, IsFinish
  <1>2. /\ PickWaits(p)' /\ (FullPickWaits(p)' <=> FullPickWaits(p) \/ Full(e))
        /\ \A x \in Players : Over(x)' <=> Over(x)
        /\ \A x \in Players \ {p} : (PickWaits(x)' <=> PickWaits(x)) /\ (FullPickWaits(x)' <=> FullPickWaits(x))
    BY <1>0, <1>1, AppendWaits
  <1>3. taps'[p] # << >> /\ \A x \in Players \ {p} : taps'[x] = taps[x]
    BY PickTaps
  <1>4. ASSUME NEW x \in Players, NEW d, Local(x, d), ~NotIdle(d, p)
        PROVE  LocalNext(x, d)
    BY <1>0, <1>2, <1>3, <1>4, Opposite DEF Local, LocalNext, Unerased
  <1>5. ASSUME NEW d, Past(d), ~NotIdle(d, p)
        PROVE  PastNext(d)
    BY <1>0, <1>2, <1>3, <1>5, Opposite DEF Past, PastNext, Unerased
  <1> QED
    BY <1>2, <1>4, <1>5

\* What waits, with the pick added.
LEMMA PickOwn ==
    ASSUME OnePick, RoundInv, NEW p \in Players, NEW m \in Choices(p), Pick(p, m),
           NEW e, NEW w, PickWrites(p, m, e, w)
    PROVE  OwnSound' /\ WaitingSound'
  <1>0. IndInv /\ RoundTaps
    BY DEF RoundInv
  <1>1. /\ w \in Write /\ w.whole /\ w.doc = e /\ e.state = "inprogress" /\ e.winner = NoOne
        /\ NotIdle(e, p) /\ e.moves[Opponent(p)] = game[p].moves[Opponent(p)]
        /\ Appends(p, w) /\ server' = server
    BY DEF PickWrites, Appends
  <1>2. PICK n \in Nat :
        /\ n = Len(own[p]) + 1 /\ own'[p][n] = w /\ DOMAIN own'[p] = DOMAIN own[p] \cup {n}
        /\ \A i \in DOMAIN own[p] : i \in Nat /\ i >= 1 /\ i < n /\ own'[p][i] = own[p][i]
        /\ Waiting(p)' = Waiting(p) \cup {n}
        /\ \A i \in Waiting(p) : i \in DOMAIN own[p]
        /\ \A x \in Players \ {p} : own'[x] = own[x] /\ Waiting(x)' = Waiting(x)
    BY <1>0, <1>1, Appended
  <1>3. /\ \A i \in DOMAIN own[p] : \A j \in 1..(i - 1) : j \in DOMAIN own[p]
        /\ \A j \in 1..(n - 1) : j \in DOMAIN own[p]
    <2>1. own[p] \in Seq(Write)
      BY <1>0, RoundTyped
    <2>2. DOMAIN own[p] = 1..Len(own[p]) /\ Len(own[p]) \in Nat
      BY <2>1
    <2> QED
      BY <1>2, <2>2
  <1>4. taps[p] = << >>
    BY PickTaps
  <1>5. \A i \in DOMAIN own[p] : ~NotIdle(own[p][i].doc, p)
    BY <1>0, <1>4, SeenPicked
  <1>6. \A i \in DOMAIN own[p] : ~own[p][i].whole
    BY <1>5 DEF RoundInv, OwnSound, WriteSound
  <1>7. WriteSound(p, n)'
    <2>1. \A j \in 1..(n - 1) : ~own'[p][j].whole /\ ~Full(own'[p][j].doc)
      BY <1>2, <1>3, <1>5, <1>6 DEF Full
    <2> QED
      BY <1>1, <1>2, <2>1 DEF WriteSound
  <1>8. ASSUME NEW i \in DOMAIN own[p]
        PROVE  WriteSound(p, i)'
    <2>1. WriteSound(p, i)
      BY DEF RoundInv, OwnSound
    <2>2. own'[p][i] = own[p][i] /\ \A j \in 1..(i - 1) : own'[p][j] = own[p][j]
      BY <1>2, <1>3
    <2> QED
      BY <2>1, <2>2 DEF WriteSound
  <1>9. WaitSound(p, n)'
    <2>1. Full(e) => NotIdle(server, Opponent(p))
      <3>1. Unerased(p, game[p])
        BY DEF RoundInv, CopiesSound, Local
      <3> QED
        BY <1>1, <1>4, <3>1, Opposite DEF Unerased, Full, NotIdle
    <2> QED
      BY <1>1, <1>2, <2>1 DEF WaitSound
  <1>10. ASSUME NEW i \in Waiting(p)
         PROVE  WaitSound(p, i)'
    <2>1. WaitSound(p, i)
      BY DEF RoundInv, WaitingSound
    <2>2. \A j \in Waiting(p) : j \in Waiting(p)' /\ own'[p][j] = own[p][j]
      BY <1>2
    <2> QED
      BY <1>1, <2>1, <2>2 DEF WaitSound
  <1>11. \A x \in Players \ {p} : /\ \A i \in DOMAIN own'[x] : WriteSound(x, i)'
                                  /\ \A i \in Waiting(x)' : WaitSound(x, i)'
    BY <1>1, <1>2 DEF RoundInv, OwnSound, WriteSound, WaitingSound, WaitSound
  <1> QED
    BY <1>2, <1>7, <1>8, <1>9, <1>10, <1>11 DEF OwnSound, WaitingSound

LEMMA PickInv ==
    ASSUME OnePick, RoundInv, SeenIdle, IndInv', NEW p \in Players, NEW m \in Choices(p), Pick(p, m)
    PROVE  RoundInv'
  <1>0. /\ IndInv /\ RoundTaps /\ enabled \in [Players -> BOOLEAN] /\ own \in [Players -> Seq(Write)]
        /\ cb[p] \in Seq(Game) /\ screen \in [Players -> Screen]
    BY RoundTyped DEF RoundInv, IndInv, MatchSound, DevicesTyped
  <1>1. /\ UNCHANGED <<server, base, feed, at, acked, screen, game, judged>>
        /\ enabled' = [enabled EXCEPT ![p] = FALSE]
        /\ screen[p] = "game" /\ enabled[p]
    BY DEF Pick, network
  <1>2. taps[p] = << >> /\ taps'[p] = <<m>> /\ \A x \in Players \ {p} : taps'[x] = taps[x]
    BY PickTaps
  <1>3. PICK e, w : PickWrites(p, m, e, w)
    BY PickIssues
  <1>4. /\ \A x \in Players : \A d : Local(x, d) /\ ~NotIdle(d, p) => LocalNext(x, d)
        /\ \A d : Past(d) /\ ~NotIdle(d, p) => PastNext(d)
        /\ \A x \in Players : Over(x)' <=> Over(x)
        /\ Full(e) => FullPickWaits(p)'
    BY <1>3, PickWaiting
  <1>5. /\ ~NotIdle(server, p)
        /\ \A x \in Players : /\ ~NotIdle(base[x], p) /\ ~NotIdle(game[x], p) /\ ~NotIdle(seen[x], p)
                              /\ \A i \in DOMAIN feed[x] : ~NotIdle(feed[x][i], p)
                              /\ \A i \in DOMAIN cb[x] : ~NotIdle(cb[x][i], p)
                              /\ \A i \in DOMAIN own[x] : ~NotIdle(own[x][i].doc, p)
    BY <1>0, <1>2, SeenPicked DEF SeenIdle
  <1>6. /\ server.state = "starting" => p = Requester
        /\ own'[p][1] = own[p][1] \/ own[p] = << >>
        /\ own[p] # << >> => own'[p] # << >>
        /\ \A x \in Players \ {p} : own'[x] = own[x]
    <2>1. server.state = "starting" => p # Acceptor
      BY <1>1 DEF RoundInv, StartSound
    <2>2. own' = [own EXCEPT ![p] = Append(@, w)] /\ own[p] \in Seq(Write) /\ w \in Write
      BY <1>0, <1>3 DEF PickWrites, Appends
    <2>3. own'[p] = Append(own[p], w) /\ \A x \in Players \ {p} : own'[x] = own[x]
      BY <1>0, <2>2
    <2> QED
      BY <2>1, <2>2, <2>3 DEF Players
  <1>7. ServerSound' /\ VersionsSound'
    <2>1. PastNext(server) /\ \A x \in Players : PastNext(base[x]) /\ \A i \in DOMAIN feed[x] : PastNext(feed[x][i])
      BY <1>4, <1>5 DEF RoundInv, ServerSound, VersionsSound
    <2> QED
      BY <1>1, <2>1 DEF RoundInv, ServerSound, VersionsSound, Past, PastNext, Unerased
  <1>8. PICK doc \in {seen[p], Overlay(base'[p], own'[p])} : Presents(p, doc, cb[p])
    <2>1. Send(p, <<updateGameMoves(PickedGame(p, m))>>, cb[p])
      BY DEF Pick
    <2> QED
      BY <1>0, <1>1, <2>1, SendPresents
  <1>9. doc \in Game
    <2>1. Typed' /\ Typed
      BY <1>0, IndTyped, PTL
    <2>2. Overlay(base'[p], own'[p]) \in Game
      BY <2>1, OverlayTyped DEF Typed
    <2> QED
      BY <2>1, <2>2 DEF Typed
  <1>10. LocalNext(p, e)
    <2>1. LocalNext(p, game[p])
      BY <1>4, <1>5 DEF RoundInv, CopiesSound
    <2>2. server.state # "starting" \/ p # Acceptor
      BY <1>6 DEF Players
    <2>3. ~Closing(e) /\ e.moves[Opponent(p)] = game[p].moves[Opponent(p)]
      BY <1>3 DEF PickWrites, Closing
    <2> QED
      BY <1>1, <1>2, <1>4, <2>1, <2>2, <2>3 DEF LocalNext, NotIdle
  <1>11. \A x \in Players : /\ LocalNext(x, seen[x]) /\ LocalNext(x, game'[x])
                            /\ \A i \in DOMAIN cb[x] : LocalNext(x, cb[x][i])
                            /\ \A i \in DOMAIN own[x] : LocalNext(x, own[x][i].doc)
    BY <1>1, <1>4, <1>5 DEF RoundInv, CopiesSound
  <1>12. CopiesSound'
    <2>1. /\ w.doc = e /\ w \in Write /\ Appends(p, w)
      BY <1>3 DEF PickWrites
    <2>2. \A i \in DOMAIN own'[p] : own'[p][i] = w \/ (i \in DOMAIN own[p] /\ own'[p][i] = own[p][i])
      BY <1>0, <2>1, Appended
    <2>3. \A x \in Players : \A i \in DOMAIN own'[x] : LocalNext(x, own'[x][i].doc)
      BY <1>6, <1>10, <1>11, <2>1, <2>2
    <2> QED
      BY <1>0, <1>7, <1>8, <1>9, <1>11, <2>3, PresentedLocal
  <1>13. OwnSound' /\ WaitingSound'
    BY <1>3, PickOwn
  <1>14. StartSound'
    <2>1. screen[Requester] # "loading"
      <3>1. p # Requester => server.state # "starting"
        BY <1>6
      <3> QED
        BY <1>1, <3>1 DEF RoundInv, StartSound
    <2>2. server.state = "starting" =>
              /\ \A x \in Players : at'[x] = << >>
              /\ own'[Acceptor] = << >> /\ ~enabled'[Acceptor]
              /\ own'[Requester] # << >> /\ ~own'[Requester][1].whole
      <3>1. Acceptor \in Players \ {Requester}
        BY DEF Players
      <3> QED
        BY <1>0, <1>1, <1>6, <2>1, <3>1 DEF RoundInv, StartSound
    <2> QED
      BY <1>1, <2>1, <2>2 DEF StartSound
  <1>15. RoundTaps'
    BY PickTaps
  <1>16. ButtonsSound'
    <2>1. ~enabled'[p] /\ \A x \in Players \ {p} : enabled'[x] = enabled[x] /\ taps'[x] = taps[x]
      BY <1>0, <1>1, <1>2
    <2> QED
      BY <1>1, <2>1 DEF RoundInv, ButtonsSound
  <1>17. JudgedFull'
    BY <1>1, <1>4 DEF RoundInv, JudgedFull
  <1>18. FeedSound'
    BY <1>3, AppendFeeds DEF PickWrites
  <1>19. ViewFull'
    <2>1. ~Full(seen[p])
      BY <1>5 DEF Full
    <2>2. ViewFull
      BY DEF RoundInv
    <2>3. /\ Full(game'[p]) => Full(seen[p]) /\ \A i \in DOMAIN cb[p] : Full(cb[p][i])
          /\ \A i \in DOMAIN cb[p] : Full(cb[p][i]) =>
                 Full(seen[p]) /\ \A j \in DOMAIN cb[p] : i < j => Full(cb[p][j])
      BY <1>1, <2>2 DEF ViewFull
    <2> QED
      BY ZenonT(60), <1>0, <1>1, <1>6, <1>8, <1>9, <2>1, <2>2, <2>3, PresentedFull
  <1> QED
    BY <1>7, <1>12, <1>13, <1>14, <1>15, <1>16, <1>17, <1>18, <1>19 DEF RoundInv

-----------------------------------------------------------------------------
(***************************************************************************)
(* The invariant, and the refinement.                                      *)
(***************************************************************************)
\* Picks are never taken back.
LEMMA TapsKept ==
    ASSUME IndInv, Next, NEW x \in Players, taps'[x] = << >>
    PROVE  taps[x] = << >>
  <1>0. taps \in [Players -> Seq(PickSet)] /\ taps[x] \in Seq(PickSet)
    BY RoundTyped
  <1>1. CASE taps' = taps
    BY <1>1
  <1>2. ASSUME NEW p \in Players, NEW m \in Choices(p), Pick(p, m)
        PROVE  taps[x] = << >>
    <2>1. taps' = [taps EXCEPT ![p] = Append(@, m)]
      BY <1>2 DEF Pick
    <2>2. CASE x = p
      <3>1. taps'[x] = Append(taps[x], m)
        BY <1>0, <2>1, <2>2
      <3> DEFINE t == taps[x]
      <3>2. t \in Seq(PickSet) /\ taps'[x] = Append(t, m)
        BY <1>0, <3>1
      <3> HIDE DEF t
      <3>3. Append(t, m) # << >>
        BY <3>2
      <3> QED
        BY <3>2, <3>3
    <2>3. CASE x # p
      BY <1>0, <2>1, <2>3
    <2> QED
      BY <2>2, <2>3
  <1>3. Tick \/ Join => taps' = taps
    BY DEF Tick, Join, history
  <1>4. ASSUME NEW p \in Players, Main(p)
        PROVE  taps' = taps
    BY <1>4 DEF Main, UpdateGame, IgnoreSnapshot, RunCheck, RunKick, RunSetWinner, RunResults, history
  <1>5. ASSUME NEW p \in Players, User(p)
        PROVE  taps' = taps \/ \E m \in Choices(p) : Pick(p, m)
    BY <1>5 DEF User, OpenAlert, CancelAlert, Exit, Home, Kill, history
  <1>6. ASSUME NEW p \in Players, Firestore(p) \/ Break(p)
        PROVE  taps' = taps
    BY <1>6 DEF Firestore, Commit, Ack, Watch, Break, history
  <1> QED
    BY <1>1, <1>2, <1>3, <1>4, <1>5, <1>6 DEF Next

Idle ==
    \A x, p \in Players : taps[p] = << >> =>
        ~NotIdle(base[x], p) /\ \A i \in DOMAIN own[x] : ~NotIdle(own[x][i].doc, p)

LEMMA IdleKept == IndInv /\ RoundTaps => Idle
  BY SeenPicked DEF Idle

LEMMA SeenIdleStep ==
    ASSUME IndInv, IndInv', RoundTaps', SeenIdle, Next
    PROVE  SeenIdle'
  <1>0. seen \in [Players -> Game]
    BY RoundTyped
  <1>1. SUFFICES ASSUME NEW x \in Players, NEW p \in Players, taps'[p] = << >>
                 PROVE  ~NotIdle(seen'[x], p)
    BY DEF SeenIdle
  <1>2. ~NotIdle(seen[x], p)
    BY <1>1, TapsKept DEF SeenIdle
  <1>3. ~NotIdle(Overlay(base'[x], own'[x]), p)
    <2> DEFINE O == own'[x]
    <2>1. O \in Seq(Write)
      <3>1. Typed'
        BY IndTyped, PTL
      <3> QED
        BY <3>1 DEF Typed
    <2>2. ~NotIdle(base'[x], p) /\ \A i \in DOMAIN O : ~NotIdle(O[i].doc, p)
      <3>1. Idle'
        BY IdleKept, PTL
      <3> QED
        BY <1>1, <3>1 DEF Idle
    <2>3. PICK d \in {base'[x]} \cup {O[i].doc : i \in DOMAIN O} : Overlay(base'[x], O).moves = d.moves
      BY SMTT(60), <2>1, OverlayMixes
    <2> QED
      BY <2>2, <2>3 DEF NotIdle
  <1>4. seen'[x] = seen[x] \/ seen'[x] = Overlay(base'[x], own'[x])
    <2>1. \/ UNCHANGED <<seen, base, own, acked>>
          \/ \E z \in Players : Keeps(z) \/ Shows(z)
      BY StepShows DEF IndInv
    <2>2. ASSUME NEW z \in Players, Shows(z)
          PROVE  seen'[x] = seen[x] \/ seen'[x] = Overlay(base'[x], own'[x])
      BY <1>0, <2>2 DEF Shows, Seen
    <2> QED
      BY <2>1, <2>2 DEF Keeps
  <1> QED
    BY <1>2, <1>3, <1>4

LEMMA RoundInit ==
    ASSUME Init
    PROVE  RoundInv /\ SeenIdle
  <1>1. /\ Created.state = "starting" /\ Created.winner = NoOne
        /\ \A p \in Players : ~NotIdle(Created, p)
    BY DEF Created, NotIdle
  <1>2. ~Full(Created) /\ ~Closing(Created)
    BY <1>1 DEF Full, Closing, Players
  <1>3. /\ server = Created
        /\ \A x \in Players : /\ base[x] = Created /\ seen[x] = Created /\ game[x] = Created
                              /\ feed[x] = << >> /\ own[x] = << >> /\ at[x] = << >> /\ acked[x] = 0
                              /\ \A i \in DOMAIN cb[x] : cb[x][i] = Created
                              /\ taps[x] = << >> /\ ~alert[x] /\ ~enabled[x] /\ judged[x] = {}
    BY DEF Init
  <1>4. screen[Requester] = "loading"
    BY DEF Init, Players
  <1>5. \A x \in Players : Waiting(x) = {}
    BY <1>3 DEF Waiting
  <1>6. RoundTaps
    <2>1. \A x \in Players : Len(taps[x]) = 0 /\ Picked(x) = {}
      BY <1>3 DEF Picked
    <2> QED
      BY <1>3, <2>1 DEF RoundTaps
  <1>7. ServerSound /\ VersionsSound
    BY <1>1, <1>2, <1>3, Opposite DEF ServerSound, VersionsSound, Past, Unerased
  <1>8. CopiesSound
    BY <1>1, <1>2, <1>3, Opposite DEF CopiesSound, Local, Unerased
  <1>9. OwnSound /\ WaitingSound
    BY <1>3, <1>5 DEF OwnSound, WaitingSound
  <1>10. StartSound
    <2>1. {Requester, Acceptor} \subseteq Players
      BY DEF Players
    <2> QED
      BY <1>1, <1>3, <1>4, <2>1 DEF StartSound
  <1>11. ButtonsSound /\ JudgedFull
    BY <1>3 DEF ButtonsSound, JudgedFull
  <1>12. FeedSound
    <2>1. Feeds(Created, Created, << >>, << >>, << >>, 0)
      BY DEF Feeds
    <2> QED
      BY <1>3, <2>1 DEF FeedSound
  <1>13. ViewFull
    BY <1>2, <1>3 DEF ViewFull
  <1>14. SeenIdle
    BY <1>1, <1>3 DEF SeenIdle
  <1> QED
    BY <1>6, <1>7, <1>8, <1>9, <1>10, <1>11, <1>12, <1>13, <1>14, InitInv DEF RoundInv

\* In a match of one round nobody leaves, and no write is committed twice.
LEMMA NobodyLeaves ==
    ASSUME OnePick, IndInv, RoundTaps, NEW p \in Players
    PROVE  /\ ~OpenAlert(p) /\ ~CancelAlert(p) /\ ~Exit(p) /\ ~Kill(p)
           /\ ~Break(p)
  <1>1. ~OpenAlert(p) /\ ~Kill(p)
    BY DEF OnePick, OpenAlert, Kill
  <1>2. ~CancelAlert(p) /\ ~Exit(p)
    BY DEF RoundTaps, CancelAlert, Exit
  <1>3. breaks \in 0..0
    BY DEF OnePick, IndInv, NetworkSound
  <1> QED
    BY <1>1, <1>2, <1>3 DEF Break, OnePick

LEMMA RoundNext ==
    ASSUME OnePick, RoundInv, SeenIdle, Next
    PROVE  RoundInv' /\ SeenIdle'
  <1>0. IndInv /\ RoundTaps /\ IndInv'
    BY NextInv DEF RoundInv
  <1>1. Tick \/ Join => RoundInv'
    BY <1>0, QuietSteps, JoinInv
  <1>2. ASSUME NEW p \in Players, Main(p)
        PROVE  RoundInv'
    <2>1. UpdateGame(p) \/ RunSetWinner(p) => RoundInv'
      BY <1>0, UpdateGameInv, RunSetWinnerInv
    <2>2. ASSUME NEW finished \in BOOLEAN, RunCheck(p, finished)
          PROVE  RoundInv'
      BY <1>0, <2>2, RunCheckInv
    <2>3. IgnoreSnapshot(p) \/ RunResults(p) \/ (\E finished \in BOOLEAN : RunKick(p, finished)) => RoundInv'
      BY <1>0, QuietSteps
    <2> QED
      BY <1>2, <2>1, <2>2, <2>3 DEF Main
  <1>3. ASSUME NEW p \in Players, User(p)
        PROVE  RoundInv'
    <2>1. Home(p) \/ \E m \in Choices(p) : Pick(p, m)
      BY <1>0, <1>3, NobodyLeaves DEF User
    <2>2. Home(p) => RoundInv'
      BY <1>0, QuietSteps
    <2>3. ASSUME NEW m \in Choices(p), Pick(p, m)
          PROVE  RoundInv'
      BY <1>0, <2>3, PickInv
    <2> QED
      BY <2>1, <2>2, <2>3
  <1>4. ASSUME NEW p \in Players, Firestore(p)
        PROVE  RoundInv'
    BY <1>0, <1>4, CommitInv, AckInv, WatchInv DEF Firestore
  <1>5. RoundInv'
    BY <1>0, <1>1, <1>2, <1>3, <1>4, NobodyLeaves DEF Next
  <1>6. RoundTaps'
    BY <1>5 DEF RoundInv
  <1> QED
    BY <1>0, <1>5, <1>6, SeenIdleStep

LEMMA RoundStutter ==
    ASSUME RoundInv, SeenIdle, UNCHANGED vars
    PROVE  RoundInv' /\ SeenIdle'
  <1>1. UNCHANGED <<server, base, feed, own, at, acked, seen, cb, screen, alert, game, enabled, taps, judged>>
    BY DEF vars, network, device, history
  <1>2. IndInv'
    BY StutterInv DEF RoundInv
  <1>3. RoundInv'
    BY <1>1, <1>2, QuietInv
  <1> QED
    BY <1>1, <1>3 DEF SeenIdle

\* Only a commit changes the document.
LEMMA RecordStep ==
    ASSUME OneRound, RoundInv, [Next]_vars
    PROVE  [Record!Next]_<<server.state, server.moves, server.winner>>
  <1>1. server' = server \/ \E p \in Players : Commit(p)
    <2>1. CASE UNCHANGED vars
      BY <2>1 DEF vars, network
    <2>2. Tick \/ Join => server' = server
      BY DEF Tick, Join, network
    <2>3. ASSUME NEW p \in Players, Main(p) \/ User(p) \/ Break(p)
          PROVE  server' = server
      BY <2>3 DEF Main, UpdateGame, IgnoreSnapshot, RunCheck, RunKick, RunSetWinner, RunResults,
         User, Pick, OpenAlert, CancelAlert, Exit, Home, Kill, Break, network
    <2>4. ASSUME NEW p \in Players, Firestore(p)
          PROVE  server' = server \/ Commit(p)
      BY <2>4 DEF Firestore, Ack, Watch
    <2> QED
      BY <2>1, <2>2, <2>3, <2>4 DEF Next
  <1> QED
    BY <1>1, CommitRecords

\* GameMatch implements MatchRecord: however late the versions, and however stale the
\* whole games that the two devices write over each other, the document starts once,
\* takes each player's pick (at worst wiping out the other's), finishes only with both
\* moves and for good, and comes to name at most one winner, whose move wins.
THEOREM RecordIsOneRound ==
    ASSUME OneRound
    PROVE  Spec => RecordSpec
  <1>0. OnePick
    BY DEF OneRound
  <1>1. Init => RoundInv /\ SeenIdle
    BY <1>0, RoundInit
  <1>2. RoundInv /\ SeenIdle /\ [Next]_vars => (RoundInv /\ SeenIdle)'
    BY <1>0, RoundNext, RoundStutter
  <1>3. Init => Record!Init
    BY DEF Init, Created, Record!Init
  <1>4. RoundInv /\ [Next]_vars => [Record!Next]_<<server.state, server.moves, server.winner>>
    BY RecordStep
  <1> QED
    BY <1>1, <1>2, <1>3, <1>4, PTL DEF Spec, RecordSpec, Record!Spec

-----------------------------------------------------------------------------
(***************************************************************************)
(* A defeat is announced on the moves only.  The forfeit rule makes winners *)
(* of the device's own player, and of nobody else.                         *)
(***************************************************************************)
FullAtEnd(d) == d.state = "finished" => Full(d)

\* A document that says the match is over has both moves.
EndsFull ==
    \A x \in Players :
        /\ FullAtEnd(base[x]) /\ FullAtEnd(seen[x])
        /\ \A i \in DOMAIN feed[x] : FullAtEnd(feed[x][i])
        /\ \A i \in DOMAIN cb[x] : FullAtEnd(cb[x][i])

\* A device puts work off only when it has seen both moves.
TasksFull == \A x \in Players : agenda[x] # EmptyAgenda => Full(game[x])

\* When a game names the opponent, the moves do.
LossSound ==
    \A x \in Players :
        Full(game[x]) /\ game[x].winner = Opponent(x) => VerdictOf(x, game[x]) = "lose"

Lost(x) == \E m \in Picked(x), o \in Picked(Opponent(x)) : Verdict(m, o) = "lose"
ShownLost == \A x \in Players : shown[x] = Opponent(x) => Lost(x)

LossInv == RoundInv /\ SeenIdle /\ EndsFull /\ TasksFull /\ LossSound /\ ShownLost

\* Where the documents a device has come from.
LEMMA StepVersions ==
    ASSUME IndInv, Next, NEW x \in Players
    PROVE  /\ base'[x] = base[x] \/ \E i \in DOMAIN feed[x] : base'[x] = feed[x][i]
           /\ \A i \in DOMAIN feed'[x] : \/ feed'[x][i] = server'
                                         \/ \E j \in DOMAIN feed[x] : feed'[x][i] = feed[x][j]
  <1>0. base \in [Players -> Game] /\ feed \in [Players -> Seq(Game)] /\ feed[x] \in Seq(Game)
        /\ at[x] \in Seq(Nat) /\ server \in Game
    BY RoundTyped
  <1>1. CASE UNCHANGED <<base, feed>>
    BY <1>1
  <1>2. ASSUME NEW p \in Players, Commit(p)
        PROVE  /\ base'[x] = base[x]
               /\ \A i \in DOMAIN feed'[x] : \/ feed'[x][i] = server'
                                             \/ \E j \in DOMAIN feed[x] : feed'[x][i] = feed[x][j]
    <2>1. base' = base /\ (feed' = feed \/ feed' = [q \in Players |-> Append(feed[q], server')])
      BY <1>2 DEF Commit
    <2>2. CASE feed' = [q \in Players |-> Append(feed[q], server')]
      <3> DEFINE f == feed[x]
      <3>1. f \in Seq(Game) /\ feed'[x] = Append(f, server')
        BY <1>0, <2>2
      <3> HIDE DEF f
      <3>2. \A i \in DOMAIN Append(f, server') :
                Append(f, server')[i] = server' \/ (i \in DOMAIN f /\ Append(f, server')[i] = f[i])
        BY <3>1
      <3> QED
        BY <2>1, <3>1, <3>2 DEF f
    <2> QED
      BY <2>1, <2>2
  <1>3. ASSUME NEW p \in Players, NEW k \in 1..Len(feed[p]), Watch(p, k)
        PROVE  /\ base'[x] = base[x] \/ \E i \in DOMAIN feed[x] : base'[x] = feed[x][i]
               /\ \A i \in DOMAIN feed'[x] : \E j \in DOMAIN feed[x] : feed'[x][i] = feed[x][j]
    <2>1. /\ base' = [base EXCEPT ![p] = feed[p][k]]
          /\ feed' = [feed EXCEPT ![p] = SubSeq(@, k + 1, Len(@))]
      BY <1>3 DEF Watch
    <2>2. CASE x = p
      <3> DEFINE f == feed[x]
      <3>1. /\ f \in Seq(Game) /\ k \in 1..Len(f) /\ base'[x] = f[k] /\ k \in DOMAIN f
            /\ feed'[x] = SubSeq(f, k + 1, Len(f))
        BY <1>0, <2>1, <2>2
      <3> HIDE DEF f
      <3>2. \A i \in DOMAIN SubSeq(f, k + 1, Len(f)) :
                i + k \in DOMAIN f /\ SubSeq(f, k + 1, Len(f))[i] = f[i + k]
        BY <3>1
      <3> QED
        BY <3>1, <3>2 DEF f
    <2>3. CASE x # p
      BY <1>0, <2>1, <2>3
    <2> QED
      BY <2>2, <2>3
  <1>4. ASSUME ~\E p \in Players : Firestore(p)
        PROVE  UNCHANGED <<base, feed>>
    <2>1. Tick \/ Join => UNCHANGED network
      BY DEF Tick, Join
    <2>2. \A p \in Players : Main(p) => UNCHANGED network
      BY ZenonT(60) DEF Main, UpdateGame, IgnoreSnapshot, RunCheck, RunKick, RunSetWinner, RunResults
    <2>3. \A p \in Players : User(p) \/ Break(p) => UNCHANGED <<base, feed>>
      BY DEF User, Pick, OpenAlert, CancelAlert, Exit, Home, Kill, Break, network
    <2> QED
      BY <1>4, <2>1, <2>2, <2>3 DEF Next, network
  <1>5. ASSUME NEW p \in Players, Ack(p)
        PROVE  UNCHANGED <<base, feed>>
    BY <1>5 DEF Ack
  <1> QED
    BY <1>1, <1>2, <1>3, <1>4, <1>5 DEF Firestore

\* A device is told what its view shows.
LEMMA StepTold ==
    ASSUME IndInv, Next, NEW x \in Players
    PROVE  /\ seen'[x] = seen[x] \/ seen'[x] = Overlay(base'[x], own'[x])
           /\ \A i \in DOMAIN cb'[x] : \/ cb'[x][i] = seen'[x]
                                       \/ \E j \in DOMAIN cb[x] : cb'[x][i] = cb[x][j]
  <1>0. /\ seen \in [Players -> Game] /\ cb \in [Players -> Seq(Game)] /\ cb[x] \in Seq(Game)
        /\ seen[x] \in Game
    BY RoundTyped
  <1>1. seen'[x] = seen[x] \/ seen'[x] = Overlay(base'[x], own'[x])
    <2>1. \/ UNCHANGED <<seen, base, own, acked>>
          \/ \E z \in Players : Keeps(z) \/ Shows(z)
      BY StepShows DEF IndInv
    <2>2. ASSUME NEW z \in Players, Shows(z)
          PROVE  seen'[x] = seen[x] \/ seen'[x] = Overlay(base'[x], own'[x])
      BY <1>0, <2>2 DEF Shows, Seen
    <2> QED
      BY <2>1, <2>2 DEF Keeps
  <1>2. ASSUME NEW p \in Players, NEW doc, NEW q \in Seq(Game), See(p, doc, q),
               \A i \in DOMAIN q : \E j \in DOMAIN cb[p] : q[i] = cb[p][j]
        PROVE  \A i \in DOMAIN cb'[x] : \/ cb'[x][i] = seen'[x]
                                        \/ \E j \in DOMAIN cb[x] : cb'[x][i] = cb[x][j]
    <2>1. CASE x = p
      <3>1. seen'[x] = doc /\ \E told \in {<< >>, <<doc>>} : cb'[x] = q \o told
        BY <1>0, <1>2, <2>1 DEF See, Told
      <3>2. \A i \in DOMAIN (q \o << >>) : i \in DOMAIN q /\ (q \o << >>)[i] = q[i]
        OBVIOUS
      <3>3. \A i \in DOMAIN (q \o <<doc>>) :
                (q \o <<doc>>)[i] = doc \/ (i \in DOMAIN q /\ (q \o <<doc>>)[i] = q[i])
        OBVIOUS
      <3>4. \A i \in DOMAIN cb'[x] : cb'[x][i] = doc \/ (i \in DOMAIN q /\ cb'[x][i] = q[i])
        BY <3>1, <3>2, <3>3
      <3> QED
        BY <1>2, <2>1, <3>1, <3>4
    <2>2. CASE x # p
      BY <1>0, <1>2, <2>2 DEF See
    <2> QED
      BY <2>1, <2>2
  <1>3. ASSUME NEW p \in Players, cb[p] # << >>
        PROVE  /\ Tail(cb[p]) \in Seq(Game)
               /\ \A i \in DOMAIN Tail(cb[p]) : i + 1 \in DOMAIN cb[p] /\ Tail(cb[p])[i] = cb[p][i + 1]
    <2> DEFINE c == cb[p]
    <2>1. c \in Seq(Game) /\ c # << >>
      BY <1>0, <1>3
    <2> HIDE DEF c
    <2>2. Tail(c) \in Seq(Game) /\ \A i \in DOMAIN Tail(c) : i + 1 \in DOMAIN c /\ Tail(c)[i] = c[i + 1]
      BY <2>1
    <2> QED
      BY <2>2 DEF c
  <1> DEFINE goal == \A i \in DOMAIN cb'[x] : \/ cb'[x][i] = seen'[x]
                                              \/ \E j \in DOMAIN cb[x] : cb'[x][i] = cb[x][j]
  <1>4. cb' = cb => goal
    OBVIOUS
  <1>5. ASSUME NEW p \in Players, UpdateGame(p)
        PROVE  goal
    <2>1. cb[p] # << >> /\ \E ws : Send(p, ws, Tail(cb[p]))
      BY <1>5 DEF UpdateGame
    <2>2. PICK doc : See(p, doc, Tail(cb[p]))
      BY <2>1 DEF Send
    <2>3. \A i \in DOMAIN Tail(cb[p]) : \E j \in DOMAIN cb[p] : Tail(cb[p])[i] = cb[p][j]
      BY <1>3, <2>1
    <2> QED
      BY <1>2, <1>3, <2>1, <2>2, <2>3
  <1>6. ASSUME NEW p \in Players, \E doc : See(p, doc, cb[p])
        PROVE  goal
    BY <1>0, <1>2, <1>6
  <1>7. ASSUME NEW p \in Players,
               \/ \E finished \in BOOLEAN : RunCheck(p, finished)
               \/ RunSetWinner(p) \/ Exit(p) \/ \E m \in Choices(p) : Pick(p, m)
        PROVE  \E doc : See(p, doc, cb[p])
    <2>1. \E ws : Send(p, ws, cb[p])
      BY <1>7 DEF RunCheck, RunSetWinner, Exit, Pick
    <2> QED
      BY <2>1 DEF Send
  <1>8. ASSUME NEW p \in Players, IgnoreSnapshot(p)
        PROVE  goal
    <2>1. cb[p] # << >> /\ cb' = [cb EXCEPT ![p] = Tail(@)]
      BY <1>8 DEF IgnoreSnapshot
    <2>2. CASE x = p
      <3>1. cb'[x] = Tail(cb[p])
        BY <1>0, <2>1, <2>2
      <3> QED
        BY <1>3, <2>1, <2>2, <3>1
    <2>3. CASE x # p
      BY <1>0, <2>1, <2>3
    <2> QED
      BY <2>2, <2>3
  <1>9. ASSUME NEW p \in Players, Kill(p)
        PROVE  goal
    <2>1. cb' = [cb EXCEPT ![p] = << >>]
      BY <1>9 DEF Kill
    <2> QED
      BY <1>0, <2>1
  <1>10. Join => goal
    <2> SUFFICES ASSUME Join PROVE goal
      OBVIOUS
    <2>1. PICK doc : seen' = [seen EXCEPT ![Requester] = doc] /\ cb' = [cb EXCEPT ![Requester] = <<doc>>]
      BY DEF Join
    <2>2. \A i \in DOMAIN <<doc>> : <<doc>>[i] = doc
      OBVIOUS
    <2> QED
      BY <1>0, <2>1, <2>2
  <1>11. ASSUME NEW p \in Players, Main(p)
         PROVE  goal
    <2>1. RunResults(p) \/ (\E finished \in BOOLEAN : RunKick(p, finished)) => cb' = cb
      BY DEF RunResults, RunKick
    <2> QED
      BY <1>4, <1>5, <1>6, <1>7, <1>8, <1>11, <2>1 DEF Main
  <1>12. ASSUME NEW p \in Players, User(p)
         PROVE  goal
    <2>1. OpenAlert(p) \/ CancelAlert(p) \/ Home(p) => cb' = cb
      BY DEF OpenAlert, CancelAlert, Home
    <2> QED
      BY <1>4, <1>6, <1>7, <1>9, <1>12, <2>1 DEF User
  <1>13. ASSUME NEW p \in Players, Firestore(p) \/ Break(p)
         PROVE  goal
    <2>1. Commit(p) \/ Break(p) => cb' = cb
      BY DEF Commit, Break
    <2>2. Ack(p) => cb' = cb \/ \E doc : See(p, doc, cb[p])
      BY DEF Ack
    <2>3. (\E k \in 1..Len(feed[p]) : Watch(p, k)) => \E doc : See(p, doc, cb[p])
      BY DEF Watch
    <2> QED
      BY <1>4, <1>6, <1>13, <2>1, <2>2, <2>3 DEF Firestore
  <1>14. Tick => goal
    BY <1>4 DEF Tick
  <1> QED
    BY <1>1, <1>10, <1>11, <1>12, <1>13, <1>14 DEF Next

BasesFull == \A x \in Players : FullAtEnd(base[x])
ViewsFull == \A x \in Players : FullAtEnd(Overlay(base[x], own[x]))

\* The last of a device's own writes tells both the state and the moves.
LEMMA ViewsEndFull == RoundInv /\ BasesFull => ViewsFull
  <1> SUFFICES ASSUME RoundInv, BasesFull, NEW x \in Players
               PROVE  FullAtEnd(Overlay(base[x], own[x]))
    BY DEF ViewsFull
  <1> DEFINE O == own[x]
             b == base[x]
             n == Len(O)
  <1>1. O \in Seq(Write) /\ b \in Game
    BY RoundTyped DEF RoundInv
  <1>2. \A i \in DOMAIN O : WriteSound(x, i)
    BY DEF RoundInv, OwnSound
  <1>3. \A i \in DOMAIN O : ~O[i].whole => i = 1 /\ ~Full(O[i].doc) /\ O[i].doc.state = "inprogress"
    <2> SUFFICES ASSUME NEW i \in DOMAIN own[x], ~own[x][i].whole
                 PROVE  i = 1 /\ ~Full(own[x][i].doc) /\ own[x][i].doc.state = "inprogress"
      OBVIOUS
    <2>1. own[x][i] = updateGameStatus("inprogress")
      BY <1>2 DEF WriteSound
    <2>2. own[x][i].doc.state = "inprogress"
      BY <2>1 DEF updateGameStatus, Created
    <2> QED
      BY <1>2, <2>2, StateNotFull
  <1>4. \A i \in DOMAIN O : O[i].whole /\ O[i].doc.state = "finished" => Full(O[i].doc)
    BY <1>2 DEF WriteSound
  <1>5. FullAtEnd(b)
    BY DEF BasesFull
  <1> HIDE DEF O, b
  <1>6. Full(Overlay(b, O)) <=> LastFull(b, O)
    BY <1>1, <1>3, OverlayFull
  <1>7. O = << >> => FullAtEnd(Overlay(b, O))
    BY <1>1, <1>5, NothingOverlaid
  <1>8. ASSUME O # << >>
        PROVE  FullAtEnd(Overlay(b, O))
    <2>1. n \in DOMAIN O /\ Overlay(b, O).state = O[n].doc.state
      BY <1>1, <1>8 DEF Overlay
    <2>2. O[n].doc.state = "finished" => O[n].whole /\ Full(O[n].doc)
      BY <1>3, <1>4, <2>1
    <2> QED
      BY <1>6, <2>1, <2>2 DEF LastFull, FullAtEnd
  <1> QED
    BY <1>7, <1>8 DEF O, b

LEMMA EndsFullStep ==
    ASSUME RoundInv, RoundInv', EndsFull, Next
    PROVE  EndsFull'
  <1>0. IndInv /\ FullAtEnd(server')
    BY DEF RoundInv, ServerSound, FullAtEnd
  <1>1. \A x \in Players : /\ FullAtEnd(base'[x])
                           /\ \A i \in DOMAIN feed'[x] : FullAtEnd(feed'[x][i])
    BY <1>0, StepVersions DEF EndsFull
  <1>2. BasesFull'
    BY <1>1 DEF BasesFull, FullAtEnd, Full, NotIdle
  <1>3. ViewsFull'
    BY <1>2, ViewsEndFull, PTL
  <1>4. \A x \in Players : FullAtEnd(Overlay(base'[x], own'[x]))
    BY <1>3 DEF ViewsFull, FullAtEnd, Full, NotIdle
  <1>5. \A x \in Players : FullAtEnd(seen'[x])
    BY <1>0, <1>4, StepTold DEF EndsFull
  <1>6. \A x \in Players : \A i \in DOMAIN cb'[x] : FullAtEnd(cb'[x][i])
    BY <1>0, <1>5, StepTold DEF EndsFull
  <1> QED
    BY <1>1, <1>5, <1>6 DEF EndsFull, FullAtEnd, Full, NotIdle

\* Before it joins, the requester's device has nothing of the match.
LEMMA JoinFirst ==
    ASSUME RoundInv, screen[Requester] = "loading"
    PROVE  ~Full(base[Requester]) /\ ~Full(game[Requester])
  <1>1. Requester \in Players
    BY DEF Players
  <1>2. server.state = "starting" /\ own[Requester] = << >>
    BY DEF RoundInv, StartSound
  <1>3. ~Full(server)
    BY <1>1, <1>2 DEF RoundInv, ServerSound, Full
  <1>4. ~FullPickWaits(Requester)
    <2>1. own[Requester][1] = own[Requester][1] /\ Len(own[Requester]) = 0
      BY <1>2
    <2>2. at[Requester] \in Seq(Nat)
      BY <1>1, RoundTyped DEF RoundInv
    <2>3. Len(at[Requester]) \in Nat
      BY <2>2
    <2>4. Waiting(Requester) = {}
      BY <2>1, <2>3 DEF Waiting
    <2> QED
      BY <2>4 DEF FullPickWaits
  <1>5. Past(base[Requester]) /\ Local(Requester, game[Requester])
    BY <1>1 DEF RoundInv, VersionsSound, CopiesSound
  <1> QED
    BY <1>3, <1>4, <1>5 DEF Past, Local

\* checkForWinner keeps the moves, and puts nothing off as long as one is missing.
LEMMA CheckedMoves ==
    ASSUME NEW g \in Game, NEW v, NEW x \in Players
    PROVE  /\ CheckedGame(g, v).moves = g.moves
           /\ [CheckedGame(g, v) EXCEPT !.winner = x].moves = g.moves
           /\ [CheckedGame(g, v) EXCEPT !.winner = x].winner = x
           /\ CheckedGame(g, v).winner = IF TakesElse(v) THEN NoOne ELSE g.winner
           /\ CheckedGame(g, v).state = IF TakesElse(v) THEN "finished" ELSE g.state
  BY DEF CheckedGame, Game

LEMMA NothingLater == OneSecondLater(EmptyAgenda) = EmptyAgenda
  BY DEF OneSecondLater, EmptyAgenda, ResultsSeconds

\* The verdict that updateGame reaches, and the game it keeps.
LEMMA Updated ==
    ASSUME RoundInv, EndsFull, NEW p \in Players, UpdateGame(p)
    PROVE  \E g \in Game : \E v \in VerdictSet :
               /\ g = Head(cb[p]) /\ v = VerdictOf(p, g)
               /\ v # "waiting" <=> Full(g)
               /\ Full(game[p]) => Full(g)
               /\ FullAtEnd(g)
               /\ game'[p] = CheckedGame(g, v) \/ game'[p] = [CheckedGame(g, v) EXCEPT !.winner = p]
               /\ ~Full(g) => agenda'[p] = agenda[p]
               /\ \A x \in Players \ {p} : game'[x] = game[x] /\ agenda'[x] = agenda[x]
  <1> DEFINE g == Head(cb[p])
             v == VerdictOf(p, g)
  <1>0. game \in [Players -> Game] /\ cb \in [Players -> Seq(Game)] /\ agenda \in [Players -> Agenda]
    BY RoundTyped DEF RoundInv, IndInv, MatchSound, AgendasSound
  <1>1. g \in Game /\ 1 \in DOMAIN cb[p] /\ g = cb[p][1]
    <2> DEFINE c == cb[p]
    <2>1. c \in Seq(Game) /\ c # << >>
      BY <1>0 DEF UpdateGame
    <2> HIDE DEF c
    <2>2. Head(c) \in Game /\ 1 \in DOMAIN c /\ Head(c) = c[1]
      BY <2>1
    <2> QED
      BY <2>2 DEF c
  <1>2. v \in VerdictSet /\ (v # "waiting" <=> Full(g))
    <2>1. g.moves[p] \in MoveSet /\ g.moves[Opponent(p)] \in MoveSet
      BY <1>1, Opposite DEF Game
    <2>2. v = Verdict(g.moves[p], g.moves[Opponent(p)])
      BY DEF VerdictOf
    <2> HIDE DEF g, v
    <2>3. v \in VerdictSet /\ (v # "waiting" <=> g.moves[p] # "idle" /\ g.moves[Opponent(p)] # "idle")
      BY <2>1, <2>2, VerdictsOppose
    <2> QED
      BY <2>3, Opposite DEF Full, NotIdle
  <1>3. FullAtEnd(g) /\ (Full(game[p]) => Full(g))
    BY <1>1 DEF EndsFull, RoundInv, ViewFull
  <1>4. game' = [game EXCEPT ![p] = IF TakenAsForfeit(g, CheckedGame(g, v))
                                    THEN [CheckedGame(g, v) EXCEPT !.winner = p] ELSE CheckedGame(g, v)]
    BY DEF UpdateGame, WinnerByForfeit
  <1>5. v = "waiting" => agenda' = [agenda EXCEPT ![p] = agenda[p]]
    <2>1. v = "waiting" => ~TakenAsForfeit(g, CheckedGame(g, v))
      BY <1>2, <1>3 DEF FullAtEnd, TakenAsForfeit
    <2>2. v = "waiting" => CheckedAgenda(agenda[p], v) = agenda[p]
      BY DEF CheckedAgenda, TakesElse
    <2> QED
      BY <2>1, <2>2 DEF UpdateGame
  <1>6. \A x \in Players \ {p} : game'[x] = game[x] /\ agenda'[x] = agenda[x]
    BY <1>0, <1>4 DEF UpdateGame
  <1>7. game'[p] = CheckedGame(g, v) \/ game'[p] = [CheckedGame(g, v) EXCEPT !.winner = p]
    BY <1>0, <1>4
  <1>8. ~Full(g) => agenda'[p] = agenda[p]
    BY <1>0, <1>2, <1>5
  <1> HIDE DEF g, v
  <1>9. g = Head(cb[p]) /\ v = VerdictOf(p, g)
    BY DEF g, v
  <1> QED
    BY <1>1, <1>2, <1>3, <1>6, <1>7, <1>8, <1>9

\* The tasks that are due leave the moves of the game as they are.
LEMMA DueMoves ==
    ASSUME RoundInv, NEW p \in Players,
           \/ \E finished \in BOOLEAN : RunCheck(p, finished) \/ RunKick(p, finished)
           \/ RunSetWinner(p) \/ RunResults(p)
    PROVE  /\ agenda[p] # EmptyAgenda
           /\ game'[p].moves = game[p].moves
           /\ game'[p].winner \in {NoOne, p, game[p].winner}
           /\ \A x \in Players \ {p} : game'[x] = game[x] /\ agenda'[x] = agenda[x]
  <1>0. game \in [Players -> Game] /\ game[p] \in Game /\ agenda \in [Players -> Agenda]
    BY RoundTyped DEF RoundInv, IndInv, MatchSound, AgendasSound
  <1>1. \E kind : Due(p, kind)
    BY DEF RunCheck, RunKick, RunSetWinner, RunResults
  <1>2. agenda[p] # EmptyAgenda
    BY <1>1 DEF Due, EmptyAgenda, ResultsSeconds
  <1>3. \E ag : agenda' = [agenda EXCEPT ![p] = ag]
    BY DEF RunCheck, RunKick, RunSetWinner, RunResults
  <1>4. \/ game' = game
        \/ \E v : game' = [game EXCEPT ![p] = CheckedGame(game[p], v)]
        \/ game' = [game EXCEPT ![p] = WonGame(p)]
    BY DEF RunCheck, RunKick, RunSetWinner, RunResults
  <1>5. WonGame(p).moves = game[p].moves /\ WonGame(p).winner = p
    BY <1>0 DEF WonGame, Game
  <1>6. \A v : /\ CheckedGame(game[p], v).moves = game[p].moves
               /\ CheckedGame(game[p], v).winner \in {NoOne, game[p].winner}
    BY <1>0, CheckedMoves
  <1>7. /\ game'[p].moves = game[p].moves
        /\ game'[p].winner \in {NoOne, p, game[p].winner}
        /\ \A x \in Players \ {p} : game'[x] = game[x]
    BY <1>0, <1>4, <1>5, <1>6
  <1> QED
    BY <1>0, <1>2, <1>3, <1>7

\* Every other step leaves the games and the agendas alone, or moves the tasks on.
LEMMA GamesKept ==
    ASSUME OnePick, RoundInv, EndsFull, Next, NEW x \in Players
    PROVE  \/ game'[x] = game[x] /\ agenda'[x] \in {agenda[x], OneSecondLater(agenda[x])}
           \/ UpdateGame(x)
           \/ \E finished \in BOOLEAN : RunCheck(x, finished) \/ RunKick(x, finished)
           \/ RunSetWinner(x) \/ RunResults(x)
           \/ x = Requester /\ Join
  <1>0. IndInv /\ game \in [Players -> Game] /\ agenda \in [Players -> Agenda]
    BY RoundTyped DEF RoundInv, IndInv, MatchSound, AgendasSound
  <1>1. CASE Tick
    BY <1>1 DEF Tick
  <1>2. CASE Join
    BY <1>0, <1>2 DEF Join, Players
  <1>3. ASSUME NEW p \in Players, p # x, Main(p)
        PROVE  game'[x] = game[x] /\ agenda'[x] = agenda[x]
    <2>1. IgnoreSnapshot(p) => game' = game /\ agenda' = agenda
      BY DEF IgnoreSnapshot, device
    <2>2. UpdateGame(p) => game'[x] = game[x] /\ agenda'[x] = agenda[x]
      BY <1>3, Updated
    <2> QED
      BY <1>3, <2>1, <2>2, DueMoves DEF Main
  <1>4. IgnoreSnapshot(x) => game' = game /\ agenda' = agenda
    BY DEF IgnoreSnapshot, device
  <1>5. ASSUME NEW p \in Players, User(p)
        PROVE  game' = game /\ agenda' = agenda
    <2>1. Home(p) \/ \E m \in Choices(p) : Pick(p, m)
      BY <1>0, <1>5, NobodyLeaves DEF User, RoundInv
    <2> QED
      BY <2>1 DEF Home, Pick
  <1>6. ASSUME NEW p \in Players, Firestore(p) \/ Break(p)
        PROVE  game' = game /\ agenda' = agenda
    BY <1>6 DEF Firestore, Commit, Ack, Watch, Break, device
  <1>7. ASSUME Main(x)
        PROVE  \/ game' = game /\ agenda' = agenda
               \/ UpdateGame(x)
               \/ \E finished \in BOOLEAN : RunCheck(x, finished) \/ RunKick(x, finished)
               \/ RunSetWinner(x) \/ RunResults(x)
    BY <1>4, <1>7 DEF Main
  <1>8. ASSUME NEW p \in Players, Main(p)
        PROVE  \/ game'[x] = game[x] /\ agenda'[x] = agenda[x]
               \/ Main(x)
    BY <1>3, <1>8
  <1> QED
    BY <1>1, <1>2, <1>5, <1>6, <1>7, <1>8 DEF Next

LEMMA Joining ==
    ASSUME RoundInv, Join
    PROVE  ~Full(game[Requester]) /\ ~Full(game'[Requester]) /\ agenda' = agenda
  <1>0. Requester \in Players /\ game \in [Players -> Game] /\ base[Requester] \in Game
    BY RoundTyped DEF Players, RoundInv
  <1>1. ~Full(base[Requester]) /\ ~Full(game[Requester])
    BY JoinFirst DEF Join
  <1>2. game'[Requester].moves = base[Requester].moves
    BY <1>0 DEF Join, Game
  <1> QED
    BY <1>1, <1>2 DEF Join, Full, NotIdle

LEMMA TasksFullStep ==
    ASSUME OnePick, RoundInv, EndsFull, TasksFull, Next
    PROVE  TasksFull'
  <1> SUFFICES ASSUME NEW x \in Players, agenda'[x] # EmptyAgenda
               PROVE  Full(game'[x])
    BY DEF TasksFull, Full, NotIdle
  <1>1. CASE game'[x] = game[x] /\ agenda'[x] \in {agenda[x], OneSecondLater(agenda[x])}
    BY <1>1, NothingLater DEF TasksFull, Full, NotIdle
  <1>2. CASE UpdateGame(x)
    <2>1. PICK g \in Game, v \in VerdictSet :
              /\ v # "waiting" <=> Full(g)
              /\ Full(game[x]) => Full(g)
              /\ game'[x] = CheckedGame(g, v) \/ game'[x] = [CheckedGame(g, v) EXCEPT !.winner = x]
              /\ ~Full(g) => agenda'[x] = agenda[x]
      BY <1>2, Updated
    <2>2. game'[x].moves = g.moves
      <3>1. CheckedGame(g, v).moves = g.moves /\ [CheckedGame(g, v) EXCEPT !.winner = x].moves = g.moves
        BY CheckedMoves
      <3> QED
        BY <2>1, <3>1
    <2>3. Full(g)
      BY <2>1 DEF TasksFull
    <2> QED
      BY <2>2, <2>3 DEF Full, NotIdle
  <1>3. CASE \/ \E finished \in BOOLEAN : RunCheck(x, finished) \/ RunKick(x, finished)
             \/ RunSetWinner(x) \/ RunResults(x)
    <2>1. agenda[x] # EmptyAgenda /\ game'[x].moves = game[x].moves
      BY <1>3, DueMoves
    <2> QED
      BY <2>1 DEF TasksFull, Full, NotIdle
  <1>4. CASE x = Requester /\ Join
    BY <1>4, Joining DEF TasksFull
  <1> QED
    BY <1>1, <1>2, <1>3, <1>4, GamesKept

LEMMA LossSoundStep ==
    ASSUME OnePick, RoundInv, EndsFull, TasksFull, LossSound, Next
    PROVE  LossSound'
  <1> SUFFICES ASSUME NEW x \in Players, Full(game'[x]), game'[x].winner = Opponent(x)
               PROVE  VerdictOf(x, game'[x]) = "lose"
    BY DEF LossSound, Full, NotIdle, VerdictOf
  <1>0. Opponent(x) \notin {x, NoOne}
    <2>1. NoOne \notin Players
      OBVIOUS
    <2> QED
      BY <2>1, Opposite
  <1>1. CASE game'[x] = game[x]
    BY <1>1 DEF LossSound, Full, NotIdle
  <1>2. CASE UpdateGame(x)
    <2>1. PICK g \in Game, v \in VerdictSet :
              /\ v = VerdictOf(x, g)
              /\ v # "waiting" <=> Full(g)
              /\ game'[x] = CheckedGame(g, v) \/ game'[x] = [CheckedGame(g, v) EXCEPT !.winner = x]
      BY <1>2, Updated
    <2>2. game'[x].moves = g.moves /\ ~TakesElse(v)
      <3>1. /\ CheckedGame(g, v).moves = g.moves /\ [CheckedGame(g, v) EXCEPT !.winner = x].moves = g.moves
            /\ [CheckedGame(g, v) EXCEPT !.winner = x].winner = x
            /\ TakesElse(v) => CheckedGame(g, v).winner = NoOne
        BY CheckedMoves
      <3> QED
        BY <1>0, <2>1, <3>1
    <2>3. v = "lose"
      BY <2>1, <2>2 DEF TakesElse, VerdictSet, Full, NotIdle
    <2> QED
      BY <2>1, <2>2, <2>3 DEF VerdictOf
  <1>3. CASE \/ \E finished \in BOOLEAN : RunCheck(x, finished) \/ RunKick(x, finished)
             \/ RunSetWinner(x) \/ RunResults(x)
    <2>1. game'[x].moves = game[x].moves /\ game[x].winner = Opponent(x)
      BY <1>0, <1>3, DueMoves
    <2> QED
      BY <2>1 DEF LossSound, Full, NotIdle, VerdictOf
  <1>4. CASE x = Requester /\ Join
    BY <1>4, Joining
  <1> QED
    BY <1>1, <1>2, <1>3, <1>4, GamesKept

\* Picks are added, and while a player picks nobody judges.
LEMMA PickedKept ==
    ASSUME IndInv, Next
    PROVE  /\ \A q \in Players : Picked(q) \subseteq Picked(q)'
           /\ taps' = taps \/ judged' = judged
  <1>1. CASE taps' = taps
    BY <1>1 DEF Picked
  <1>2. ASSUME NEW p \in Players, NEW m \in Choices(p), Pick(p, m)
        PROVE  /\ \A q \in Players : Picked(q) \subseteq Picked(q)'
               /\ judged' = judged
    <2>1. m \in PickSet /\ HistoryTyped
      BY DEF Choices, IndInv, MatchSound
    <2>2. taps' = [taps EXCEPT ![p] = Append(@, m)] /\ UNCHANGED <<versions, judged>>
      BY <1>2 DEF Pick
    <2>3. \A q \in Players : PickedBy[q] \subseteq PickedBy'[q]
      BY <2>1, <2>2, TapGrows
    <2> QED
      BY <2>2, <2>3 DEF PickedBy
  <1>3. Tick \/ Join => taps' = taps
    BY DEF Tick, Join, history
  <1>4. ASSUME NEW p \in Players, Main(p)
        PROVE  taps' = taps
    BY <1>4 DEF Main, UpdateGame, IgnoreSnapshot, RunCheck, RunKick, RunSetWinner, RunResults, history
  <1>5. ASSUME NEW p \in Players, User(p)
        PROVE  taps' = taps \/ \E m \in Choices(p) : Pick(p, m)
    BY <1>5 DEF User, OpenAlert, CancelAlert, Exit, Home, Kill, history
  <1>6. ASSUME NEW p \in Players, Firestore(p) \/ Break(p)
        PROVE  taps' = taps
    BY <1>6 DEF Firestore, Commit, Ack, Watch, Break, history
  <1> QED
    BY <1>1, <1>2, <1>3, <1>4, <1>5, <1>6 DEF Next

\* So a defeat on the moves stays one.
LEMMA LostKept ==
    ASSUME IndInv, Next, NEW x \in Players, Lost(x)
    PROVE  Lost(x)'
  BY PickedKept, Opposite DEF Lost

LEMMA ShownLostStep ==
    ASSUME OnePick, RoundInv, EndsFull, TasksFull, LossSound, ShownLost, Next
    PROVE  ShownLost'
  <1> SUFFICES ASSUME NEW x \in Players, shown'[x] = Opponent(x)
               PROVE  Lost(x)'
    BY DEF ShownLost
  <1>0. /\ IndInv /\ shown \in [Players -> Players \cup {"draw", "nothing"}]
        /\ Opponent(x) \in Players /\ Opponent(x) \notin {"draw", "nothing", NoOne}
    BY DEF RoundInv, IndInv, MatchSound, DevicesTyped, Opponent, Players
  <1>1. CASE shown'[x] = shown[x]
    BY <1>0, <1>1, LostKept DEF ShownLost
  <1>2. CASE RunResults(x) /\ shown'[x] # shown[x]
    <2>1. shown' = [shown EXCEPT ![x] = Announced(game[x])]
      BY <1>2 DEF RunResults
    <2>2. game[x].winner = Opponent(x)
      BY <1>0, <2>1 DEF Announced
    <2>3. Full(game[x])
      BY <1>2, DueMoves DEF TasksFull
    <2>4. Verdict(game[x].moves[x], game[x].moves[Opponent(x)]) = "lose"
      BY <2>2, <2>3 DEF LossSound, VerdictOf
    <2>5. \A q \in Players : game[x].moves[q] \in Picked(q)
      BY <1>0, <2>3 DEF IndInv, MatchSound, GamesSound, SoundGame, PickedBy, Full, NotIdle
    <2>6. Lost(x)
      BY <1>0, <2>4, <2>5 DEF Lost
    <2> QED
      BY <1>0, <2>6, LostKept
  <1>3. shown'[x] = shown[x] \/ RunResults(x)
    <2>1. Tick \/ Join => shown' = shown
      BY DEF Tick, Join
    <2>2. ASSUME NEW p \in Players, Main(p)
          PROVE  shown' = shown \/ RunResults(p)
      BY <2>2 DEF Main, UpdateGame, IgnoreSnapshot, RunCheck, RunKick, RunSetWinner, device
    <2>3. ASSUME NEW p \in Players, User(p) \/ Firestore(p) \/ Break(p)
          PROVE  shown' = shown
      BY <2>3 DEF User, Pick, OpenAlert, CancelAlert, Exit, Home, Kill, Firestore, Commit, Ack, Watch,
         Break, device
    <2>4. ASSUME NEW p \in Players, p # x, RunResults(p)
          PROVE  shown'[x] = shown[x]
      BY <1>0, <2>4 DEF RunResults
    <2> QED
      BY <2>1, <2>2, <2>3, <2>4 DEF Next
  <1> QED
    BY <1>1, <1>2, <1>3

LEMMA LossInit ==
    ASSUME Init
    PROVE  LossInv
  <1>1. RoundInv /\ SeenIdle
    BY RoundInit
  <1>2. Created.state = "starting" /\ ~Full(Created)
    BY DEF Created, Full, NotIdle, Players
  <1>3. \A x \in Players : /\ base[x] = Created /\ seen[x] = Created /\ game[x] = Created
                           /\ feed[x] = << >> /\ \A i \in DOMAIN cb[x] : cb[x][i] = Created
                           /\ agenda[x] = EmptyAgenda /\ shown[x] = "nothing"
    BY DEF Init
  <1>4. EndsFull
    BY <1>2, <1>3 DEF EndsFull, FullAtEnd
  <1>5. TasksFull /\ LossSound
    BY <1>2, <1>3 DEF TasksFull, LossSound
  <1>6. ShownLost
    <2>1. "nothing" \notin Players
      OBVIOUS
    <2> QED
      BY <1>3, <2>1, Opposite DEF ShownLost
  <1> QED
    BY <1>1, <1>4, <1>5, <1>6 DEF LossInv

LEMMA LossStep ==
    ASSUME OnePick, LossInv, [Next]_vars
    PROVE  LossInv'
  <1>1. CASE Next
    <2>1. RoundInv' /\ SeenIdle'
      BY <1>1, RoundNext DEF LossInv
    <2>2. EndsFull' /\ TasksFull' /\ LossSound' /\ ShownLost'
      BY <1>1, <2>1, EndsFullStep, TasksFullStep, LossSoundStep, ShownLostStep DEF LossInv
    <2> QED
      BY <2>1, <2>2 DEF LossInv
  <1>2. CASE UNCHANGED vars
    <2>1. RoundInv' /\ SeenIdle'
      BY <1>2, RoundStutter DEF LossInv
    <2>2. UNCHANGED <<base, feed, seen, cb, game, agenda, shown, taps>>
      BY <1>2 DEF vars, network, device, history
    <2>3. EndsFull' /\ TasksFull'
      BY <2>2 DEF LossInv, EndsFull, TasksFull, FullAtEnd, Full, NotIdle
    <2>4. LossSound' /\ ShownLost'
      BY <2>2 DEF LossInv, LossSound, ShownLost, Lost, Picked, VerdictOf, Full, NotIdle
    <2> QED
      BY <2>1, <2>3, <2>4 DEF LossInv
  <1> QED
    BY <1>1, <1>2

\* A device announces its player's defeat only if the moves that were picked say so:
\* no order of snapshots, checks and presentations makes a loser of a player who won or
\* tied.  With equal moves it follows that nobody is told to have lost.
THEOREM DefeatOnMoves ==
    ASSUME OnePick
    PROVE  Spec => []ShownLost
  <1>1. Init => LossInv
    BY LossInit
  <1>2. LossInv /\ [Next]_vars => LossInv'
    BY LossStep
  <1>3. LossInv => ShownLost
    BY DEF LossInv
  <1> QED
    BY <1>1, <1>2, <1>3, PTL DEF Spec

\* A tie is announced as a draw or, by the forfeit rule of updateGame, as a victory of the
\* device's own player; never as a defeat.
THEOREM TiesNeverLost ==
    ASSUME OnePick
    PROVE  Spec => []TieNeverLost
  <1>1. Init => LossInv
    BY LossInit
  <1>2. LossInv /\ [Next]_vars => LossInv'
    BY LossStep
  <1>3. LossInv => TieNeverLost
    <2> SUFFICES ASSUME LossInv, NEW p \in Players, judged[p] = {"tie"}, shown[p] = Opponent(p)
                 PROVE  FALSE
      BY DEF TieNeverLost
    <2>0. IndInv /\ RoundTaps /\ Opponent(p) \in Players
      BY Opposite DEF LossInv, RoundInv
    <2>1. PICK m \in Picked(p), o \in Picked(Opponent(p)) : Verdict(m, o) = "lose"
      BY DEF LossInv, ShownLost, Lost
    <2>2. PICK m2 \in Picked(p), o2 \in Picked(Opponent(p)) : Verdict(m2, o2) = "tie"
      BY <2>0 DEF IndInv, JudgedSound
    <2>3. m = m2 /\ o = o2
      BY <2>0, OneMove
    <2> QED
      BY <2>1, <2>2, <2>3
  <1> QED
    BY <1>1, <1>2, <1>3, PTL DEF Spec
=============================================================================
