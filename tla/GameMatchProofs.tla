-------------------------- MODULE GameMatchProofs --------------------------
(***************************************************************************)
(* MatchSound is an invariant of GameMatch for every choice of its constants,  *)
(* and with it the properties of every match.                              *)
(*                                                                         *)
(* The sets Sound... are constant-level: the lemmas about them hold with   *)
(* the picks and verdicts before a step as well as with those after it.    *)
(***************************************************************************)
EXTENDS GameMatch, FiniteSetTheorems, SequenceTheorems, TLAPS

USE PlayersAssumption, ChoicesAssumption, SettingAssumption, BoundsAssumption

(***************************************************************************)
(* The moves.                                                              *)
(***************************************************************************)
\* checkForWinner's tests: the two players' verdicts on the same two moves fit
\* together, whichever device judges (Game.swift, static func <).
LEMMA VerdictsOppose ==
    ASSUME NEW m \in MoveSet, NEW o \in MoveSet
    PROVE  /\ Verdict(m, o) \in VerdictSet
           /\ Verdict(m, o) = "win" <=> Verdict(o, m) = "lose"
           /\ Verdict(m, o) = "tie" <=> Verdict(o, m) = "tie"
           /\ Verdict(m, o) = "waiting" <=> m = "idle" \/ o = "idle"
  BY DEF MoveSet, PickSet, VerdictSet, Verdict, LessThan

(***************************************************************************)
(* Sound documents.                                                        *)
(***************************************************************************)
\* A queue of sound things holds things that are sound for a larger set.
LEMMA SoundSeqs ==
    ASSUME NEW S, NEW T, S \subseteq T, NEW s \in Seq(S)
    PROVE  s \in Seq(T)
  OBVIOUS

\* Picks and verdicts are only ever added, so a sound document stays sound.
LEMMA SoundGrows ==
    ASSUME NEW picked, NEW picked2, NEW earned, NEW earned2,
           \A p \in Players : picked[p] \subseteq picked2[p],
           earned \subseteq earned2
    PROVE  /\ SoundDocs(picked, earned) \subseteq SoundDocs(picked2, earned2)
           /\ SoundWrites(picked, earned) \subseteq SoundWrites(picked2, earned2)
  BY DEF SoundDocs, SoundWrites

\* The document createGame stores is sound, and so are the writes of a state alone.
LEMMA CreatedSound ==
    ASSUME NEW picked, NEW earned
    PROVE  /\ Created \in SoundDocs(picked, earned)
           /\ \A s \in GameState \ {"starting"} : updateGameStatus(s) \in SoundWrites(picked, earned)
  BY DEF Created, updateGameStatus, SoundDocs, SoundWrites, Game, GameState, MoveSet

\* Merging a sound write into a sound document gives a sound document, and one
\* that is not starting.
LEMMA MergeSound ==
    ASSUME NEW picked, NEW earned,
           NEW d \in SoundDocs(picked, earned), NEW w \in SoundWrites(picked, earned)
    PROVE  /\ Merge(d, w) \in SoundDocs(picked, earned)
           /\ Merge(d, w).state # "starting"
  BY DEF Merge, SoundDocs, SoundWrites, Game

\* With no writes on top, a document is shown as it is.
LEMMA NothingOverlaid ==
    ASSUME NEW d \in Game
    PROVE  Overlay(d, << >>) = d
  <1>1. Wholes(<< >>) = {} /\ Winners(<< >>) = {}
    BY DEF Wholes, Winners
  <1>2. Overlay(d, << >>) = [state |-> d.state, moves |-> d.moves, winner |-> d.winner]
    BY <1>1 DEF Overlay
  <1> QED
    BY <1>2 DEF Game

\* So does merging a sequence of them, which is what a listener is shown.
LEMMA OverlaySound ==
    ASSUME NEW picked, NEW earned,
           NEW d \in SoundDocs(picked, earned), NEW ws \in Seq(SoundWrites(picked, earned))
    PROVE  Overlay(d, ws) \in SoundDocs(picked, earned)
  <1> DEFINE o == Overlay(d, ws)
             D == SoundDocs(picked, earned)
  <1>1. \A i \in DOMAIN ws : ws[i].doc \in D
    <2>1. \A i \in DOMAIN ws : ws[i] \in SoundWrites(picked, earned)
      OBVIOUS
    <2> QED
      BY <2>1 DEF SoundWrites
  <1>2. \E e \in D : o.state = e.state
    <2>1. ws # << >> => Len(ws) \in DOMAIN ws
      OBVIOUS
    <2> QED
      BY <1>1, <2>1 DEF Overlay
  <1>3. \E e \in D : o.moves = e.moves
    <2>1. CASE \E i \in Wholes(ws) : IsLast(Wholes(ws), i)
      <3> DEFINE l == CHOOSE i \in Wholes(ws) : IsLast(Wholes(ws), i)
      <3>1. l \in DOMAIN ws
        BY <2>1 DEF Wholes
      <3> QED
        BY <1>1, <2>1, <3>1 DEF Overlay
    <2>2. CASE ~ \E i \in Wholes(ws) : IsLast(Wholes(ws), i)
      BY <2>2 DEF Overlay
    <2> QED
      BY <2>1, <2>2
  <1>4. \E e \in D : o.winner = e.winner
    <2>1. CASE \E i \in Winners(ws) : IsLast(Winners(ws), i)
      <3> DEFINE l == CHOOSE i \in Winners(ws) : IsLast(Winners(ws), i)
      <3>1. l \in DOMAIN ws
        BY <2>1 DEF Winners, Wholes
      <3> QED
        BY <1>1, <2>1, <3>1 DEF Overlay
    <2>2. CASE ~ \E i \in Winners(ws) : IsLast(Winners(ws), i)
      BY <2>2 DEF Overlay
    <2> QED
      BY <2>1, <2>2
  <1>5. o = [state |-> o.state, moves |-> o.moves, winner |-> o.winner]
    BY DEF Overlay
  <1> HIDE DEF o
  <1>6. PICK e1 \in D : o.state = e1.state
    BY <1>2
  <1>7. PICK e2 \in D : o.moves = e2.moves
    BY <1>3
  <1>8. PICK e3 \in D : o.winner = e3.winner
    BY <1>4
  <1>9. o \in Game
    BY <1>5, <1>6, <1>7, <1>8 DEF SoundDocs, Game
  <1>10. o \in D
    BY <1>9, <1>7, <1>8 DEF SoundDocs
  <1> QED
    BY <1>10 DEF o

(***************************************************************************)
(* Sound agendas.                                                          *)
(***************************************************************************)
\* A sound agenda has the type of an agenda and stays sound with more verdicts.
LEMMA AgendaGrows ==
    ASSUME NEW js, NEW js2, js \subseteq js2
    PROVE  /\ SoundAgenda(js) \subseteq SoundAgenda(js2)
           /\ SoundAgenda(js) \subseteq Agenda
  <1>1. SoundTasks(js) \subseteq SoundTasks(js2) /\ SoundTasks(js) \subseteq Task
    BY DEF SoundTasks
  <1>2. /\ Seq(SoundTasks(js)) \subseteq Seq(SoundTasks(js2))
        /\ Seq(SoundTasks(js)) \subseteq Seq(Task)
    BY <1>1, SoundSeqs
  <1> QED
    BY <1>2 DEF SoundAgenda, Agenda

\* A device with nothing put off has a sound agenda.
LEMMA EmptyAgendaSound ==
    ASSUME NEW js
    PROVE  EmptyAgenda \in SoundAgenda(js)
  BY DEF EmptyAgenda, SoundAgenda

\* asyncAfter: a sound task added to a sound agenda.
LEMMA AfterSound ==
    ASSUME NEW js, NEW ag \in SoundAgenda(js),
           NEW d \in 0..ResultsSeconds, NEW t \in SoundTasks(js)
    PROVE  After(ag, d, t) \in SoundAgenda(js)
  BY DEF After, SoundAgenda

\* A second that passes moves the tasks and adds none.
LEMMA OneSecondLaterSound ==
    ASSUME NEW js, NEW ag \in SoundAgenda(js)
    PROVE  OneSecondLater(ag) \in SoundAgenda(js)
  BY DEF OneSecondLater, SoundAgenda, ResultsSeconds

\* Results may be put off at any time, a setWinner only after a win, a check after its verdict.
LEMMA TasksSound ==
    ASSUME NEW js
    PROVE  /\ ResultsTask \in SoundTasks(js)
           /\ "win" \in js => SetWinnerTask \in SoundTasks(js)
           /\ \A v \in VerdictSet : v \in js => Check(v) \in SoundTasks(js)
           /\ \A v \in VerdictSet : (v = "win" => "win" \in js) => Kick(v) \in SoundTasks(js)
  BY DEF ResultsTask, SetWinnerTask, Check, Kick, SoundTasks, Task, VerdictSet

\* continueToResults on a sound agenda.
LEMMA ContinueSound ==
    ASSUME NEW js, NEW ag \in SoundAgenda(js)
    PROVE  continueToResults(ag) \in SoundAgenda(js)
  BY AfterSound, TasksSound DEF continueToResults, ResultsSeconds

\* checkForWinner leaves a kick of the own hand behind only when it sees a win.
LEMMA CheckedAgendaSound ==
    ASSUME NEW js, NEW ag \in SoundAgenda(js),
           NEW v \in VerdictSet, v = "win" => "win" \in js
    PROVE  CheckedAgenda(ag, v) \in SoundAgenda(js)
  <1> DEFINE kicked == IF v \in {"win", "lose"} THEN After(ag, KickSeconds, Kick(v)) ELSE ag
  <1>1. KickSeconds \in 0..ResultsSeconds
    BY DEF KickSeconds, ResultsSeconds
  <1>2. Kick(v) \in SoundTasks(js)
    BY TasksSound
  <1>3. kicked \in SoundAgenda(js)
    BY <1>1, <1>2, AfterSound
  <1>4. continueToResults(kicked) \in SoundAgenda(js)
    BY <1>3, ContinueSound
  <1> QED
    BY <1>3, <1>4 DEF CheckedAgenda

\* What is due first on a sound agenda is sound, and so is the rest.
LEMMA DueSound ==
    ASSUME NEW js, NEW p \in Players, agenda[p] \in SoundAgenda(js),
           agenda[p][0] # << >>
    PROVE  /\ Rest(p) \in SoundAgenda(js)
           /\ Head(agenda[p][0]) \in SoundTasks(js)
  <1>1. 0 \in 0..ResultsSeconds
    BY DEF ResultsSeconds
  <1>2. agenda[p][0] \in Seq(SoundTasks(js))
    BY <1>1 DEF SoundAgenda
  <1>3. Head(agenda[p][0]) \in SoundTasks(js) /\ Tail(agenda[p][0]) \in Seq(SoundTasks(js))
    BY <1>2
  <1> QED
    BY <1>1, <1>3 DEF Rest, SoundAgenda

(***************************************************************************)
(* Sending.                                                                *)
(***************************************************************************)
\* What a view shows its listener of a sound document under sound writes is sound: a
\* document it withholds is the one the listener knows.
LEMMA SeeSound ==
    ASSUME NEW picked, NEW earned, NEW p \in Players,
           NEW d \in SoundDocs(picked, earned), NEW ws \in Seq(SoundWrites(picked, earned)),
           NEW n, NEW q \in Seq(SoundDocs(picked, earned)),
           cb \in [Players -> Seq(SoundDocs(picked, earned))],
           See(p, Seen(p, d, ws, n), q)
    PROVE  cb' \in [Players -> Seq(SoundDocs(picked, earned))]
  <1>1. Overlay(d, ws) \in SoundDocs(picked, earned)
    BY OverlaySound
  <1>2. Seen(p, d, ws, n) = seen[p] \/ Seen(p, d, ws, n) = Overlay(d, ws)
    BY DEF Seen
  <1>3. Told(p, Seen(p, d, ws, n)) \in Seq(SoundDocs(picked, earned))
    BY <1>1, <1>2 DEF Told
  <1>4. q \o Told(p, Seen(p, d, ws, n)) \in Seq(SoundDocs(picked, earned))
    BY <1>3
  <1> QED
    BY <1>4 DEF See

\* Writes that are sound, issued on a sound view, keep every queue sound.
LEMMA SendSound ==
    ASSUME NEW picked, NEW earned, NEW p \in Players,
           NEW ws \in Seq(SoundWrites(picked, earned)), NEW q \in Seq(SoundDocs(picked, earned)),
           base[p] \in SoundDocs(picked, earned),
           own \in [Players -> Seq(SoundWrites(picked, earned))],
           cb \in [Players -> Seq(SoundDocs(picked, earned))],
           Send(p, ws, q)
    PROVE  /\ own' \in [Players -> Seq(SoundWrites(picked, earned))]
           /\ cb' \in [Players -> Seq(SoundDocs(picked, earned))]
  <1>1. own[p] \o ws \in Seq(SoundWrites(picked, earned))
    OBVIOUS
  <1>2. own' = [own EXCEPT ![p] = own[p] \o ws] /\ See(p, Seen(p, base[p], own[p] \o ws, acked[p]), q)
    BY DEF Send
  <1>3. cb' \in [Players -> Seq(SoundDocs(picked, earned))]
    BY <1>1, <1>2, SeeSound
  <1> QED
    BY <1>1, <1>2, <1>3

(***************************************************************************)
(* How a step changes the picks and the verdicts.                          *)
(***************************************************************************)
\* The picks and verdicts are read off the history.
LEMMA HistorySame ==
    ASSUME UNCHANGED <<taps, judged>>
    PROVE  PickedBy' = PickedBy /\ EarnedBy' = EarnedBy
  BY DEF PickedBy, EarnedBy, Picked, Earned

\* Acting on a verdict adds it; one that writes (a win or a tie) earns the device its name
\* in the winner field.
LEMMA JudgeGrows ==
    ASSUME HistoryTyped, NEW p \in Players, NEW v \in VerdictSet, Judge(p, v),
           UNCHANGED <<versions, taps>>
    PROVE  /\ HistoryTyped'
           /\ PickedBy' = PickedBy
           /\ EarnedBy \subseteq EarnedBy'
           /\ TakesElse(v) => p \in EarnedBy'
           /\ v # "waiting" => v \in judged'[p]
           /\ \A q \in Players : judged[q] \subseteq judged'[q]
  BY ZenonT(60) DEF HistoryTyped, Judge, VerdictSet, PickedBy, Picked, EarnedBy, Earned, TakesElse

\* Picking adds the move to those its player has picked.
LEMMA TapGrows ==
    ASSUME HistoryTyped, NEW p \in Players, NEW m \in PickSet,
           taps' = [taps EXCEPT ![p] = Append(@, m)], UNCHANGED <<versions, judged>>
    PROVE  /\ HistoryTyped'
           /\ \A q \in Players : PickedBy[q] \subseteq PickedBy'[q]
           /\ m \in PickedBy'[p]
           /\ EarnedBy' = EarnedBy
  <1>1. HistoryTyped'
    BY DEF HistoryTyped
  <1>2. EarnedBy' = EarnedBy
    BY DEF EarnedBy, Earned
  <1>3. taps[p] \in Seq(PickSet)
    BY DEF HistoryTyped
  <1>4. /\ Len(taps'[p]) = Len(taps[p]) + 1
        /\ taps'[p][Len(taps[p]) + 1] = m
        /\ \A i \in DOMAIN taps[p] : i \in DOMAIN taps'[p] /\ taps'[p][i] = taps[p][i]
        /\ Len(taps[p]) + 1 \in DOMAIN taps'[p]
    BY <1>3 DEF HistoryTyped
  <1>5. Picked(p) \subseteq Picked(p)' /\ m \in Picked(p)'
    BY <1>4 DEF Picked
  <1>6. \A q \in Players \ {p} : Picked(q)' = Picked(q)
    BY DEF HistoryTyped, Picked
  <1> QED
    BY <1>1, <1>2, <1>5, <1>6 DEF PickedBy

\* What is sound for some picks and verdicts is sound for more of them.
LEMMA QueuesGrow ==
    ASSUME NEW picked, NEW picked2, NEW earned, NEW earned2,
           \A p \in Players : picked[p] \subseteq picked2[p],
           earned \subseteq earned2, QueuesSound(picked, earned)
    PROVE  QueuesSound(picked2, earned2)
  <1>1. /\ SoundDocs(picked, earned) \subseteq SoundDocs(picked2, earned2)
        /\ SoundWrites(picked, earned) \subseteq SoundWrites(picked2, earned2)
    BY SoundGrows
  <1>2. /\ Seq(SoundDocs(picked, earned)) \subseteq Seq(SoundDocs(picked2, earned2))
        /\ Seq(SoundWrites(picked, earned)) \subseteq Seq(SoundWrites(picked2, earned2))
    BY <1>1, SoundSeqs
  <1> QED
    BY <1>1, <1>2 DEF QueuesSound

\* A local game that is sound for some picks and verdicts is sound for more of them.
LEMMA GameGrows ==
    ASSUME NEW picked, NEW picked2, NEW earned, NEW earned2,
           \A p \in Players : picked[p] \subseteq picked2[p],
           earned \subseteq earned2,
           NEW p \in Players, NEW g, NEW b, SoundGame(p, g, b, picked, earned)
    PROVE  SoundGame(p, g, b, picked2, earned2)
  BY DEF SoundGame

(***************************************************************************)
(* The steps that neither pick nor judge.                                  *)
(***************************************************************************)
\* The exit dialog opening or being cancelled, and onHome, touch no document.
LEMMA DialogStep ==
    ASSUME MatchSound, NEW p \in Players, OpenAlert(p) \/ CancelAlert(p) \/ Home(p)
    PROVE  MatchSound'
  <1>1. UNCHANGED <<server, base, feed, own, cb, game, enabled, agenda, shown, versions>>
    BY DEF OpenAlert, CancelAlert, Home, network
  <1>2. UNCHANGED history
    BY DEF OpenAlert, CancelAlert, Home
  <1>3. PickedBy' = PickedBy /\ EarnedBy' = EarnedBy
    BY <1>2, HistorySame DEF history
  <1>4. DevicesTyped'
    BY <1>1 DEF MatchSound, DevicesTyped, OpenAlert, CancelAlert, Home, Screen
  <1> QED
    BY <1>1, <1>2, <1>3, <1>4 DEF MatchSound, QueuesSound, HistoryTyped, history, GamesSound,
       AgendasSound, ShownSound

\* Termination drops the queues of the device and keeps its writes.
LEMMA KillStep ==
    ASSUME MatchSound, NEW p \in Players, Kill(p)
    PROVE  MatchSound'
  <1>1. UNCHANGED <<server, base, feed, own, game, enabled, shown, versions>> /\ UNCHANGED history
    BY DEF Kill, network
  <1>2. PickedBy' = PickedBy /\ EarnedBy' = EarnedBy
    BY <1>1, HistorySame DEF history
  <1>3. QueuesSound(PickedBy, EarnedBy)'
    BY <1>1, <1>2 DEF MatchSound, QueuesSound, Kill
  <1>4. DevicesTyped'
    BY <1>1 DEF MatchSound, DevicesTyped, Kill, Screen
  <1>5. AgendasSound'
    <2>1. EmptyAgenda \in SoundAgenda(judged[p]) /\ EmptyAgenda \in Agenda
      BY EmptyAgendaSound, AgendaGrows
    <2> QED
      BY <1>1, <2>1 DEF MatchSound, AgendasSound, Kill, history
  <1> QED
    BY <1>1, <1>2, <1>3, <1>4, <1>5 DEF MatchSound, HistoryTyped, history, GamesSound, ShownSound

\* A snapshot that reaches no controller is dropped.
LEMMA IgnoreSnapshotStep ==
    ASSUME MatchSound, NEW p \in Players, IgnoreSnapshot(p)
    PROVE  MatchSound'
  <1>1. UNCHANGED <<network, own, device, versions, history>>
    BY DEF IgnoreSnapshot
  <1>2. PickedBy' = PickedBy /\ EarnedBy' = EarnedBy
    BY <1>1, HistorySame DEF history
  <1>3. QueuesSound(PickedBy, EarnedBy)'
    <2>1. cb[p] \in Seq(SoundDocs(PickedBy, EarnedBy)) /\ cb[p] # << >>
      BY DEF MatchSound, QueuesSound, IgnoreSnapshot
    <2>2. Tail(cb[p]) \in Seq(SoundDocs(PickedBy, EarnedBy))
      BY <2>1
    <2> QED
      BY <1>1, <1>2, <2>2 DEF MatchSound, QueuesSound, IgnoreSnapshot, network
  <1> QED
    BY <1>1, <1>2, <1>3 DEF MatchSound, DevicesTyped, HistoryTyped, history, device, GamesSound,
       AgendasSound, ShownSound

\* A second passes.
LEMMA TickStep ==
    ASSUME MatchSound, Tick
    PROVE  MatchSound'
  <1>1. UNCHANGED <<server, base, feed, own, cb, alert, game, enabled, shown, versions>>
        /\ UNCHANGED history
    BY DEF Tick, network
  <1>2. PickedBy' = PickedBy /\ EarnedBy' = EarnedBy
    BY <1>1, HistorySame DEF history
  <1>3. DevicesTyped'
    BY <1>1 DEF MatchSound, DevicesTyped, Tick, Screen
  <1>4. AgendasSound'
    <2>1. \A p \in Players : OneSecondLater(agenda[p]) \in SoundAgenda(judged[p])
      BY OneSecondLaterSound DEF MatchSound, AgendasSound
    <2>2. \A p \in Players : OneSecondLater(agenda[p]) \in Agenda
      BY <2>1, AgendaGrows
    <2> QED
      BY <1>1, <2>1, <2>2 DEF AgendasSound, Tick, history
  <1> QED
    BY <1>1, <1>2, <1>3, <1>4 DEF MatchSound, QueuesSound, HistoryTyped, history, GamesSound, ShownSound

\* A task that is due is taken off an agenda that stays sound.
LEMMA DueStep ==
    ASSUME MatchSound, NEW p \in Players, NEW kind, Due(p, kind)
    PROVE  /\ Rest(p) \in SoundAgenda(judged[p])
           /\ Head(agenda[p][0]) \in SoundTasks(judged[p])
           /\ Head(agenda[p][0]).kind = kind
  BY DueSound DEF MatchSound, AgendasSound, Due

\* One agenda is replaced by a sound one.
LEMMA AgendaStep ==
    ASSUME AgendasSound, NEW p \in Players, NEW ag,
           ag \in SoundAgenda(judged'[p]), agenda' = [agenda EXCEPT ![p] = ag],
           \A q \in Players : judged[q] \subseteq judged'[q]
    PROVE  AgendasSound'
  <1>1. ag \in Agenda
    BY AgendaGrows
  <1>2. \A q \in Players : agenda[q] \in SoundAgenda(judged'[q])
    BY AgendaGrows DEF AgendasSound
  <1> QED
    BY <1>1, <1>2 DEF AgendasSound

\* animateFinalMoves: a setWinner is put off by the hand of a device that judged a win.
LEMMA RunKickStep ==
    ASSUME MatchSound, NEW p \in Players, NEW finished \in BOOLEAN, RunKick(p, finished)
    PROVE  MatchSound'
  <1>1. UNCHANGED <<server, base, feed, own, cb, screen, alert, game, enabled, shown, versions>>
        /\ UNCHANGED <<taps, judged>>
    BY DEF RunKick, network
  <1>2. PickedBy' = PickedBy /\ EarnedBy' = EarnedBy
    BY <1>1, HistorySame
  <1>3. AgendasSound'
    <2> DEFINE kick == Head(agenda[p][0])
               ag == CASE ~finished -> Rest(p)
                       [] finished /\ MyHandKicked(kick) ->
                              After(Rest(p), SetWinnerSeconds, SetWinnerTask)
                       [] OTHER -> continueToResults(Rest(p))
    <2>1. /\ Rest(p) \in SoundAgenda(judged[p])
          /\ kick \in SoundTasks(judged[p])
          /\ kick.kind = "kick"
      BY DueStep DEF RunKick
    <2>2. continueToResults(Rest(p)) \in SoundAgenda(judged[p])
      BY <2>1, ContinueSound
    <2>3. MyHandKicked(kick) => SetWinnerTask \in SoundTasks(judged[p])
      BY <2>1, TasksSound DEF MyHandKicked, SoundTasks
    <2>4. MyHandKicked(kick) => After(Rest(p), SetWinnerSeconds, SetWinnerTask) \in SoundAgenda(judged[p])
      BY <2>1, <2>3, AfterSound DEF SetWinnerSeconds, ResultsSeconds
    <2>5. ag \in SoundAgenda(judged[p])
      BY <2>1, <2>2, <2>4
    <2>6. agenda' = [agenda EXCEPT ![p] = ag] /\ judged' = judged
      BY <1>1 DEF RunKick
    <2> HIDE DEF ag
    <2> QED
      BY <2>5, <2>6, AgendaStep DEF MatchSound
  <1> QED
    BY <1>1, <1>2, <1>3 DEF MatchSound, DevicesTyped, QueuesSound, HistoryTyped, GamesSound, ShownSound

\* continueToResults: the opponent can be announced winner only from a local game that
\* names him, and then he has earned it.
LEMMA RunResultsStep ==
    ASSUME MatchSound, NEW p \in Players, RunResults(p)
    PROVE  MatchSound'
  <1>1. UNCHANGED <<server, base, feed, own, cb, alert, game, enabled, versions>>
        /\ UNCHANGED history
    BY DEF RunResults, network
  <1>2. PickedBy' = PickedBy /\ EarnedBy' = EarnedBy
    BY <1>1, HistorySame DEF history
  <1>3. AgendasSound'
    <2>1. Rest(p) \in SoundAgenda(judged[p])
      BY DueStep DEF RunResults
    <2> QED
      BY <1>1, <2>1, AgendaStep DEF RunResults, MatchSound, history
  <1>4. game[p].winner \in Players \cup {NoOne}
    BY DEF MatchSound, DevicesTyped, Game
  <1>5. DevicesTyped'
    BY <1>1, <1>4 DEF MatchSound, DevicesTyped, RunResults, Announced, Screen
  <1>6. game[p].winner \in Players \ {p} => game[p].winner \in EarnedBy
    BY DEF MatchSound, GamesSound, SoundGame
  <1>7. ShownSound'
    BY <1>1, <1>2, <1>4, <1>6 DEF MatchSound, DevicesTyped, ShownSound, RunResults, Announced
  <1> QED
    BY <1>1, <1>2, <1>3, <1>5, <1>7 DEF MatchSound, QueuesSound, HistoryTyped, history, GamesSound

(***************************************************************************)
(* Firestore's steps.                                                      *)
(***************************************************************************)
\* The backend merges a sound write into a sound document, which is then past "starting".
LEMMA CommitStep ==
    ASSUME MatchSound, NetworkSound, NEW p \in Players, Commit(p)
    PROVE  MatchSound' /\ (server.state # "starting" => server'.state # "starting")
  <1> DEFINE n == Len(at[p]) + 1
             doc == Merge(server, own[p][n])
             SD == SoundDocs(PickedBy, EarnedBy)
  <1>1. UNCHANGED <<base, own, cb, screen, alert, game, enabled, agenda, shown>>
        /\ UNCHANGED history
    BY DEF Commit, device
  <1>2. PickedBy' = PickedBy /\ EarnedBy' = EarnedBy
    BY <1>1, HistorySame DEF history
  <1>3. own[p][n] \in SoundWrites(PickedBy, EarnedBy)
    <2>1. at[p] \in Seq(Nat)
      BY DEF NetworkSound
    <2>2. n \in 1..Len(own[p])
      BY <2>1 DEF Commit, MatchSound, QueuesSound
    <2> QED
      BY <2>2 DEF MatchSound, QueuesSound
  <1>4. doc \in SD /\ doc.state # "starting"
    BY <1>3, MergeSound DEF MatchSound, QueuesSound
  <1>5. server' = doc
    BY DEF Commit
  <1>6. feed' \in [Players -> Seq(SD)]
    <2>1. \A q \in Players : feed[q] \in Seq(SD)
      BY DEF MatchSound, QueuesSound
    <2>2. feed' = IF doc = server THEN feed ELSE [q \in Players |-> Append(feed[q], doc)]
      BY DEF Commit
    <2>3. feed \in [Players -> Seq(SD)]
      BY DEF MatchSound, QueuesSound
    <2> HIDE DEF doc, SD
    <2>4. \A q \in Players : Append(feed[q], doc) \in Seq(SD)
      BY <1>4, <2>1
    <2> QED
      BY <2>2, <2>3, <2>4
  <1>7. versions' \in 0..MaxVersions
    BY DEF Commit, MatchSound, HistoryTyped
  <1>8. QueuesSound(PickedBy, EarnedBy)'
    BY <1>1, <1>2, <1>4, <1>5, <1>6 DEF MatchSound, QueuesSound
  <1>9. server'.state # "starting"
    BY <1>4, <1>5
  <1> QED
    BY <1>1, <1>2, <1>7, <1>8, <1>9 DEF MatchSound, DevicesTyped, HistoryTyped, history, GamesSound,
       AgendasSound, ShownSound

\* A queue cut in two.
LEMMA CutSound ==
    ASSUME NEW S, NEW s \in Seq(S), NEW m \in Nat, m <= Len(s)
    PROVE  /\ SubSeq(s, 1, m) \in Seq(S) /\ Len(SubSeq(s, 1, m)) = m
           /\ SubSeq(s, m + 1, Len(s)) \in Seq(S) /\ Len(SubSeq(s, m + 1, Len(s))) = Len(s) - m
  <1>1. Len(s) \in Nat /\ \A i \in 1..Len(s) : s[i] \in S
    OBVIOUS
  <1>2. 1 \in Int /\ m \in Int /\ m + 1 \in Int /\ Len(s) \in Int
    BY <1>1
  <1>3. (\A i \in 1..m : s[i] \in S) /\ (\A i \in (m + 1)..Len(s) : s[i] \in S)
    BY <1>1
  <1>4. /\ SubSeq(s, 1, m) \in Seq(S)
        /\ Len(SubSeq(s, 1, m)) = IF 1 <= m THEN m - 1 + 1 ELSE 0
    BY <1>2, <1>3, SubSeqProperties
  <1>5. /\ SubSeq(s, m + 1, Len(s)) \in Seq(S)
        /\ Len(SubSeq(s, m + 1, Len(s))) = IF m + 1 <= Len(s) THEN Len(s) - (m + 1) + 1 ELSE 0
    BY <1>2, <1>3, SubSeqProperties
  <1> QED
    BY <1>1, <1>4, <1>5

\* A queue out of which one thing is taken.
LEMMA WithoutSound ==
    ASSUME NEW S, NEW s \in Seq(S), NEW i \in Nat \ {0}, i <= Len(s)
    PROVE  Without(s, i) \in Seq(S) /\ Len(Without(s, i)) = Len(s) - 1
  <1>1. i - 1 \in Nat /\ i - 1 <= Len(s) /\ Len(s) \in Nat
    OBVIOUS
  <1>2. SubSeq(s, 1, i - 1) \in Seq(S) /\ Len(SubSeq(s, 1, i - 1)) = i - 1
    BY <1>1, CutSound
  <1>3. SubSeq(s, i + 1, Len(s)) \in Seq(S) /\ Len(SubSeq(s, i + 1, Len(s))) = Len(s) - i
    BY CutSound
  <1> DEFINE a == SubSeq(s, 1, i - 1)
             b == SubSeq(s, i + 1, Len(s))
  <1>4. Without(s, i) = a \o b
    BY DEF Without
  <1>5. a \in Seq(S) /\ b \in Seq(S) /\ Len(a) = i - 1 /\ Len(b) = Len(s) - i
    BY <1>2, <1>3
  <1> HIDE DEF a, b
  <1>6. a \o b \in Seq(S) /\ Len(a \o b) = Len(a) + Len(b)
    BY <1>5
  <1> QED
    BY <1>1, <1>4, <1>5, <1>6

\* An acknowledged write is forgotten once the device has a version that contains it.
LEMMA AckStep ==
    ASSUME MatchSound, NetworkSound, NEW p \in Players, Ack(p)
    PROVE  MatchSound'
  <1> DEFINE n == acked[p] + 1
             newOwn == Without(own[p], n)
             SD == SoundDocs(PickedBy, EarnedBy)
             SW == SoundWrites(PickedBy, EarnedBy)
  <1>1. UNCHANGED <<server, base, feed, screen, alert, game, enabled, agenda, shown, versions>>
        /\ UNCHANGED history
    BY DEF Ack, device
  <1>2. PickedBy' = PickedBy /\ EarnedBy' = EarnedBy
    BY <1>1, HistorySame DEF history
  <1>3. /\ own[p] \in Seq(SW) /\ base[p] \in SD /\ acked[p] \in Nat
        /\ own \in [Players -> Seq(SW)] /\ cb \in [Players -> Seq(SD)]
    BY DEF MatchSound, QueuesSound, NetworkSound
  <1>4. newOwn \in Seq(SW)
    <2>1. n \in Nat \ {0} /\ n <= Len(own[p])
      <3>1. Len(at[p]) <= Len(own[p]) /\ Len(at[p]) \in Nat /\ n <= Len(at[p])
        BY DEF NetworkSound, Ack
      <3> QED
        BY <1>3, <3>1
    <2> QED
      BY <1>3, <2>1, WithoutSound
  <1>5. \/ own' = [own EXCEPT ![p] = newOwn] /\ See(p, Seen(p, base[p], newOwn, acked[p]), cb[p])
        \/ own' = own /\ cb' = cb
    BY DEF Ack
  <1>6. ASSUME See(p, Seen(p, base[p], newOwn, acked[p]), cb[p])
        PROVE  cb' \in [Players -> Seq(SD)]
    <2> HIDE DEF newOwn
    <2>1. cb[p] \in Seq(SD)
      BY <1>3
    <2> QED
      BY <1>3, <1>4, <1>6, <2>1, SeeSound
  <1>7. own' \in [Players -> Seq(SW)] /\ cb' \in [Players -> Seq(SD)]
    <2> HIDE DEF newOwn, SD, SW
    <2> QED
      BY <1>3, <1>4, <1>5, <1>6
  <1> QED
    BY <1>1, <1>2, <1>7 DEF MatchSound, QueuesSound, DevicesTyped, HistoryTyped, history, GamesSound,
       AgendasSound, ShownSound

\* A device is sent a version and forgets the acknowledged writes, which it contains.
LEMMA WatchStep ==
    ASSUME MatchSound, NetworkSound, NEW p \in Players, NEW k \in 1..Len(feed[p]), Watch(p, k)
    PROVE  MatchSound'
  <1> DEFINE newBase == feed[p][k]
             newOwn == SubSeq(own[p], acked[p] + 1, Len(own[p]))
             SD == SoundDocs(PickedBy, EarnedBy)
             SW == SoundWrites(PickedBy, EarnedBy)
  <1>1. UNCHANGED <<server, screen, alert, game, enabled, agenda, shown, versions>>
        /\ UNCHANGED history
    BY DEF Watch, device
  <1>2. PickedBy' = PickedBy /\ EarnedBy' = EarnedBy
    BY <1>1, HistorySame DEF history
  <1>3. /\ feed[p] \in Seq(SD) /\ own[p] \in Seq(SW) /\ acked[p] \in Nat
        /\ feed \in [Players -> Seq(SD)] /\ own \in [Players -> Seq(SW)]
        /\ cb \in [Players -> Seq(SD)] /\ base \in [Players -> SD]
    BY DEF MatchSound, QueuesSound, NetworkSound
  <1>4. newBase \in SD
    BY <1>3
  <1>5. newOwn \in Seq(SW)
    BY <1>3
  <1>6. SubSeq(feed[p], k + 1, Len(feed[p])) \in Seq(SD)
    BY <1>3
  <1>8. /\ base' = [base EXCEPT ![p] = newBase]
        /\ own' = [own EXCEPT ![p] = newOwn]
        /\ feed' = [feed EXCEPT ![p] = SubSeq(@, k + 1, Len(@))]
        /\ See(p, Seen(p, newBase, newOwn, 0), cb[p])
    BY DEF Watch
  <1>7. cb' \in [Players -> Seq(SD)]
    <2>1. cb[p] \in Seq(SD)
      BY <1>3
    <2> HIDE DEF newBase, newOwn
    <2> QED
      BY <1>3, <1>4, <1>5, <1>8, <2>1, SeeSound
  <1>9. QueuesSound(PickedBy, EarnedBy)'
    <2> HIDE DEF newBase, newOwn, SD, SW
    <2>1. /\ base' \in [Players -> SD] /\ own' \in [Players -> Seq(SW)]
          /\ feed' \in [Players -> Seq(SD)] /\ cb' \in [Players -> Seq(SD)]
      BY <1>3, <1>4, <1>5, <1>6, <1>7, <1>8
    <2> QED
      BY <1>1, <1>2, <2>1 DEF MatchSound, QueuesSound, SD, SW
  <1> QED
    BY <1>1, <1>2, <1>9 DEF MatchSound, DevicesTyped, HistoryTyped, history, GamesSound,
       AgendasSound, ShownSound

\* A broken connection changes what will be sent again, not what is kept.
LEMMA BreakStep ==
    ASSUME MatchSound, NEW p \in Players, Break(p)
    PROVE  MatchSound'
  <1>1. UNCHANGED <<server, base, feed, own, cb, device, versions, history>>
    BY DEF Break
  <1>2. PickedBy' = PickedBy /\ EarnedBy' = EarnedBy
    BY <1>1, HistorySame DEF history
  <1> QED
    BY <1>1, <1>2 DEF MatchSound, QueuesSound, DevicesTyped, HistoryTyped, GamesSound,
       AgendasSound, ShownSound, device, history

\* The queues of one device, and the positions in them, after a step that moves them.
LEMMA PositionsStep ==
    ASSUME NetworkSound, NEW p \in Players,
           NEW ownP, NEW atP \in Seq(Nat), NEW n \in Nat,
           own \in [Players -> Seq(Write)], ownP \in Seq(Write),
           n <= Len(atP), Len(atP) <= Len(ownP),
           own' = [own EXCEPT ![p] = ownP], at' = [at EXCEPT ![p] = atP],
           acked' = [acked EXCEPT ![p] = n],
           breaks' \in 0..MaxBreaks, cut' \in BOOLEAN
    PROVE  NetworkSound'
  <1>1. at' \in [Players -> Seq(Nat)] /\ acked' \in [Players -> Nat]
    BY DEF NetworkSound
  <1>2. ASSUME NEW q \in Players
        PROVE  acked'[q] <= Len(at'[q]) /\ Len(at'[q]) <= Len(own'[q])
    <2>1. CASE q = p
      <3>1. acked'[q] = n /\ at'[q] = atP /\ own'[q] = ownP
        BY <2>1 DEF NetworkSound
      <3> QED
        BY <3>1
    <2>2. CASE q # p
      <3>1. acked'[q] = acked[q] /\ at'[q] = at[q] /\ own'[q] = own[q]
        BY <2>2 DEF NetworkSound
      <3> QED
        BY <3>1 DEF NetworkSound
    <2> QED
      BY <2>1, <2>2
  <1> QED
    BY <1>1, <1>2 DEF NetworkSound

\* A device that issues writes, or none, leaves the positions of the others alone.
LEMMA IssueStep ==
    ASSUME NetworkSound, NEW p \in Players, own \in [Players -> Seq(Write)],
           NEW ws \in Seq(Write), own' = [own EXCEPT ![p] = @ \o ws],
           UNCHANGED network, cut' \in BOOLEAN
    PROVE  NetworkSound'
  <1>1. own[p] \o ws \in Seq(Write) /\ Len(own[p]) <= Len(own[p] \o ws)
    OBVIOUS
  <1>2. /\ at[p] \in Seq(Nat) /\ acked[p] \in Nat /\ acked[p] <= Len(at[p])
        /\ Len(at[p]) <= Len(own[p] \o ws)
    BY <1>1 DEF NetworkSound
  <1>3. /\ at' = [at EXCEPT ![p] = at[p]] /\ acked' = [acked EXCEPT ![p] = acked[p]]
        /\ breaks' \in 0..MaxBreaks
    BY DEF NetworkSound, network
  <1> QED
    BY <1>1, <1>2, <1>3, PositionsStep

\* Every write on its way is one that the code can make.
LEMMA OwnTyped ==
    ASSUME MatchSound
    PROVE  own \in [Players -> Seq(Write)]
  <1>1. SoundWrites(PickedBy, EarnedBy) \subseteq Write
    BY DEF SoundWrites, SoundDocs, Write
  <1>2. Seq(SoundWrites(PickedBy, EarnedBy)) \subseteq Seq(Write)
    BY <1>1, SoundSeqs
  <1> QED
    BY <1>2 DEF MatchSound, QueuesSound

\* Acknowledgements, versions and lost connections keep the positions of the writes
\* within the queues.
LEMMA FirestoreNetwork ==
    ASSUME MatchSound, NetworkSound, NEW p \in Players, Firestore(p) \/ Break(p) \/ Kill(p)
    PROVE  NetworkSound'
  <1>0. /\ own \in [Players -> Seq(Write)] /\ own[p] \in Seq(Write)
        /\ at[p] \in Seq(Nat) /\ acked[p] \in Nat
        /\ acked[p] <= Len(at[p]) /\ Len(at[p]) <= Len(own[p])
    BY OwnTyped DEF NetworkSound
  <1>1. CASE Commit(p)
    <2>1. feed'[p] \in Seq(SoundDocs(PickedBy, EarnedBy)')
      BY <1>1, CommitStep DEF MatchSound, QueuesSound
    <2>2. Len(feed'[p]) \in Nat
      BY <2>1
    <2>3. /\ at' = [at EXCEPT ![p] = Append(at[p], Len(feed'[p]))]
          /\ Len(at[p]) + 1 <= Len(own[p])
          /\ own' = [own EXCEPT ![p] = own[p]] /\ acked' = [acked EXCEPT ![p] = acked[p]]
          /\ UNCHANGED <<breaks, cut>>
      BY <1>0, <1>1 DEF Commit, history, NetworkSound
    <2> DEFINE atP == Append(at[p], Len(feed'[p]))
    <2>4. atP \in Seq(Nat) /\ Len(atP) = Len(at[p]) + 1
      BY <1>0, <2>2
    <2>5. breaks' \in 0..MaxBreaks /\ cut' \in BOOLEAN
      BY <2>3 DEF NetworkSound
    <2>6. acked[p] <= Len(atP) /\ Len(atP) <= Len(own[p])
      BY <1>0, <2>3, <2>4
    <2> HIDE DEF atP
    <2> QED
      BY <1>0, <2>3, <2>4, <2>5, <2>6, PositionsStep DEF atP
  <1>2. CASE Ack(p)
    <2> DEFINE n == acked[p] + 1
    <2>1. breaks' \in 0..MaxBreaks /\ cut' \in BOOLEAN
      BY <1>2 DEF Ack, history, NetworkSound
    <2>2. n \in Nat \ {0} /\ n <= Len(at[p]) /\ n <= Len(own[p])
      BY <1>0, <1>2 DEF Ack
    <2>3. CASE at[p][n] <= Shown(p)
      <3> DEFINE ownP == Without(own[p], n)
                 atP == Without(at[p], n)
      <3>1. /\ own' = [own EXCEPT ![p] = ownP] /\ at' = [at EXCEPT ![p] = atP]
            /\ acked' = [acked EXCEPT ![p] = acked[p]]
        BY <1>2, <2>3 DEF Ack, NetworkSound
      <3>2. /\ ownP \in Seq(Write) /\ Len(ownP) = Len(own[p]) - 1
            /\ atP \in Seq(Nat) /\ Len(atP) = Len(at[p]) - 1
        BY <1>0, <2>2, WithoutSound
      <3>3. acked[p] <= Len(atP) /\ Len(atP) <= Len(ownP)
        BY SMTT(60), <1>0, <2>2, <3>2
      <3> HIDE DEF ownP, atP
      <3> QED
        BY <1>0, <2>1, <3>1, <3>2, <3>3, PositionsStep
    <2>4. CASE ~(at[p][n] <= Shown(p))
      <3>1. /\ own' = [own EXCEPT ![p] = own[p]] /\ at' = [at EXCEPT ![p] = at[p]]
            /\ acked' = [acked EXCEPT ![p] = n]
        BY <1>0, <1>2, <2>4 DEF Ack, NetworkSound
      <3> HIDE DEF n
      <3> QED
        BY <1>0, <2>1, <2>2, <3>1, PositionsStep
    <2> QED
      BY <2>3, <2>4
  <1>3. ASSUME NEW k \in 1..Len(feed[p]), Watch(p, k)
        PROVE  NetworkSound'
    <2> DEFINE inBase == SubSeq(at[p], acked[p] + 1, Len(at[p]))
               moved == [i \in DOMAIN inBase |-> IF inBase[i] <= k THEN 0 ELSE inBase[i] - k]
               ownP == SubSeq(own[p], acked[p] + 1, Len(own[p]))
    <2>1. inBase \in Seq(Nat) /\ Len(inBase) = Len(at[p]) - acked[p]
      <3>1. at[p] \in Seq(Nat) /\ acked[p] \in Nat /\ acked[p] <= Len(at[p])
        BY <1>0
      <3> QED
        BY ONLY <3>1, CutSound
    <2>2. ownP \in Seq(Write) /\ Len(ownP) = Len(own[p]) - acked[p]
      <3>1. Len(own[p]) \in Nat /\ Len(at[p]) \in Nat
        BY <1>0
      <3>2. acked[p] \in Nat /\ acked[p] <= Len(own[p]) /\ own[p] \in Seq(Write)
        BY <1>0, <3>1
      <3> QED
        BY SMTT(60), <3>2, CutSound
    <2>3. k \in Nat
      <3>1. Len(feed[p]) \in Nat
        BY DEF MatchSound, QueuesSound
      <3> QED
        BY <3>1
    <2>4. moved \in Seq(Nat) /\ Len(moved) = Len(inBase)
      <3> HIDE DEF inBase
      <3>1. DOMAIN inBase = 1..Len(inBase) /\ Len(inBase) \in Nat
        BY <2>1
      <3>2. \A i \in 1..Len(inBase) : moved[i] \in Nat
        BY <2>1, <2>3, <3>1
      <3> QED
        BY <3>1, <3>2
    <2>5. /\ own' = [own EXCEPT ![p] = ownP] /\ at' = [at EXCEPT ![p] = moved]
          /\ acked' = [acked EXCEPT ![p] = 0]
      BY <1>3 DEF Watch
    <2>6. breaks' \in 0..MaxBreaks /\ cut' \in BOOLEAN
      BY <1>3 DEF Watch, history, NetworkSound
    <2>7. 0 <= Len(moved) /\ Len(moved) <= Len(ownP)
      <3> HIDE DEF inBase, moved, ownP
      <3>1. Len(at[p]) \in Nat /\ Len(own[p]) \in Nat
        BY <1>0
      <3>2. Len(moved) = Len(at[p]) - acked[p] /\ Len(ownP) = Len(own[p]) - acked[p]
        BY <2>1, <2>2, <2>4
      <3> QED
        BY <1>0, <3>1, <3>2
    <2> HIDE DEF inBase, moved, ownP
    <2> QED
      BY <1>0, <2>2, <2>4, <2>5, <2>6, <2>7, PositionsStep
  <1>4. CASE Break(p) \/ Kill(p)
    <2> DEFINE atP == SubSeq(at[p], 1, acked[p])
    <2>1. /\ at' = [at EXCEPT ![p] = atP] /\ own' = [own EXCEPT ![p] = own[p]]
          /\ acked' = [acked EXCEPT ![p] = acked[p]]
      BY <1>0, <1>4 DEF Break, Kill, OnlyAcknowledged, NetworkSound
    <2>2. breaks' \in 0..MaxBreaks /\ cut' \in BOOLEAN
      BY <1>4 DEF Break, Kill, history, NetworkSound
    <2>3. atP \in Seq(Nat) /\ Len(atP) = acked[p]
      BY SMTT(60), <1>0, CutSound
    <2>4. acked[p] <= Len(atP) /\ Len(atP) <= Len(own[p])
      BY <1>0, <2>3
    <2> HIDE DEF atP
    <2> QED
      BY <1>0, <2>1, <2>2, <2>3, <2>4, PositionsStep
  <1> QED
    BY <1>1, <1>2, <1>3, <1>4 DEF Firestore

(***************************************************************************)
(* The steps that write.                                                   *)
(***************************************************************************)
\* A step that sends sound writes keeps every queue sound; it may add picks and
\* verdicts, on which the writes may rest.
LEMMA SendStep ==
    ASSUME MatchSound, NEW p \in Players, NEW picked, NEW earned,
           \A q \in Players : PickedBy[q] \subseteq picked[q],
           EarnedBy \subseteq earned,
           NEW ws \in Seq(SoundWrites(picked, earned)), NEW q \in Seq(SoundDocs(picked, earned)),
           Send(p, ws, q), UNCHANGED network
    PROVE  /\ server' \in SoundDocs(picked, earned)
           /\ base' \in [Players -> SoundDocs(picked, earned)]
           /\ feed' \in [Players -> Seq(SoundDocs(picked, earned))]
           /\ own' \in [Players -> Seq(SoundWrites(picked, earned))]
           /\ cb' \in [Players -> Seq(SoundDocs(picked, earned))]
  <1>1. QueuesSound(picked, earned)
    BY QueuesGrow DEF MatchSound
  <1>2. /\ own' \in [Players -> Seq(SoundWrites(picked, earned))]
        /\ cb' \in [Players -> Seq(SoundDocs(picked, earned))]
    BY <1>1, SendSound DEF QueuesSound
  <1> QED
    BY <1>1, <1>2 DEF QueuesSound, network

\* updateGameMoves of a sound game that has started is a sound write.
LEMMA WholeSound ==
    ASSUME NEW picked, NEW earned,
           NEW g \in SoundDocs(picked, earned), g.state # "starting"
    PROVE  <<updateGameMoves(g)>> \in Seq(SoundWrites(picked, earned))
  BY DEF updateGameMoves, SoundWrites

\* Exit writes the state alone.
LEMMA ExitStep ==
    ASSUME MatchSound, NEW p \in Players, Exit(p)
    PROVE  MatchSound'
  <1>1. UNCHANGED <<versions, server, base, feed, game, enabled, agenda, shown>>
        /\ UNCHANGED network /\ UNCHANGED history
    BY DEF Exit, network
  <1>2. PickedBy' = PickedBy /\ EarnedBy' = EarnedBy
    BY <1>1, HistorySame DEF history
  <1>3. <<updateGameStatus("finished")>> \in Seq(SoundWrites(PickedBy, EarnedBy))
    BY CreatedSound DEF GameState
  <1>4. cb[p] \in Seq(SoundDocs(PickedBy, EarnedBy))
    BY DEF MatchSound, QueuesSound
  <1>5. QueuesSound(PickedBy, EarnedBy)'
    BY <1>1, <1>2, <1>3, <1>4, SendStep DEF Exit, QueuesSound
  <1>6. DevicesTyped'
    BY <1>1 DEF MatchSound, DevicesTyped, Exit, Screen
  <1> QED
    BY <1>1, <1>2, <1>5, <1>6 DEF MatchSound, HistoryTyped, history, GamesSound, AgendasSound, ShownSound

\* The requester enters the game and writes the state alone.
LEMMA JoinStep ==
    ASSUME MatchSound, Join
    PROVE  MatchSound'
  <1> DEFINE p == Requester
             newGame == [base[p] EXCEPT !.state = "inprogress"]
             ws == <<updateGameStatus("inprogress")>>
             SD == SoundDocs(PickedBy, EarnedBy)
             SW == SoundWrites(PickedBy, EarnedBy)
  <1>1. UNCHANGED <<versions, server, base, feed, alert, agenda, shown>> /\ UNCHANGED history
    BY DEF Join, network
  <1>2. PickedBy' = PickedBy /\ EarnedBy' = EarnedBy
    BY <1>1, HistorySame DEF history
  <1>3. p \in Players /\ base[p] \in SD /\ own[p] \in Seq(SW)
    BY DEF MatchSound, QueuesSound, Players
  <1>4. own[p] \o ws \in Seq(SW)
    <2>1. ws \in Seq(SW)
      BY CreatedSound DEF GameState
    <2> QED
      BY <1>3, <2>1
  <1>5. Overlay(base[p], own[p] \o ws) \in SD
    BY <1>3, <1>4, OverlaySound
  <1>6. QueuesSound(PickedBy, EarnedBy)'
    <2>1. /\ own' = [own EXCEPT ![p] = own[p] \o ws]
          /\ cb' = [cb EXCEPT ![p] = <<Overlay(base[p], own[p] \o ws)>>]
      BY DEF Join
    <2>2. own' \in [Players -> Seq(SW)]
      BY <1>3, <1>4, <2>1 DEF MatchSound, QueuesSound
    <2>3. cb' \in [Players -> Seq(SD)]
      BY <1>3, <1>5, <2>1 DEF MatchSound, QueuesSound
    <2> QED
      BY <1>1, <1>2, <2>2, <2>3 DEF MatchSound, QueuesSound
  <1>7. newGame \in SD
    BY <1>3 DEF SoundDocs, Game, GameState
  <1>8. /\ game' = [game EXCEPT ![p] = newGame]
        /\ enabled' = [enabled EXCEPT ![p] = TRUE]
        /\ screen' = [screen EXCEPT ![p] = "game"]
    BY DEF Join
  <1>9. DevicesTyped'
    BY <1>1, <1>3, <1>7, <1>8 DEF MatchSound, DevicesTyped, Screen, SoundDocs
  <1>10. GamesSound'
    <2>1. newGame.state = "inprogress"
      BY <1>3 DEF SoundDocs, Game
    <2>2. SoundGame(p, newGame, TRUE, PickedBy, EarnedBy)
      BY <1>7, <2>1 DEF SoundDocs, SoundGame
    <2> HIDE DEF newGame, p
    <2>3. /\ game'[p] = newGame /\ enabled'[p] = TRUE
          /\ \A q \in Players \ {p} : game'[q] = game[q] /\ enabled'[q] = enabled[q]
      BY <1>3, <1>8 DEF MatchSound, DevicesTyped
    <2> QED
      BY <1>2, <2>2, <2>3 DEF MatchSound, GamesSound
  <1> QED
    BY <1>1, <1>2, <1>6, <1>9, <1>10 DEF MatchSound, HistoryTyped, history, AgendasSound, ShownSound

\* setWinner names the own device, which has judged a win when the task is there.
LEMMA RunSetWinnerStep ==
    ASSUME MatchSound, NEW p \in Players, RunSetWinner(p)
    PROVE  MatchSound'
  <1> DEFINE won == WonGame(p)
  <1>1. UNCHANGED <<versions, server, base, feed, screen, alert, enabled, shown>>
        /\ UNCHANGED network /\ UNCHANGED history
    BY DEF RunSetWinner, network
  <1>2. PickedBy' = PickedBy /\ EarnedBy' = EarnedBy
    BY <1>1, HistorySame DEF history
  <1>3. Rest(p) \in SoundAgenda(judged[p]) /\ "win" \in judged[p]
    <2>1. Due(p, "setWinner")
      BY DEF RunSetWinner
    <2>2. /\ Rest(p) \in SoundAgenda(judged[p])
          /\ Head(agenda[p][0]) \in SoundTasks(judged[p])
          /\ Head(agenda[p][0]).kind = "setWinner"
      BY <2>1, DueStep
    <2> QED
      BY <2>2 DEF SoundTasks
  <1>4. p \in EarnedBy
    BY <1>3 DEF EarnedBy, Earned
  <1>5. won \in SoundDocs(PickedBy, EarnedBy) /\ won.state = "finished" /\ won \in Game
    <2>1. game[p] \in Game /\ SoundGame(p, game[p], enabled[p], PickedBy, EarnedBy)
      BY DEF MatchSound, GamesSound, DevicesTyped
    <2>2. /\ won \in Game /\ won.moves = game[p].moves
          /\ won.state = "finished" /\ won.winner = p
      BY <2>1 DEF WonGame, Game, GameState
    <2> HIDE DEF won
    <2> QED
      BY <1>4, <2>1, <2>2 DEF SoundDocs, SoundGame
  <1>6. QueuesSound(PickedBy, EarnedBy)'
    <2>1. <<updateGameMoves(won)>> \in Seq(SoundWrites(PickedBy, EarnedBy))
      BY <1>5, WholeSound
    <2>2. cb[p] \in Seq(SoundDocs(PickedBy, EarnedBy))
      BY DEF MatchSound, QueuesSound
    <2>3. Send(p, <<updateGameMoves(won)>>, cb[p])
      BY DEF RunSetWinner
    <2> QED
      BY <1>1, <1>2, <2>1, <2>2, <2>3, SendStep DEF QueuesSound
  <1>7. AgendasSound'
    <2>1. continueToResults(Rest(p)) \in SoundAgenda(judged[p])
      BY <1>3, ContinueSound
    <2> QED
      BY <1>1, <2>1, AgendaStep DEF RunSetWinner, MatchSound, history
  <1>8. SoundGame(p, won, enabled[p], PickedBy, EarnedBy)
    BY <1>4, <1>5 DEF SoundGame, SoundDocs
  <1>9. DevicesTyped' /\ GamesSound'
    <2>1. game' = [game EXCEPT ![p] = won]
      BY DEF RunSetWinner
    <2> HIDE DEF won
    <2> QED
      BY <1>1, <1>2, <1>5, <1>8, <2>1 DEF MatchSound, DevicesTyped, GamesSound
  <1> QED
    BY <1>1, <1>2, <1>6, <1>7, <1>9 DEF MatchSound, HistoryTyped, history, ShownSound

\* pickedMove writes the whole local game.  The buttons are enabled, so the local game does
\* not name its own device unearned: this is where SoundGame is needed.
LEMMA PickStep ==
    ASSUME MatchSound, NEW p \in Players, NEW m \in Choices(p), Pick(p, m)
    PROVE  MatchSound'
  <1> DEFINE g == PickedGame(p, m)
  <1>1. UNCHANGED <<versions, server, base, feed, screen, alert, game, agenda, shown, judged>>
        /\ UNCHANGED network
    BY DEF Pick, network
  <1>2. m \in PickSet
    BY DEF Choices
  <1>3. /\ HistoryTyped'
        /\ \A q \in Players : PickedBy[q] \subseteq PickedBy'[q]
        /\ m \in PickedBy'[p]
        /\ EarnedBy' = EarnedBy
    BY <1>1, <1>2, TapGrows DEF Pick, MatchSound
  <1>4. SoundGame(p, game[p], enabled[p], PickedBy, EarnedBy) /\ enabled[p] /\ game[p] \in Game
    BY DEF Pick, MatchSound, GamesSound, DevicesTyped
  <1>5. g \in SoundDocs(PickedBy', EarnedBy') /\ g.state # "starting"
    <2> DEFINE moved == [game[p].moves EXCEPT ![p] = m]
    <2>1. game[p].moves \in [Players -> MoveSet] /\ m \in MoveSet
      BY <1>2, <1>4 DEF Game, MoveSet
    <2>2. /\ moved \in [Players -> MoveSet]
          /\ moved[p] = m /\ \A q \in Players \ {p} : moved[q] = game[p].moves[q]
      BY <2>1
    <2>3. g = [game[p] EXCEPT !.moves = moved]
      BY <1>4 DEF PickedGame, Game
    <2> HIDE DEF g, moved
    <2>4. /\ g.state = game[p].state /\ g.winner = game[p].winner
          /\ g.moves = moved /\ g \in Game
      BY <1>4, <2>2, <2>3 DEF Game
    <2>5. \A q \in Players : g.moves[q] \in PickedBy'[q] \cup {"idle"}
      BY <1>3, <1>4, <2>2, <2>4 DEF SoundGame
    <2>6. \A q \in Players : g.winner = q => q \in EarnedBy'
      BY <1>3, <1>4, <2>4 DEF SoundGame
    <2>7. game[p].state # "starting"
      BY <1>4 DEF SoundGame
    <2>8. g \in SoundDocs(PickedBy', EarnedBy')
      BY <2>4, <2>5, <2>6 DEF SoundDocs
    <2> QED
      BY <2>4, <2>7, <2>8
  <1>6. QueuesSound(PickedBy, EarnedBy)'
    <2>1. <<updateGameMoves(g)>> \in Seq(SoundWrites(PickedBy', EarnedBy'))
      BY <1>5, WholeSound
    <2>2. cb[p] \in Seq(SoundDocs(PickedBy', EarnedBy'))
      <3>1. cb[p] \in Seq(SoundDocs(PickedBy, EarnedBy))
        BY DEF MatchSound, QueuesSound
      <3>2. SoundDocs(PickedBy, EarnedBy) \subseteq SoundDocs(PickedBy', EarnedBy')
        BY <1>3, SoundGrows
      <3> QED
        BY <3>1, <3>2, SoundSeqs
    <2>3. Send(p, <<updateGameMoves(g)>>, cb[p])
      BY DEF Pick
    <2> QED
      BY <1>1, <1>3, <2>1, <2>2, <2>3, SendStep DEF QueuesSound
  <1>7. enabled' = [enabled EXCEPT ![p] = FALSE]
    BY DEF Pick
  <1>8. DevicesTyped'
    BY <1>1, <1>7 DEF MatchSound, DevicesTyped
  <1>9. GamesSound'
    <2>1. \A q \in Players : SoundGame(q, game[q], enabled[q], PickedBy', EarnedBy')
      BY <1>3, GameGrows DEF MatchSound, GamesSound
    <2> QED
      BY <1>1, <1>7, <2>1 DEF MatchSound, DevicesTyped, GamesSound, SoundGame
  <1> QED
    BY <1>1, <1>3, <1>6, <1>8, <1>9 DEF MatchSound, AgendasSound, ShownSound

\* checkForWinner writes the controller's own game.  A game that names its own
\* device winner unearned is written only with the verdict that earns it.
LEMMA CheckedSound ==
    ASSUME NEW picked, NEW earned, NEW p \in Players, NEW g \in Game, NEW b, NEW v,
           SoundGame(p, g, b, picked, earned), TakesElse(v) => p \in earned
    PROVE  /\ CheckedWrites(g, v) \in Seq(SoundWrites(picked, earned))
           /\ CheckedGame(g, v) \in Game
           /\ SoundGame(p, CheckedGame(g, v), b, picked, earned)
  <1> DEFINE f == [g EXCEPT !.state = "finished"]
             c == [g EXCEPT !.state = "finished", !.winner = NoOne]
  <1>1. /\ f \in Game /\ f.state = "finished" /\ f.moves = g.moves /\ f.winner = g.winner
        /\ c \in Game /\ c.state = "finished" /\ c.moves = g.moves /\ c.winner = NoOne
    BY DEF Game, GameState
  <1>2. CASE TakesElse(v)
    <2> HIDE DEF f, c
    <2>1. f \in SoundDocs(picked, earned)
      BY <1>1, <1>2 DEF SoundDocs, SoundGame
    <2>2. <<updateGameMoves(f)>> \in Seq(SoundWrites(picked, earned))
      BY <1>1, <2>1, WholeSound
    <2>3. SoundGame(p, c, b, picked, earned)
      BY <1>1 DEF SoundGame
    <2> QED
      BY <1>1, <1>2, <2>2, <2>3 DEF CheckedWrites, CheckedGame, f, c
  <1>3. CASE ~TakesElse(v)
    BY <1>3 DEF CheckedWrites, CheckedGame
  <1> QED
    BY <1>2, <1>3

\* animateMoves: the second check, with the verdict of two seconds ago on the game of now.
LEMMA RunCheckStep ==
    ASSUME MatchSound, NEW p \in Players, NEW finished \in BOOLEAN, RunCheck(p, finished)
    PROVE  MatchSound'
  <1> DEFINE v == IF finished THEN Head(agenda[p][0]).verdict ELSE "waiting"
  <1>1. UNCHANGED <<versions, server, base, feed, screen, alert, enabled, shown, taps>>
        /\ UNCHANGED network
    BY DEF RunCheck, network
  <1>2. Rest(p) \in SoundAgenda(judged[p]) /\ v \in VerdictSet
    BY DueStep DEF RunCheck, SoundTasks, Task, VerdictSet
  <1>3. /\ game' = [game EXCEPT ![p] = CheckedGame(game[p], v)]
        /\ agenda' = [agenda EXCEPT ![p] = CheckedAgenda(Rest(p), v)]
        /\ Send(p, CheckedWrites(game[p], v), cb[p])
        /\ Judge(p, v)
    BY DEF RunCheck
  <1> HIDE DEF v
  <1>4. /\ HistoryTyped'
        /\ PickedBy' = PickedBy
        /\ EarnedBy \subseteq EarnedBy'
        /\ TakesElse(v) => p \in EarnedBy'
        /\ v # "waiting" => v \in judged'[p]
        /\ \A q \in Players : judged[q] \subseteq judged'[q]
    BY <1>1, <1>2, <1>3, JudgeGrows DEF MatchSound
  <1>5. \A q \in Players : game[q] \in Game /\ SoundGame(q, game[q], enabled[q], PickedBy', EarnedBy')
    BY <1>4, GameGrows DEF MatchSound, GamesSound, DevicesTyped
  <1>6. /\ CheckedWrites(game[p], v) \in Seq(SoundWrites(PickedBy', EarnedBy'))
        /\ CheckedGame(game[p], v) \in Game
        /\ SoundGame(p, CheckedGame(game[p], v), enabled[p], PickedBy', EarnedBy')
    BY <1>4, <1>5, CheckedSound
  <1>7. QueuesSound(PickedBy, EarnedBy)'
    <2>1. cb[p] \in Seq(SoundDocs(PickedBy', EarnedBy'))
      <3>1. cb[p] \in Seq(SoundDocs(PickedBy, EarnedBy))
        BY DEF MatchSound, QueuesSound
      <3>2. SoundDocs(PickedBy, EarnedBy) \subseteq SoundDocs(PickedBy', EarnedBy')
        BY <1>4, SoundGrows
      <3> QED
        BY <3>1, <3>2, SoundSeqs
    <2> QED
      BY <1>1, <1>3, <1>4, <1>6, <2>1, SendStep DEF QueuesSound
  <1>8. AgendasSound'
    <2>1. Rest(p) \in SoundAgenda(judged'[p])
      BY <1>2, <1>4, AgendaGrows
    <2>2. CheckedAgenda(Rest(p), v) \in SoundAgenda(judged'[p])
      BY <1>2, <1>4, <2>1, CheckedAgendaSound
    <2> QED
      BY <1>3, <1>4, <2>2, AgendaStep DEF MatchSound
  <1>9. DevicesTyped' /\ GamesSound'
    BY <1>1, <1>3, <1>5, <1>6 DEF MatchSound, DevicesTyped, GamesSound
  <1> QED
    BY <1>1, <1>4, <1>7, <1>8, <1>9 DEF MatchSound, ShownSound

\* updateGame: the checks, the writes and the forfeit rule.
LEMMA UpdateGameStep ==
    ASSUME MatchSound, NEW p \in Players, UpdateGame(p)
    PROVE  MatchSound'
  <1> DEFINE updated == Head(cb[p])
             v == VerdictOf(p, updated)
             animated == IF v = "waiting" THEN agenda[p] ELSE After(agenda[p], RecheckSeconds, Check(v))
             checked == CheckedGame(updated, v)
             left == TakenAsForfeit(updated, checked)
             g == IF left THEN [checked EXCEPT !.winner = WinnerByForfeit(p)] ELSE checked
             b == ShouldEnable(p, updated)
             ag == IF left THEN continueToResults(CheckedAgenda(animated, v))
                           ELSE CheckedAgenda(animated, v)
  <1>1. UNCHANGED <<versions, server, base, feed, screen, alert, shown, taps>>
        /\ UNCHANGED network
    BY DEF UpdateGame, network
  <1>2. /\ game' = [game EXCEPT ![p] = g]
        /\ enabled' = [enabled EXCEPT ![p] = b]
        /\ agenda' = [agenda EXCEPT ![p] = ag]
        /\ Send(p, CheckedWrites(updated, v), Tail(cb[p]))
        /\ Judge(p, v)
    BY DEF UpdateGame
  <1>3. /\ updated \in SoundDocs(PickedBy, EarnedBy)
        /\ Tail(cb[p]) \in Seq(SoundDocs(PickedBy, EarnedBy))
    <2>1. cb[p] \in Seq(SoundDocs(PickedBy, EarnedBy)) /\ cb[p] # << >>
      BY DEF UpdateGame, MatchSound, QueuesSound
    <2> QED
      BY <2>1
  <1>4. v \in VerdictSet
    <2>1. updated.moves[p] \in MoveSet /\ updated.moves[Opponent(p)] \in MoveSet
      BY <1>3 DEF SoundDocs, Game, Opponent, Players
    <2> QED
      BY <2>1, VerdictsOppose DEF VerdictOf
  <1> HIDE DEF updated, v
  <1>5. /\ HistoryTyped'
        /\ PickedBy' = PickedBy
        /\ EarnedBy \subseteq EarnedBy'
        /\ TakesElse(v) => p \in EarnedBy'
        /\ v # "waiting" => v \in judged'[p]
        /\ \A q \in Players : judged[q] \subseteq judged'[q]
    BY <1>1, <1>2, <1>4, JudgeGrows DEF MatchSound
  <1>6. updated \in SoundDocs(PickedBy', EarnedBy') /\ updated \in Game
    BY <1>3, <1>5, SoundGrows DEF SoundDocs
  <1>7. SoundGame(p, updated, b, PickedBy', EarnedBy')
    BY <1>6 DEF SoundDocs, SoundGame, ShouldEnable
  <1>8. /\ CheckedWrites(updated, v) \in Seq(SoundWrites(PickedBy', EarnedBy'))
        /\ checked \in Game
        /\ SoundGame(p, checked, b, PickedBy', EarnedBy')
    BY <1>5, <1>6, <1>7, CheckedSound
  <1>9. QueuesSound(PickedBy, EarnedBy)'
    <2>1. Tail(cb[p]) \in Seq(SoundDocs(PickedBy', EarnedBy'))
      BY <1>3, <1>5, SoundGrows, SoundSeqs
    <2> QED
      BY <1>1, <1>2, <1>5, <1>8, <2>1, SendStep DEF QueuesSound
  <1>10. ag \in SoundAgenda(judged'[p])
    <2>1. agenda[p] \in SoundAgenda(judged'[p])
      BY <1>5, AgendaGrows DEF MatchSound, AgendasSound
    <2>2. v # "waiting" => After(agenda[p], RecheckSeconds, Check(v)) \in SoundAgenda(judged'[p])
      BY SMTT(60), <1>4, <1>5, <2>1, TasksSound, AfterSound DEF RecheckSeconds, ResultsSeconds
    <2>3. animated \in SoundAgenda(judged'[p])
      BY <2>1, <2>2
    <2>4. CheckedAgenda(animated, v) \in SoundAgenda(judged'[p])
      BY <1>4, <1>5, <2>3, CheckedAgendaSound
    <2>5. continueToResults(CheckedAgenda(animated, v)) \in SoundAgenda(judged'[p])
      BY <2>4, ContinueSound
    <2> QED
      BY <2>4, <2>5
  <1>11. AgendasSound'
    BY <1>2, <1>5, <1>10, AgendaStep DEF MatchSound
  <1>12. g \in Game /\ SoundGame(p, g, b, PickedBy', EarnedBy')
    <2>1. CASE left
      <3>1. updated.state = "finished"
        BY <2>1 DEF TakenAsForfeit
      <3>2. b = FALSE
        BY <3>1 DEF ShouldEnable
      <3>3. /\ g \in Game /\ g.moves = checked.moves /\ g.state = checked.state
            /\ g.winner = p
        BY <1>8, <2>1 DEF WinnerByForfeit, Game
      <3> HIDE DEF g, checked, b, left
      <3> QED
        BY <1>8, <3>2, <3>3 DEF SoundGame
    <2>2. CASE ~left
      BY <1>8, <2>2
    <2> QED
      BY <2>1, <2>2
  <1>13. b \in BOOLEAN
    BY DEF ShouldEnable
  <1>14. \A q \in Players : game[q] \in Game /\ SoundGame(q, game[q], enabled[q], PickedBy', EarnedBy')
    BY <1>5, GameGrows DEF MatchSound, GamesSound, DevicesTyped
  <1>15. DevicesTyped' /\ GamesSound'
    <2> HIDE DEF g, b
    <2> QED
      BY <1>1, <1>2, <1>12, <1>13, <1>14 DEF MatchSound, DevicesTyped, GamesSound
  <1> QED
    BY <1>1, <1>5, <1>9, <1>11, <1>15 DEF MatchSound, ShownSound

(***************************************************************************)
(* What a step of a device asks of Firestore.                              *)
(***************************************************************************)
\* checkForWinner's write, if it makes one, is a whole game.
LEMMA CheckedIssues ==
    ASSUME NEW p \in Players, own \in [Players -> Seq(Write)],
           NEW g \in Game, NEW v, NEW q, Send(p, CheckedWrites(g, v), q)
    PROVE  own' = own \/ \E w \in Write : own' = [own EXCEPT ![p] = Append(@, w)]
  <1>1. CASE TakesElse(v)
    <2> DEFINE w == updateGameMoves([g EXCEPT !.state = "finished"])
    <2>1. w \in Write
      BY DEF updateGameMoves, Write, Game, GameState
    <2>2. own' = [own EXCEPT ![p] = @ \o <<w>>]
      BY <1>1 DEF Send, CheckedWrites
    <2> HIDE DEF w
    <2>3. own[p] \o <<w>> = Append(own[p], w)
      BY <2>1
    <2> QED
      BY <2>1, <2>2, <2>3
  <1>2. CASE ~TakesElse(v)
    <2>1. own' = [own EXCEPT ![p] = @ \o << >>]
      BY <1>2 DEF Send, CheckedWrites
    <2>2. own[p] \o << >> = own[p]
      OBVIOUS
    <2> QED
      BY <2>1, <2>2
  <1> QED
    BY <1>1, <1>2

\* And so is every other write the devices make, unless it is a state alone.
LEMMA WriteIssues ==
    ASSUME NEW p \in Players, own \in [Players -> Seq(Write)], NEW w \in Write,
           own' = [own EXCEPT ![p] = @ \o <<w>>]
    PROVE  own' = [own EXCEPT ![p] = Append(@, w)]
  <1>1. own[p] \o <<w>> = Append(own[p], w)
    OBVIOUS
  <1> QED
    BY <1>1

\* In one step a device makes one write or none, and touches nothing of the network.
LEMMA DeviceIssues ==
    ASSUME MatchSound, Tick \/ Join \/ \E p \in Players : Main(p) \/ (User(p) /\ ~Kill(p))
    PROVE  /\ UNCHANGED network
           /\ cut \in BOOLEAN => cut' \in BOOLEAN
           /\ \/ own' = own
              \/ \E p \in Players, w \in Write : own' = [own EXCEPT ![p] = Append(@, w)]
  <1>0. /\ own \in [Players -> Seq(Write)]
        /\ \A p \in Players : game[p] \in Game
        /\ \A s \in GameState : updateGameStatus(s) \in Write
        /\ \A g \in Game : updateGameMoves(g) \in Write
    BY OwnTyped DEF MatchSound, DevicesTyped, updateGameStatus, updateGameMoves, Write, Game,
       Created, GameState, MoveSet
  <1>1. CASE Tick
    BY <1>1 DEF Tick, history
  <1>2. CASE Join
    <2>1. own' = [own EXCEPT ![Requester] = @ \o <<updateGameStatus("inprogress")>>]
      BY <1>2 DEF Join
    <2>2. updateGameStatus("inprogress") \in Write /\ Requester \in Players
      BY <1>0 DEF GameState, Players
    <2> QED
      BY <1>0, <1>2, <2>1, <2>2, WriteIssues DEF Join, history
  <1>3. ASSUME NEW p \in Players, Main(p)
        PROVE  /\ UNCHANGED network
               /\ cut \in BOOLEAN => cut' \in BOOLEAN
               /\ own' = own \/ \E w \in Write : own' = [own EXCEPT ![p] = Append(@, w)]
    <2>1. CASE UpdateGame(p)
      <3>1. cb[p] \in Seq(Game) /\ cb[p] # << >>
        <4>1. SoundDocs(PickedBy, EarnedBy) \subseteq Game
          BY DEF SoundDocs
        <4>2. Seq(SoundDocs(PickedBy, EarnedBy)) \subseteq Seq(Game)
          BY <4>1, SoundSeqs
        <4> QED
          BY <2>1, <4>2 DEF MatchSound, QueuesSound, UpdateGame
      <3>2. Head(cb[p]) \in Game
        BY <3>1
      <3>3. \E v, q : Send(p, CheckedWrites(Head(cb[p]), v), q)
        BY <2>1 DEF UpdateGame
      <3> QED
        <4>1. own' = own \/ \E w \in Write : own' = [own EXCEPT ![p] = Append(@, w)]
          BY <1>0, <3>2, <3>3, CheckedIssues
        <4> QED
          BY <2>1, <4>1 DEF UpdateGame
    <2>2. CASE \E finished \in BOOLEAN : RunCheck(p, finished)
      <3>1. \E v, q : Send(p, CheckedWrites(game[p], v), q)
        BY <2>2 DEF RunCheck
      <3> QED
        BY <1>0, <2>2, <3>1, CheckedIssues DEF RunCheck
    <2>3. CASE RunSetWinner(p)
      <3>1. WonGame(p) \in Game
        <4>1. game[p] \in Game
          BY <1>0
        <4> QED
          BY ONLY <4>1, p \in Players DEF WonGame, Game, GameState
      <3>2. updateGameMoves(WonGame(p)) \in Write
        BY <1>0, <3>1
      <3> HIDE DEF updateGameMoves
      <3>3. own' = [own EXCEPT ![p] = @ \o <<updateGameMoves(WonGame(p))>>]
        BY <2>3 DEF RunSetWinner, Send
      <3> QED
        BY <1>0, <2>3, <3>2, <3>3, WriteIssues DEF RunSetWinner, history
    <2>4. CASE IgnoreSnapshot(p) \/ RunResults(p) \/ \E finished \in BOOLEAN : RunKick(p, finished)
      BY <2>4 DEF IgnoreSnapshot, RunResults, RunKick, history
    <2> QED
      BY <1>3, <2>1, <2>2, <2>3, <2>4 DEF Main
  <1>4. ASSUME NEW p \in Players, User(p), ~Kill(p)
        PROVE  /\ UNCHANGED network
               /\ cut \in BOOLEAN => cut' \in BOOLEAN
               /\ own' = own \/ \E w \in Write : own' = [own EXCEPT ![p] = Append(@, w)]
    <2>1. ASSUME NEW m \in Choices(p), Pick(p, m)
          PROVE  /\ UNCHANGED network
                 /\ cut' = cut
                 /\ \E w \in Write : own' = [own EXCEPT ![p] = Append(@, w)]
      <3>1. PickedGame(p, m) \in Game
        BY <1>0 DEF PickedGame, Game, Choices, MoveSet
      <3>2. updateGameMoves(PickedGame(p, m)) \in Write
        BY <1>0, <3>1
      <3>3. own' = [own EXCEPT ![p] = @ \o <<updateGameMoves(PickedGame(p, m))>>]
        BY <2>1 DEF Pick, Send
      <3> QED
        BY <1>0, <2>1, <3>2, <3>3, WriteIssues DEF Pick
    <2>2. CASE Exit(p)
      <3>1. own' = [own EXCEPT ![p] = @ \o <<updateGameStatus("finished")>>]
        BY <2>2 DEF Exit, Send
      <3>2. updateGameStatus("finished") \in Write
        BY <1>0 DEF GameState
      <3> QED
        BY <1>0, <2>2, <3>1, <3>2, WriteIssues DEF Exit, history
    <2>3. CASE OpenAlert(p) \/ CancelAlert(p) \/ Home(p)
      BY <2>3 DEF OpenAlert, CancelAlert, Home, history
    <2> QED
      BY <1>4, <2>1, <2>2, <2>3 DEF User
  <1> QED
    BY <1>1, <1>2, <1>3, <1>4

\* So the positions of the writes stay within the queues.
LEMMA NetworkStep ==
    ASSUME MatchSound, NetworkSound, Next
    PROVE  NetworkSound'
  <1>1. ASSUME NEW p \in Players, Firestore(p) \/ Break(p) \/ Kill(p)
        PROVE  NetworkSound'
    BY <1>1, FirestoreNetwork
  <1>2. CASE Tick \/ Join \/ \E p \in Players : Main(p) \/ (User(p) /\ ~Kill(p))
    <2>1. own \in [Players -> Seq(Write)] /\ cut' \in BOOLEAN /\ UNCHANGED network
      BY <1>2, DeviceIssues, OwnTyped DEF NetworkSound
    <2>2. CASE own' = own
      BY <2>1, <2>2 DEF NetworkSound, network
    <2>3. CASE \E p \in Players, w \in Write : own' = [own EXCEPT ![p] = Append(@, w)]
      <3>1. PICK p \in Players, w \in Write : own' = [own EXCEPT ![p] = Append(@, w)]
        BY <2>3
      <3>2. <<w>> \in Seq(Write) /\ Append(own[p], w) = own[p] \o <<w>>
        BY <2>1
      <3>3. own' = [own EXCEPT ![p] = @ \o <<w>>]
        BY <3>1, <3>2
      <3> QED
        BY <2>1, <3>2, <3>3, IssueStep
    <2> QED
      BY <1>2, <2>2, <2>3, DeviceIssues
  <1> QED
    BY <1>1, <1>2 DEF Next

(***************************************************************************)
(* What the views hold.                                                    *)
(***************************************************************************)
\* What p's view may hold after a step: what the device has got by then, or what it
\* held before.
Shows(p) ==
    /\ \E doc \in {Overlay(base'[p], own'[p]), Seen(p, base'[p], own'[p], acked'[p])} :
           seen' = [seen EXCEPT ![p] = doc]
    /\ \A q \in Players \ {p} : base'[q] = base[q] /\ own'[q] = own[q] /\ acked'[q] = acked[q]

\* A write is acknowledged, and stays on top of a version without it.
Keeps(p) ==
    /\ acked[p] < Len(own[p])
    /\ acked' = [acked EXCEPT ![p] = @ + 1]
    /\ UNCHANGED <<seen, base, own>>

\* A device that issues writes is shown them.
LEMMA SendShows ==
    ASSUME own \in [Players -> Seq(Write)], NEW p \in Players, NEW ws, NEW q,
           Send(p, ws, q), UNCHANGED network
    PROVE  Shows(p)
  <1>1. own'[p] = own[p] \o ws /\ \A r \in Players \ {p} : own'[r] = own[r]
    BY DEF Send
  <1>2. base' = base /\ acked' = acked
    BY DEF network
  <1> QED
    BY <1>1, <1>2 DEF Send, See, Shows

\* So is one that is sent an acknowledgement or a version.
LEMMA FirestoreShows ==
    ASSUME own \in [Players -> Seq(Write)], base \in [Players -> Game], NetworkSound,
           NEW p \in Players, Firestore(p) \/ Break(p)
    PROVE  UNCHANGED <<seen, base, own, acked>> \/ Keeps(p) \/ Shows(p)
  <1>0. acked \in [Players -> Nat] /\ Len(at[p]) <= Len(own[p])
        /\ Len(at[p]) \in Nat /\ Len(own[p]) \in Nat
    BY DEF NetworkSound
  <1>1. CASE Commit(p) \/ Break(p)
    BY <1>1 DEF Commit, Break
  <1>2. CASE Ack(p)
    <2> DEFINE newOwn == Without(own[p], acked[p] + 1)
    <2>1. base' = base /\ acked[p] + 1 <= Len(at[p])
      BY <1>2 DEF Ack
    <2>2. CASE at[p][acked[p] + 1] <= Shown(p)
      <3>1. /\ own' = [own EXCEPT ![p] = newOwn] /\ acked' = acked
            /\ See(p, Seen(p, base[p], newOwn, acked[p]), cb[p])
        BY <1>2, <2>2 DEF Ack
      <3> HIDE DEF newOwn
      <3> QED
        BY <2>1, <3>1 DEF See, Shows
    <2>3. CASE ~(at[p][acked[p] + 1] <= Shown(p))
      <3>1. acked' = [acked EXCEPT ![p] = acked[p] + 1] /\ UNCHANGED <<own, seen>>
        BY <1>2, <2>3 DEF Ack
      <3>2. acked[p] < Len(own[p])
        BY <1>0, <2>1
      <3> QED
        BY <1>0, <2>1, <3>1, <3>2 DEF Keeps
    <2> QED
      BY <2>2, <2>3
  <1>3. ASSUME NEW k \in 1..Len(feed[p]), Watch(p, k)
        PROVE  Shows(p)
    <2> DEFINE newOwn == SubSeq(own[p], acked[p] + 1, Len(own[p]))
    <2>1. /\ own' = [own EXCEPT ![p] = newOwn] /\ base' = [base EXCEPT ![p] = feed[p][k]]
          /\ acked' = [acked EXCEPT ![p] = 0]
          /\ See(p, Seen(p, feed[p][k], newOwn, 0), cb[p])
      BY <1>3 DEF Watch
    <2> HIDE DEF newOwn
    <2> QED
      BY <1>0, <2>1 DEF See, Shows
  <1> QED
    BY <1>1, <1>2, <1>3 DEF Firestore

\* Every step of a match shows one device something, or none.
LEMMA StepShows ==
    ASSUME MatchSound, NetworkSound, Next
    PROVE  \/ UNCHANGED <<seen, base, own, acked>>
           \/ \E p \in Players : Keeps(p) \/ Shows(p)
  <1>1. own \in [Players -> Seq(Write)] /\ base \in [Players -> Game]
    BY OwnTyped DEF MatchSound, QueuesSound, SoundDocs
  <1>2. CASE Tick
    BY <1>2 DEF Tick, network
  <1>3. CASE Join
    <2>1. Requester \in Players /\ UNCHANGED <<base, acked>>
      BY <1>3 DEF Join, Players, network
    <2>2. /\ own'[Requester] = own[Requester] \o <<updateGameStatus("inprogress")>>
          /\ \A q \in Players \ {Requester} : own'[q] = own[q]
      BY <1>1, <1>3, <2>1 DEF Join
    <2> QED
      BY <1>3, <2>1, <2>2 DEF Join, Shows
  <1>4. ASSUME NEW p \in Players, Main(p)
        PROVE  UNCHANGED <<seen, base, own, acked>> \/ Shows(p)
    <2>1. CASE UpdateGame(p) \/ (\E finished \in BOOLEAN : RunCheck(p, finished)) \/ RunSetWinner(p)
      <3>1. \E ws, q : Send(p, ws, q)
        BY <2>1 DEF UpdateGame, RunCheck, RunSetWinner
      <3>2. UNCHANGED network
        BY <2>1 DEF UpdateGame, RunCheck, RunSetWinner
      <3> QED
        BY <1>1, <3>1, <3>2, SendShows
    <2>2. CASE IgnoreSnapshot(p) \/ RunResults(p) \/ \E finished \in BOOLEAN : RunKick(p, finished)
      BY <2>2 DEF IgnoreSnapshot, RunResults, RunKick, network
    <2> QED
      BY <1>4, <2>1, <2>2 DEF Main
  <1>5. ASSUME NEW p \in Players, User(p)
        PROVE  UNCHANGED <<seen, base, own, acked>> \/ Shows(p)
    <2>1. CASE Exit(p) \/ \E m \in Choices(p) : Pick(p, m)
      <3>1. \E ws, q : Send(p, ws, q)
        BY <2>1 DEF Exit, Pick
      <3>2. UNCHANGED network
        BY <2>1 DEF Exit, Pick
      <3> QED
        BY <1>1, <3>1, <3>2, SendShows
    <2>2. CASE OpenAlert(p) \/ CancelAlert(p) \/ Home(p) \/ Kill(p)
      BY <2>2 DEF OpenAlert, CancelAlert, Home, Kill, network
    <2> QED
      BY <1>5, <2>1, <2>2 DEF User
  <1>6. ASSUME NEW p \in Players, Firestore(p) \/ Break(p)
        PROVE  UNCHANGED <<seen, base, own, acked>> \/ Keeps(p) \/ Shows(p)
    BY <1>1, <1>6, FirestoreShows
  <1> QED
    BY <1>2, <1>3, <1>4, <1>5, <1>6 DEF Next

\* So every view holds a document, and waits only for writes that are acknowledged.
LEMMA ViewsStep ==
    ASSUME MatchSound, NetworkSound, MatchSound', NetworkSound', ViewsSound, Next
    PROVE  ViewsSound'
  <1> DEFINE picked == PickedBy'
             earned == EarnedBy'
  <1>0. /\ seen \in [Players -> Game]
        /\ acked \in [Players -> Nat] /\ \A p \in Players : Len(own[p]) \in Nat
        /\ \A p \in Players : acked'[p] \in Nat /\ own'[p] \in Seq(SoundWrites(picked, earned))
    <2>1. own \in [Players -> Seq(Write)]
      BY OwnTyped
    <2> QED
      BY <2>1 DEF ViewsSound, NetworkSound, MatchSound, QueuesSound
  <1>1. ASSUME NEW p \in Players
        PROVE  Overlay(base'[p], own'[p]) \in Game
    <2>1. base'[p] \in SoundDocs(picked, earned) /\ own'[p] \in Seq(SoundWrites(picked, earned))
      BY DEF MatchSound, QueuesSound
    <2> HIDE DEF picked, earned
    <2>2. Overlay(base'[p], own'[p]) \in SoundDocs(picked, earned)
      BY <2>1, OverlaySound
    <2> QED
      BY <2>2 DEF SoundDocs
  <1>2. CASE UNCHANGED <<seen, base, own, acked>>
    BY <1>2 DEF ViewsSound
  <1>3. ASSUME NEW p \in Players, Keeps(p)
        PROVE  ViewsSound'
    <2>1. ASSUME NEW q \in Players
          PROVE  seen'[q] = Overlay(base'[q], own'[q]) \/ (own'[q] # << >> /\ Len(own'[q]) = acked'[q])
      <3>1. CASE q = p
        <4>1. Len(own[p]) # acked[p]
          BY <1>0, <1>3 DEF Keeps
        <4> QED
          BY <1>3, <3>1, <4>1 DEF Keeps, ViewsSound
      <3>2. CASE q # p
        <4>1. acked'[q] = acked[q]
          BY <1>0, <1>3, <3>2 DEF Keeps
        <4> QED
          BY <1>3, <4>1 DEF Keeps, ViewsSound
      <3> QED
        BY <3>1, <3>2
    <2> QED
      BY <1>0, <1>3, <2>1 DEF Keeps, ViewsSound
  <1>4. ASSUME NEW p \in Players, Shows(p)
        PROVE  ViewsSound'
    <2>1. PICK doc \in {Overlay(base'[p], own'[p]), Seen(p, base'[p], own'[p], acked'[p])} :
              seen' = [seen EXCEPT ![p] = doc]
      BY <1>4 DEF Shows
    <2>2. doc = Overlay(base'[p], own'[p]) \/ (doc = seen[p] /\ acked'[p] > 0 /\ Len(own'[p]) = acked'[p])
      BY <2>1 DEF Seen, Held
    <2>3. doc \in Game
      BY <1>0, <1>1, <2>2
    <2>4. ASSUME NEW q \in Players
          PROVE  seen'[q] = Overlay(base'[q], own'[q]) \/ (own'[q] # << >> /\ Len(own'[q]) = acked'[q])
      <3>1. CASE q = p
        <4>1. seen'[p] = doc
          BY <1>0, <2>1
        <4>2. acked'[p] > 0 /\ Len(own'[p]) = acked'[p] => own'[p] # << >>
          BY <1>0
        <4> QED
          BY <2>2, <3>1, <4>1, <4>2
      <3>2. CASE q # p
        BY <1>0, <1>4, <2>1, <3>2 DEF Shows, ViewsSound
      <3> QED
        BY <3>1, <3>2
    <2> QED
      BY <1>0, <2>1, <2>3, <2>4 DEF ViewsSound
  <1> QED
    BY <1>2, <1>3, <1>4, StepShows

(***************************************************************************)
(* The verdicts.                                                           *)
(***************************************************************************)
\* A verdict on picked moves stays one when more are picked.
LEMMA VerdictsKept ==
    ASSUME JudgedSound, \A q \in Players : PickedBy[q] \subseteq PickedBy'[q],
           \A q \in Players : judged'[q] \subseteq judged[q]
    PROVE  JudgedSound'
  <1>1. \A q \in Players : PickedBy[q] = Picked(q) /\ PickedBy'[q] = Picked(q)'
    BY DEF PickedBy
  <1>2. \A q \in Players : Picked(q) \subseteq Picked(q)'
    BY <1>1
  <1>3. \A q \in Players : Opponent(q) \in Players
    BY DEF Opponent, Players
  <1> QED
    BY <1>2, <1>3 DEF JudgedSound

\* updateGame judges the moves of a sound document, which were picked.
LEMMA UpdateGameJudges ==
    ASSUME MatchSound, JudgedSound, NEW p \in Players, UpdateGame(p)
    PROVE  JudgedSound'
  <1> DEFINE updated == Head(cb[p])
             v == VerdictOf(p, updated)
  <1>1. Judge(p, v) /\ taps' = taps
    BY DEF UpdateGame
  <1>2. \A q \in Players : Picked(q)' = Picked(q) /\ Opponent(q) \in Players
    BY <1>1 DEF Picked, Opponent, Players
  <1>3. updated \in SoundDocs(PickedBy, EarnedBy)
    <2>1. cb[p] \in Seq(SoundDocs(PickedBy, EarnedBy)) /\ cb[p] # << >>
      BY DEF UpdateGame, MatchSound, QueuesSound
    <2> QED
      BY <2>1
  <1>4. \A q \in Players : updated.moves[q] \in MoveSet /\ updated.moves[q] \in Picked(q) \cup {"idle"}
    BY <1>3 DEF SoundDocs, Game, PickedBy
  <1>5. v # "waiting" => \E m \in Picked(p), o \in Picked(Opponent(p)) : v = Verdict(m, o)
    <2>1. /\ updated.moves[p] \in MoveSet /\ updated.moves[p] \in Picked(p) \cup {"idle"}
          /\ updated.moves[Opponent(p)] \in MoveSet
          /\ updated.moves[Opponent(p)] \in Picked(Opponent(p)) \cup {"idle"}
      BY <1>2, <1>4
    <2>2. v = Verdict(updated.moves[p], updated.moves[Opponent(p)])
      BY DEF VerdictOf
    <2> HIDE DEF updated, v
    <2>3. v # "waiting" => updated.moves[p] # "idle" /\ updated.moves[Opponent(p)] # "idle"
      BY <2>1, <2>2, VerdictsOppose
    <2> QED
      BY <2>1, <2>2, <2>3
  <1> HIDE DEF updated, v
  <1>6. judged \in [Players -> SUBSET {"win", "lose", "tie"}]
    BY DEF MatchSound, HistoryTyped
  <1>7. ASSUME NEW q \in Players, NEW j \in judged'[q]
        PROVE  j \in judged[q] \/ (q = p /\ j = v /\ v # "waiting")
    BY <1>1, <1>6, <1>7 DEF Judge
  <1> QED
    BY <1>2, <1>5, <1>7 DEF JudgedSound

\* The second check acts on a verdict on which the first one has acted.
LEMMA RunCheckJudges ==
    ASSUME MatchSound, JudgedSound, NEW p \in Players, NEW finished \in BOOLEAN, RunCheck(p, finished)
    PROVE  JudgedSound'
  <1> DEFINE v == IF finished THEN Head(agenda[p][0]).verdict ELSE "waiting"
  <1>1. Judge(p, v) /\ taps' = taps
    BY DEF RunCheck
  <1>2. v = "waiting" \/ v \in judged[p]
    BY DueStep DEF RunCheck, SoundTasks
  <1> HIDE DEF v
  <1>3. judged \in [Players -> SUBSET {"win", "lose", "tie"}]
    BY DEF MatchSound, HistoryTyped
  <1>4. judged' = judged
    BY <1>1, <1>2, <1>3 DEF Judge
  <1>5. PickedBy' = PickedBy
    BY <1>1 DEF PickedBy, Picked
  <1> QED
    BY <1>4, <1>5, VerdictsKept

\* No other step judges.
LEMMA JudgedStep ==
    ASSUME MatchSound, JudgedSound, Next
    PROVE  JudgedSound'
  <1>1. ASSUME UNCHANGED <<taps, judged>>
        PROVE  JudgedSound'
    BY <1>1, HistorySame, VerdictsKept
  <1>2. Tick \/ Join => JudgedSound'
    BY <1>1 DEF Tick, Join, history
  <1>3. ASSUME NEW p \in Players, Main(p)
        PROVE  JudgedSound'
    <2>1. CASE UpdateGame(p)
      BY <2>1, UpdateGameJudges
    <2>2. ASSUME NEW finished \in BOOLEAN, RunCheck(p, finished)
          PROVE  JudgedSound'
      BY <2>2, RunCheckJudges
    <2>3. ASSUME NEW finished \in BOOLEAN, RunKick(p, finished)
          PROVE  JudgedSound'
      BY <1>1, <2>3 DEF RunKick
    <2>4. CASE IgnoreSnapshot(p) \/ RunSetWinner(p) \/ RunResults(p)
      BY <1>1, <2>4 DEF IgnoreSnapshot, RunSetWinner, RunResults, history
    <2> QED
      BY <1>3, <2>1, <2>2, <2>3, <2>4 DEF Main
  <1>4. ASSUME NEW p \in Players, User(p)
        PROVE  JudgedSound'
    <2>1. ASSUME NEW m \in Choices(p), Pick(p, m)
          PROVE  JudgedSound'
      <3>1. /\ m \in PickSet /\ taps' = [taps EXCEPT ![p] = Append(@, m)]
            /\ UNCHANGED <<versions, judged>> /\ HistoryTyped
        BY <2>1 DEF Pick, Choices, MatchSound
      <3>2. \A q \in Players : PickedBy[q] \subseteq PickedBy'[q]
        BY <3>1, TapGrows
      <3> QED
        BY <3>1, <3>2, VerdictsKept
    <2>2. CASE OpenAlert(p) \/ CancelAlert(p) \/ Exit(p) \/ Home(p) \/ Kill(p)
      BY <1>1, <2>2 DEF OpenAlert, CancelAlert, Exit, Home, Kill, history
    <2> QED
      BY <1>4, <2>1, <2>2 DEF User
  <1>5. ASSUME NEW p \in Players, Firestore(p) \/ Break(p)
        PROVE  JudgedSound'
    BY <1>1, <1>5 DEF Firestore, Commit, Ack, Watch, Break, history
  <1> QED
    BY <1>2, <1>3, <1>4, <1>5 DEF Next

(***************************************************************************)
(* The invariant.                                                          *)
(***************************************************************************)
\* A match begins sound.
LEMMA InitInv ==
    ASSUME Init
    PROVE  IndInv
  <1>1. Created \in SoundDocs(PickedBy, EarnedBy)
    BY CreatedSound
  <1>2. QueuesSound(PickedBy, EarnedBy)
    BY <1>1 DEF Init, QueuesSound
  <1>3. DevicesTyped
    BY <1>1 DEF Init, DevicesTyped, Screen, SoundDocs
  <1>4. HistoryTyped
    BY DEF Init, HistoryTyped
  <1>5. GamesSound
    BY <1>1 DEF Init, GamesSound, SoundGame, SoundDocs
  <1>6. AgendasSound
    BY EmptyAgendaSound, AgendaGrows DEF Init, AgendasSound
  <1>7. ShownSound
    BY DEF Init, ShownSound
  <1>8. NetworkSound
    <2>1. 0 \in Nat /\ << >> \in Seq(Nat) /\ 0 \in 0..MaxBreaks
      OBVIOUS
    <2>2. /\ at = [p \in Players |-> << >>] /\ acked = [p \in Players |-> 0] /\ breaks = 0
          /\ cut = FALSE /\ own = [p \in Players |-> << >>]
      BY DEF Init
    <2>3. \A p \in Players : acked[p] <= Len(at[p]) /\ Len(at[p]) <= Len(own[p])
      BY <2>2
    <2> QED
      BY <2>1, <2>2, <2>3 DEF NetworkSound
  <1>9. ViewsSound
    <2>1. Created \in Game
      BY DEF Created, Game, GameState, MoveSet
    <2>2. Overlay(Created, << >>) = Created
      BY NothingOverlaid, <2>1
    <2> QED
      BY <2>1, <2>2 DEF Init, ViewsSound
  <1>10. JudgedSound
    BY DEF Init, JudgedSound
  <1> QED
    BY <1>2, <1>3, <1>4, <1>5, <1>6, <1>7, <1>8, <1>9, <1>10 DEF MatchSound, IndInv

\* Every step of a match keeps it sound.
LEMMA NextInv ==
    ASSUME IndInv, Next
    PROVE  IndInv'
  <1>0. MatchSound /\ NetworkSound /\ ViewsSound /\ JudgedSound
    BY DEF IndInv
  <1>1. Tick => MatchSound'
    BY <1>0, TickStep
  <1>2. Join => MatchSound'
    BY <1>0, JoinStep
  <1>3. ASSUME NEW p \in Players, Main(p)
        PROVE  MatchSound'
    BY <1>0, <1>3, UpdateGameStep, IgnoreSnapshotStep, RunCheckStep, RunKickStep, RunSetWinnerStep,
       RunResultsStep DEF Main
  <1>4. ASSUME NEW p \in Players, User(p)
        PROVE  MatchSound'
    BY <1>0, <1>4, PickStep, DialogStep, ExitStep, KillStep DEF User
  <1>5. ASSUME NEW p \in Players, Firestore(p)
        PROVE  MatchSound'
    BY <1>0, <1>5, CommitStep, AckStep, WatchStep DEF Firestore
  <1>6. ASSUME NEW p \in Players, Break(p)
        PROVE  MatchSound'
    BY <1>0, <1>6, BreakStep
  <1>7. NetworkSound'
    BY <1>0, NetworkStep
  <1>8. MatchSound'
    BY <1>1, <1>2, <1>3, <1>4, <1>5, <1>6 DEF Next
  <1>9. ViewsSound'
    BY <1>0, <1>7, <1>8, ViewsStep
  <1>10. JudgedSound'
    BY <1>0, JudgedStep
  <1> QED
    BY <1>7, <1>8, <1>9, <1>10 DEF IndInv

\* And so does a step of something else.
LEMMA StutterInv ==
    ASSUME IndInv, UNCHANGED vars
    PROVE  IndInv'
  <1>1. UNCHANGED <<network, own, seen, cb, device, versions, history>>
    BY DEF vars
  <1>2. PickedBy' = PickedBy /\ EarnedBy' = EarnedBy
    BY <1>1, HistorySame DEF history
  <1>3. JudgedSound'
    BY <1>1, <1>2, VerdictsKept DEF IndInv, history
  <1> QED
    BY <1>1, <1>2, <1>3 DEF IndInv, MatchSound, NetworkSound, ViewsSound, QueuesSound, DevicesTyped, HistoryTyped,
       GamesSound, AgendasSound, ShownSound, network, device, history

\* IndInv holds in every match, for all players, moves, bounds and settings.
THEOREM Invariance == Spec => []IndInv
  <1>1. IndInv /\ [Next]_vars => IndInv'
    BY NextInv, StutterInv
  <1> QED
    BY <1>1, InitInv, PTL DEF Spec

(***************************************************************************)
(* What follows from it.                                                   *)
(***************************************************************************)
\* Every variable has its type: in particular no device ever holds a document or
\* a task that Game.init and asyncAfter cannot make.
THEOREM TypeCorrect == Spec => []TypeOK
  <1>1. ASSUME IndInv
        PROVE  TypeOK
    <2> DEFINE SD == SoundDocs(PickedBy, EarnedBy)
               SW == SoundWrites(PickedBy, EarnedBy)
    <2>1. SD \subseteq Game /\ SW \subseteq Write
      BY DEF SoundDocs, SoundWrites, Write
    <2>2. Seq(SD) \subseteq Seq(Game) /\ Seq(SW) \subseteq Seq(Write)
      BY <2>1, SoundSeqs
    <2>3. /\ server \in SD /\ base \in [Players -> SD] /\ feed \in [Players -> Seq(SD)]
          /\ own \in [Players -> Seq(SW)] /\ cb \in [Players -> Seq(SD)]
      BY <1>1 DEF IndInv, MatchSound, QueuesSound
    <2> HIDE DEF SD, SW
    <2>4. /\ server \in Game /\ base \in [Players -> Game] /\ feed \in [Players -> Seq(Game)]
          /\ own \in [Players -> Seq(Write)] /\ cb \in [Players -> Seq(Game)]
      BY <2>1, <2>2, <2>3
    <2> QED
      BY <1>1, <2>4 DEF IndInv, MatchSound, DevicesTyped, HistoryTyped, AgendasSound, NetworkSound,
         ViewsSound, TypeOK
  <1> QED
    BY <1>1, Invariance, PTL

\* The devices write whole games over each other, and yet a move in the document
\* or on a device was picked by the player it stands for.
THEOREM MoveAuthenticity == Spec => []MoveAuthentic
  <1>1. ASSUME IndInv
        PROVE  MoveAuthentic
    <2> SUFFICES ASSUME NEW p \in Players
                 PROVE  /\ server.moves[p] \in Picked(p) \cup {"idle"}
                        /\ \A q \in Players : game[q].moves[p] \in Picked(p) \cup {"idle"}
      BY DEF MoveAuthentic
    <2>1. PickedBy[p] = Picked(p)
      BY DEF PickedBy
    <2>2. server.moves[p] \in PickedBy[p] \cup {"idle"}
      BY <1>1 DEF IndInv, MatchSound, QueuesSound, SoundDocs
    <2>3. \A q \in Players : game[q].moves[p] \in PickedBy[p] \cup {"idle"}
      BY <1>1 DEF IndInv, MatchSound, GamesSound, SoundGame
    <2> QED
      BY <2>1, <2>2, <2>3
  <1> QED
    BY <1>1, Invariance, PTL

\* The winner a device writes (setWinner, and every later whole-game write that
\* carries it along) has judged the two moves and not lost.
THEOREM WinnersEarn == Spec => []WinnerEarned
  <1>1. ASSUME IndInv
        PROVE  WinnerEarned
    BY <1>1 DEF IndInv, MatchSound, QueuesSound, SoundDocs, EarnedBy, WinnerEarned
  <1> QED
    BY <1>1, Invariance, PTL

\* A device announces its player's defeat only if the opponent's device has judged
\* the moves: the forfeit rule of updateGame never makes one lose.
THEOREM DefeatsEarned == Spec => []DefeatEarned
  <1>1. ASSUME IndInv
        PROVE  DefeatEarned
    <2> SUFFICES ASSUME NEW p \in Players, shown[Opponent(p)] = p
                 PROVE  Earned(p)
      BY DEF DefeatEarned
    <2>1. Opponent(p) \in Players /\ Opponent(p) # p
      BY DEF Opponent, Players
    <2>2. p \in EarnedBy
      BY <1>1, <2>1 DEF IndInv, MatchSound, ShownSound
    <2> QED
      BY <2>2 DEF EarnedBy
  <1> QED
    BY <1>1, Invariance, PTL

\* With one move of each player the two devices never disagree on who won, and neither
\* reaches two verdicts: whatever whole-game writes cross, whoever leaves, is terminated or
\* loses the connection, checkForWinner compares the two picked moves or none.
THEOREM VerdictsConsistent == Spec => [](OneMoveEach => ConsistentVerdicts)
  <1>1. ASSUME IndInv, OneMoveEach
        PROVE  ConsistentVerdicts
    <2>1. /\ taps \in [Players -> Seq(PickSet)]
          /\ judged \in [Players -> SUBSET {"win", "lose", "tie"}]
      BY <1>1 DEF IndInv, MatchSound, HistoryTyped
    <2>2. \A p \in Players : Picked(p) \subseteq MoveSet
      BY <2>1 DEF Picked, MoveSet
    <2>3. \A p \in Players : Opponent(p) \in Players /\ Opponent(Opponent(p)) = p
      BY DEF Opponent, Players
    <2>4. ASSUME NEW p \in Players, NEW v \in judged[p]
          PROVE  \E m \in Picked(p), o \in Picked(Opponent(p)) : v = Verdict(m, o)
      BY <1>1 DEF IndInv, JudgedSound
    <2>5. ASSUME NEW p \in Players, NEW v \in judged[p], NEW w \in judged[p]
          PROVE  v = w
      BY <1>1, <2>3, <2>4 DEF OneMoveEach
    <2>6. \A p \in Players : Cardinality(judged[p]) <= 1
      <3> SUFFICES ASSUME NEW p \in Players
                   PROVE  Cardinality(judged[p]) <= 1
        OBVIOUS
      <3>1. CASE judged[p] = {}
        BY <3>1, FS_EmptySet
      <3>2. CASE judged[p] # {}
        <4>1. PICK v \in judged[p] : TRUE
          BY <3>2
        <4>2. judged[p] = {v}
          BY <2>5, <4>1
        <4>3. Cardinality({v}) = 1
          BY FS_Singleton
        <4> QED
          BY <4>2, <4>3
      <3> QED
        BY <3>1, <3>2
    <2>7. ASSUME NEW p \in Players, judged[p] # {}, judged[Opponent(p)] # {}
          PROVE  \/ judged[p] = {"tie"} /\ judged[Opponent(p)] = {"tie"}
                 \/ judged[p] = {"win"} /\ judged[Opponent(p)] = {"lose"}
                 \/ judged[p] = {"lose"} /\ judged[Opponent(p)] = {"win"}
      <3> DEFINE q == Opponent(p)
      <3>1. PICK v \in judged[p], w \in judged[q] : TRUE
        BY <2>7
      <3>2. judged[p] = {v} /\ judged[q] = {w} /\ {v, w} \subseteq {"win", "lose", "tie"}
        <4>1. q \in Players
          BY <2>3
        <4> HIDE DEF q
        <4>2. judged[p] = {v}
          BY <2>5
        <4>3. judged[q] = {w}
          BY <2>5, <4>1
        <4>4. v \in {"win", "lose", "tie"} /\ w \in {"win", "lose", "tie"}
          BY <2>1, <4>1
        <4> QED
          BY <4>2, <4>3, <4>4
      <3>3. PICK m \in Picked(p), o \in Picked(q) : v = Verdict(m, o)
        BY <2>4, <3>1
      <3>4. PICK o2 \in Picked(q), m2 \in Picked(p) : w = Verdict(o2, m2)
        BY <2>3, <2>4, <3>1
      <3>5. m2 = m /\ o2 = o /\ m \in MoveSet /\ o \in MoveSet
        BY <1>1, <2>2, <2>3, <3>3, <3>4 DEF OneMoveEach
      <3>6. v = "win" <=> w = "lose"
        BY <3>3, <3>4, <3>5, VerdictsOppose
      <3>7. w = "win" <=> v = "lose"
        BY <3>3, <3>4, <3>5, VerdictsOppose
      <3> QED
        BY <3>2, <3>6, <3>7
    <2> QED
      BY <2>6, <2>7 DEF ConsistentVerdicts
  <1> QED
    BY <1>1, Invariance, PTL

\* Once all a device wrote has come back to it, its listener knows what the backend sent
\* last: ShouldWaitForSyncedDocument withholds nothing for good.
THEOREM ListenersCatchUp == Spec => []ListenerCaughtUp
  <1>1. ASSUME IndInv
        PROVE  ListenerCaughtUp
    <2> SUFFICES ASSUME NEW p \in Players, own[p] = << >>
                 PROVE  seen[p] = base[p]
      BY DEF ListenerCaughtUp
    <2>1. base[p] \in Game
      BY <1>1 DEF IndInv, MatchSound, QueuesSound, SoundDocs
    <2>2. seen[p] = Overlay(base[p], << >>)
      BY <1>1 DEF IndInv, ViewsSound
    <2> QED
      BY <2>1, <2>2, NothingOverlaid
  <1> QED
    BY <1>1, Invariance, PTL

\* No write that was issued, queued or delayed sends a match back to "starting".
THEOREM NeverStartsAgain == Spec => NeverRestarted
  <1>1. ASSUME IndInv, [Next]_vars
        PROVE  server.state # "starting" => server'.state # "starting"
    <2>1. ASSUME NEW p \in Players, Commit(p)
          PROVE  server.state # "starting" => server'.state # "starting"
      BY <1>1, <2>1, CommitStep DEF IndInv
    <2>2. ASSUME NEW p \in Players, Main(p)
          PROVE  server' = server
      BY <2>2 DEF Main, UpdateGame, IgnoreSnapshot, RunCheck, RunKick, RunSetWinner, RunResults, network
    <2>3. ASSUME NEW p \in Players, User(p)
          PROVE  server' = server
      BY <2>3 DEF User, Pick, OpenAlert, CancelAlert, Exit, Home, Kill, network
    <2>4. ASSUME NEW p \in Players, NEW k, Watch(p, k)
          PROVE  server' = server
      BY <2>4 DEF Watch
    <2>6. ASSUME NEW p \in Players, Ack(p) \/ Break(p)
          PROVE  server' = server
      BY <2>6 DEF Ack, Break
    <2>5. Tick \/ Join \/ UNCHANGED vars => server' = server
      BY DEF Tick, Join, vars, network
    <2> QED
      BY <1>1, <2>1, <2>2, <2>3, <2>4, <2>5, <2>6 DEF Next, Firestore
  <1>2. IndInv /\ [Next]_vars => [server.state # "starting" => server'.state # "starting"]_vars
    BY <1>1
  <1> QED
    BY <1>2, Invariance, PTL DEF Spec, NeverRestarted
-----------------------------------------------------------------------------
(***************************************************************************)
(* The network of a match implements DocumentSync for each of its two      *)
(* devices, for every choice of the constants: what FirestoreClient shows  *)
(* of the vendored library is what GameMatch assumes of it.                *)
(***************************************************************************)
\* What the refinement needs of the invariant: the queues hold what they are made for.
LEMMA QueuesTyped ==
    ASSUME IndInv
    PROVE  /\ server \in Game
           /\ base \in [Players -> Game] /\ feed \in [Players -> Seq(Game)]
           /\ own \in [Players -> Seq(Write)]
           /\ at \in [Players -> Seq(Nat)] /\ acked \in [Players -> Nat]
  <1>1. SoundDocs(PickedBy, EarnedBy) \subseteq Game
    BY DEF SoundDocs
  <1>2. Seq(SoundDocs(PickedBy, EarnedBy)) \subseteq Seq(Game)
    BY <1>1, SoundSeqs
  <1> QED
    BY <1>1, <1>2, OwnTyped DEF IndInv, MatchSound, QueuesSound, NetworkSound

\* A match begins with nothing under way.
LEMMA ContractInit ==
    ASSUME Init, NEW p \in Players
    PROVE  Contract(p)!Init
  <1>1. Created \in Game
    BY DEF Created, Game, GameState, MoveSet
  <1> QED
    BY <1>1 DEF Init, Contract!Init

(***************************************************************************)
(* The steps of p's device and of its connection, seen by p.               *)
(***************************************************************************)
\* The backend commits p's next write.
LEMMA CommitIsCommit ==
    ASSUME IndInv, NEW p \in Players, Commit(p)
    PROVE  Contract(p)!Commit
  <1>1. at' = [at EXCEPT ![p] = Append(@, Len(feed'[p]))]
        /\ UNCHANGED <<base, own, acked>>
    BY DEF Commit
  <1>2. at'[p] = Append(at[p], Len(feed'[p]))
    BY <1>1, QueuesTyped
  <1>3. /\ server' = Merge(server, own[p][Len(at[p]) + 1])
        /\ feed'[p] = IF server' = server THEN feed[p] ELSE Append(feed[p], server')
        /\ Len(at[p]) + 1 <= Len(own[p])
    BY QueuesTyped DEF Commit
  <1> QED
    BY <1>1, <1>2, <1>3 DEF Contract!Commit, Contract!Committed

\* p's first unacknowledged write is acknowledged.
LEMMA AckIsAck ==
    ASSUME IndInv, NEW p \in Players, Ack(p)
    PROVE  Contract(p)!Ack
  <1>1. Contract(p)!Shown = Shown(p)
    BY DEF Contract!Shown, Shown
  <1>2. \A s, i : Contract(p)!Without(s, i) = Without(s, i)
    BY DEF Contract!Without, Without
  <1>3. UNCHANGED <<server, base, feed>>
    BY DEF Ack
  <1>4. acked[p] + 1 <= Len(at[p])
    BY DEF Ack
  <1>5. CASE at[p][acked[p] + 1] <= Shown(p)
    <2>1. /\ own'[p] = Without(own[p], acked[p] + 1)
          /\ at'[p] = Without(at[p], acked[p] + 1)
          /\ acked'[p] = acked[p]
      BY <1>5, QueuesTyped DEF Ack
    <2> QED
      BY <1>1, <1>2, <1>3, <1>4, <1>5, <2>1 DEF Contract!Ack
  <1>6. CASE ~(at[p][acked[p] + 1] <= Shown(p))
    <2>1. acked'[p] = acked[p] + 1 /\ own'[p] = own[p] /\ at'[p] = at[p]
      BY <1>6, QueuesTyped DEF Ack
    <2> QED
      BY <1>1, <1>2, <1>3, <1>4, <1>6, <2>1 DEF Contract!Ack
  <1> QED
    BY <1>5, <1>6

\* p's device is sent a version.
LEMMA WatchIsWatch ==
    ASSUME IndInv, NEW p \in Players, NEW k \in 1..Len(feed[p]), Watch(p, k)
    PROVE  Contract(p)!Watch(k)
  <1> DEFINE left == SubSeq(at[p], acked[p] + 1, Len(at[p]))
  <1>1. Contract(p)!Shown = Shown(p)
    BY DEF Contract!Shown, Shown
  <1>2. /\ Shown(p) <= k
        /\ UNCHANGED server
    BY DEF Watch
  <1>3. /\ base'[p] = feed[p][k]
        /\ feed'[p] = SubSeq(feed[p], k + 1, Len(feed[p]))
        /\ own'[p] = SubSeq(own[p], acked[p] + 1, Len(own[p]))
        /\ at'[p] = [i \in DOMAIN left |-> IF left[i] <= k THEN 0 ELSE left[i] - k]
        /\ acked'[p] = 0
    BY QueuesTyped DEF Watch
  <1> QED
    BY <1>1, <1>2, <1>3 DEF Contract!Watch

\* p's connection is lost, or its app terminated: what was not acknowledged is sent again.
LEMMA LossIsBreak ==
    ASSUME IndInv, NEW p \in Players, Break(p) \/ Kill(p)
    PROVE  Contract(p)!Break
  <1>1. at'[p] = SubSeq(at[p], 1, acked[p]) /\ UNCHANGED <<server, base, feed, own, acked>>
    BY QueuesTyped DEF Break, Kill, OnlyAcknowledged
  <1> QED
    BY <1>1 DEF Contract!Break

(***************************************************************************)
(* The steps of the other device, seen by p.                               *)
(***************************************************************************)
\* The other device's commits are foreign ones.
LEMMA CommitIsForeign ==
    ASSUME IndInv, NEW p \in Players, NEW q \in Players \ {p}, Commit(q)
    PROVE  Contract(p)!ForeignCommit
  <1>1. server' \in Game
    BY CommitStep DEF IndInv, MatchSound, QueuesSound, SoundDocs
  <1>2. feed'[p] = IF server' = server THEN feed[p] ELSE Append(feed[p], server')
    BY QueuesTyped DEF Commit
  <1>3. at'[p] = at[p] /\ UNCHANGED <<base, own, acked>>
    BY QueuesTyped DEF Commit
  <1> QED
    BY <1>1, <1>2, <1>3 DEF Contract!ForeignCommit, Contract!Committed

\* Everything else it does is out of p's sight.
LEMMA OthersUnseen ==
    ASSUME IndInv, NEW p \in Players, NEW q \in Players \ {p},
           Ack(q) \/ (\E k \in 1..Len(feed[q]) : Watch(q, k)) \/ Break(q) \/ Kill(q)
    PROVE  UNCHANGED Contract(p)!vars
  <1>1. server' = server /\ base'[p] = base[p] /\ feed'[p] = feed[p] /\ own'[p] = own[p]
        /\ at'[p] = at[p] /\ acked'[p] = acked[p]
    BY SMTT(60), QueuesTyped DEF Ack, Watch, Break, Kill
  <1> QED
    BY <1>1 DEF Contract!vars

(***************************************************************************)
(* All steps.                                                              *)
(***************************************************************************)
\* A step in which the devices run: one write of p, or nothing p's network sees.
LEMMA DeviceContract ==
    ASSUME IndInv, NEW p \in Players,
           Tick \/ Join \/ \E q \in Players : Main(q) \/ (User(q) /\ ~Kill(q))
    PROVE  [Contract(p)!Next]_(Contract(p)!vars)
  <1>1. UNCHANGED <<server, base, feed, at, acked>>
    BY DeviceIssues DEF IndInv, network
  <1>2. own \in [Players -> Seq(Write)]
    BY QueuesTyped
  <1>3. CASE own'[p] = own[p]
    BY <1>1, <1>3 DEF Contract!vars
  <1>4. ASSUME own'[p] # own[p]
        PROVE  Contract(p)!Issue
    <2>1. PICK q \in Players, w \in Write : own' = [own EXCEPT ![q] = Append(@, w)]
      BY <1>4, DeviceIssues DEF IndInv
    <2>2. own'[p] = Append(own[p], w)
      BY <1>2, <1>4, <2>1
    <2>3. own[p] \in Seq(Write)
      BY <1>2
    <2>4. Len(own'[p]) = Len(own[p]) + 1 /\ own'[p][Len(own[p]) + 1] = w
      BY <2>2, <2>3
    <2> QED
      BY <1>1, <2>2, <2>4 DEF Contract!Issue
  <1> QED
    BY <1>3, <1>4 DEF Contract!Next

\* Every step of a match is a step of p's contract or leaves it alone.
LEMMA ContractStep ==
    ASSUME IndInv, Next, NEW p \in Players
    PROVE  [Contract(p)!Next]_(Contract(p)!vars)
  <1>1. CASE Tick \/ Join \/ \E q \in Players : Main(q) \/ (User(q) /\ ~Kill(q))
    BY <1>1, DeviceContract
  <1>2. ASSUME NEW q \in Players, Firestore(q) \/ Break(q) \/ Kill(q)
        PROVE  [Contract(p)!Next]_(Contract(p)!vars)
    <2>1. CASE q = p
      <3>1. CASE Commit(p)
        BY <3>1, CommitIsCommit DEF Contract!Next
      <3>2. CASE Ack(p)
        BY <3>2, AckIsAck DEF Contract!Next
      <3>3. ASSUME NEW k \in 1..Len(feed[p]), Watch(p, k)
            PROVE  Contract(p)!Next
        BY <3>3, WatchIsWatch DEF Contract!Next
      <3>4. CASE Break(p) \/ Kill(p)
        BY <3>4, LossIsBreak DEF Contract!Next
      <3> QED
        BY <1>2, <2>1, <3>1, <3>2, <3>3, <3>4 DEF Firestore
    <2>2. CASE q # p
      <3>1. CASE Commit(q)
        BY <2>2, <3>1, CommitIsForeign DEF Contract!Next
      <3>2. CASE Ack(q) \/ (\E k \in 1..Len(feed[q]) : Watch(q, k)) \/ Break(q) \/ Kill(q)
        BY <2>2, <3>2, OthersUnseen
      <3> QED
        BY <1>2, <3>1, <3>2 DEF Firestore
    <2> QED
      BY <2>1, <2>2
  <1> QED
    BY <1>1, <1>2 DEF Next

\* GameMatch implements DocumentSync for both players: Firestore as the match uses it
\* is Firestore as FirestoreClient provides it.
THEOREM MatchKeepsContract == Spec => ContractSpec
  <1>1. Init => \A p \in Players : Contract(p)!Init
    BY ContractInit
  <1>2. IndInv /\ [Next]_vars => [\A p \in Players : [Contract(p)!Next]_(Contract(p)!vars)]_vars
    BY ContractStep
  <1> QED
    BY <1>1, <1>2, Invariance, PTL DEF Spec, ContractSpec
=============================================================================
