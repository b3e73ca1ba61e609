------------------------ MODULE FirestoreWatchProofs ------------------------
(***************************************************************************)
(* The invariants of FirestoreWatch, for every set of targets and keys and *)
(* every bound: the client counts the answers it is due, the code's        *)
(* assertions hold, and a view in sync is exact.                           *)
(***************************************************************************)
EXTENDS FirestoreWatch, FiniteSetTheorems, FunctionTheorems, SequenceTheorems, TLAPS

-----------------------------------------------------------------------------
(***************************************************************************)
(* Counting the elements of a sequence that are in a set.                  *)
(***************************************************************************)
Hits(s, S) == {i \in DOMAIN s : s[i] \in S}
Tally(s, S) == Cardinality(Hits(s, S))

LEMMA HitsFinite ==
    ASSUME NEW T, NEW s \in Seq(T), NEW S
    PROVE  IsFiniteSet(Hits(s, S)) /\ Tally(s, S) \in Nat
  <1>1. IsFiniteSet(1..Len(s))
    BY FS_Interval
  <1>2. Hits(s, S) \in SUBSET (1..Len(s))
    BY DEF Hits
  <1>3. IsFiniteSet(Hits(s, S))
    BY <1>1, <1>2, FS_Subset
  <1> QED
    BY <1>3, FS_CardinalityType DEF Tally

\* The second of two sequences is hit where it was, moved.
LEMMA TallyJoined ==
    ASSUME NEW T, NEW s \in Seq(T), NEW u \in Seq(T), NEW S
    PROVE  Tally(s \o u, S) = Tally(s, S) + Tally(u, S)
  <1> DEFINE moved == {Len(s) + j : j \in Hits(u, S)}
             f == [j \in Hits(u, S) |-> Len(s) + j]
  <1>1. Len(s) \in Nat /\ Len(u) \in Nat /\ s \o u \in Seq(T) /\ Len(s \o u) = Len(s) + Len(u)
    OBVIOUS
  <1>2. Hits(s \o u, S) = Hits(s, S) \cup moved
    <2>1. ASSUME NEW i \in Hits(s \o u, S) PROVE i \in Hits(s, S) \cup moved
      <3>1. i \in 1..(Len(s) + Len(u)) /\ (s \o u)[i] \in S
        BY <1>1, <2>1 DEF Hits
      <3>2. CASE i <= Len(s)
        <4>1. i \in 1..Len(s) /\ (s \o u)[i] = s[i]
          BY <1>1, <3>1, <3>2
        <4> QED
          BY <3>1, <4>1 DEF Hits
      <3>3. CASE i > Len(s)
        <4>1. i - Len(s) \in 1..Len(u) /\ (s \o u)[i] = u[i - Len(s)]
          BY <1>1, <3>1, <3>3
        <4>2. i - Len(s) \in Hits(u, S)
          BY <3>1, <4>1 DEF Hits
        <4>3. i = Len(s) + (i - Len(s))
          BY <1>1, <3>1
        <4> QED
          BY <4>2, <4>3
      <3> QED
        BY <1>1, <3>1, <3>2, <3>3
    <2>2. ASSUME NEW i \in Hits(s, S) PROVE i \in Hits(s \o u, S)
      <3>1. i \in 1..Len(s) /\ s[i] \in S
        BY <2>2 DEF Hits
      <3>2. i \in 1..(Len(s) + Len(u)) /\ (s \o u)[i] = s[i]
        BY <1>1, <3>1
      <3> QED
        BY <1>1, <3>1, <3>2 DEF Hits
    <2>3. ASSUME NEW j \in Hits(u, S) PROVE Len(s) + j \in Hits(s \o u, S)
      <3>1. j \in 1..Len(u) /\ u[j] \in S
        BY <2>3 DEF Hits
      <3>2. Len(s) + j \in 1..(Len(s) + Len(u)) /\ (s \o u)[Len(s) + j] = u[j]
        BY <1>1, <3>1
      <3> QED
        BY <1>1, <3>1, <3>2 DEF Hits
    <2> QED
      BY <2>1, <2>2, <2>3
  <1>3. ExistsBijection(Hits(u, S), moved)
    <2>1. f \in [Hits(u, S) -> moved]
      OBVIOUS
    <2>2. \A a, b \in Hits(u, S) : f[a] = f[b] => a = b
      <3>1. Hits(u, S) \subseteq Int
        BY DEF Hits
      <3> QED
        BY <1>1, <3>1
    <2>3. \A m \in moved : \E j \in Hits(u, S) : f[j] = m
      OBVIOUS
    <2> QED
      BY <2>1, <2>2, <2>3, Fun_IsBij DEF ExistsBijection
  <1>4. IsFiniteSet(moved) /\ Cardinality(moved) = Tally(u, S)
    BY <1>3, HitsFinite, FS_Bijection DEF Tally
  <1>5. Hits(s, S) \cap moved = {}
    BY <1>1 DEF Hits
  <1>6. Cardinality(Hits(s, S) \cup moved) = Cardinality(Hits(s, S)) + Cardinality(moved) - Cardinality({})
    BY <1>4, <1>5, HitsFinite, FS_Union
  <1>7. Cardinality({}) = 0
    BY FS_EmptySet
  <1>8. Tally(s, S) \in Nat /\ Tally(u, S) \in Nat
    BY HitsFinite
  <1> HIDE DEF moved
  <1> QED
    BY <1>2, <1>4, <1>6, <1>7, <1>8 DEF Tally

LEMMA TallyNone ==
    ASSUME NEW s, NEW S, \A i \in DOMAIN s : s[i] \notin S
    PROVE  Tally(s, S) = 0
  BY FS_EmptySet DEF Tally, Hits

LEMMA TallyOne ==
    ASSUME NEW e, NEW S
    PROVE  Tally(<<e>>, S) = IF e \in S THEN 1 ELSE 0
  <1>1. CASE e \in S
    <2>1. Hits(<<e>>, S) = {1}
      BY <1>1 DEF Hits
    <2> QED
      BY <1>1, <2>1, FS_Singleton DEF Tally
  <1>2. CASE e \notin S
    BY <1>2, TallyNone
  <1> QED
    BY <1>1, <1>2

LEMMA TallyAppended ==
    ASSUME NEW T, NEW s \in Seq(T), NEW e \in T, NEW S
    PROVE  Tally(Append(s, e), S) = Tally(s, S) + (IF e \in S THEN 1 ELSE 0)
  <1>1. Append(s, e) = s \o <<e>> /\ <<e>> \in Seq(T)
    OBVIOUS
  <1>2. Tally(s \o <<e>>, S) = Tally(s, S) + Tally(<<e>>, S)
    BY <1>1, TallyJoined
  <1> QED
    BY <1>1, <1>2, TallyOne

LEMMA TallyOfTail ==
    ASSUME NEW T, NEW s \in Seq(T), s # << >>, NEW S
    PROVE  /\ Head(s) \in T /\ Tail(s) \in Seq(T)
           /\ Tally(s, S) = Tally(Tail(s), S) + (IF Head(s) \in S THEN 1 ELSE 0)
  <1>1. Head(s) \in T /\ Tail(s) \in Seq(T)
    OBVIOUS
  <1>2. s = <<Head(s)>> \o Tail(s) /\ <<Head(s)>> \in Seq(T)
    BY <1>1
  <1>3. Tally(Tail(s), S) \in Nat
    BY <1>1, HitsFinite
  <1>4. Tally(<<Head(s)>> \o Tail(s), S) = Tally(<<Head(s)>>, S) + Tally(Tail(s), S)
    BY <1>1, <1>2, TallyJoined
  <1>5. Tally(<<Head(s)>>, S) = IF Head(s) \in S THEN 1 ELSE 0
    BY TallyOne
  <1>6. Tally(s, S) = Tally(<<Head(s)>>, S) + Tally(Tail(s), S)
    BY <1>2, <1>4
  <1> QED
    BY <1>1, <1>3, <1>5, <1>6

LEMMA SetToSeqSound ==
    ASSUME NEW S, IsFiniteSet(S)
    PROVE  /\ SetToSeq(S) \in Seq(S)
           /\ \A x \in S : \E i \in DOMAIN SetToSeq(S) : SetToSeq(S)[i] = x
           /\ \A i, j \in DOMAIN SetToSeq(S) : SetToSeq(S)[i] = SetToSeq(S)[j] => i = j
  <1> DEFINE n == Cardinality(S)
  <1>1. n \in Nat /\ ExistsBijection(1..n, S)
    BY FS_CardinalityType
  <1>2. PICK f : f \in Bijection(1..n, S)
    BY <1>1 DEF ExistsBijection
  <1>3. f \in [1..n -> S] /\ IsInjective(f)
    <2> DEFINE D == 1..n
    <2>1. f \in Bijection(D, S)
      BY <1>2
    <2> HIDE DEF D
    <2>2. f \in [D -> S] /\ \A a, b \in D : f[a] = f[b] => a = b
      BY <2>1, Fun_BijectionProperties
    <2>3. IsInjective(f)
      BY <2>2 DEF IsInjective
    <2> QED
      BY <2>2, <2>3 DEF D
  <1>4. SetToSeq(S) \in [1..n -> S] /\ IsInjective(SetToSeq(S))
    BY <1>3 DEF SetToSeq
  <1> DEFINE g == SetToSeq(S)
  <1>5. g \in Injection(1..n, S)
    BY <1>4 DEF Injection
  <1>6. IsFiniteSet(1..n) /\ Cardinality(1..n) = n
    BY <1>1, FS_Interval
  <1>7. g \in Surjection(1..n, S)
    BY <1>5, <1>6, FS_Injection
  <1>8. DOMAIN g = 1..n /\ g \in Seq(S)
    BY <1>1, <1>4
  <1>9. \A x \in S : \E i \in 1..n : g[i] = x
    BY <1>7 DEF Surjection
  <1>10. \A i, j \in 1..n : g[i] = g[j] => i = j
    BY <1>4, <1>8 DEF IsInjective
  <1> QED
    BY <1>8, <1>9, <1>10

-----------------------------------------------------------------------------
(***************************************************************************)
(* The answers a target is due.                                            *)
(***************************************************************************)
RequestsFor(t) == [op : {"watch", "unwatch"}, target : {t}, token : Nat]
AnswersFor(t) == [type : {"Added", "Removed"}, target : {t}]

Due(w, b, t) == Tally(w, RequestsFor(t)) + Tally(b, AnswersFor(t))

LEMMA DueTallied ==
    ASSUME NEW w \in Seq(Request), NEW b \in Seq(Message), NEW t \in Targets
    PROVE  /\ Cardinality({i \in DOMAIN w : w[i].target = t}) +
                 Cardinality({i \in DOMAIN b : b[i].type \in {"Added", "Removed"} /\
                                                   b[i].target = t}) = Due(w, b, t)
           /\ Due(w, b, t) \in Nat
  <1>1. \A i \in DOMAIN w : w[i].target = t <=> w[i] \in RequestsFor(t)
    <2> SUFFICES ASSUME NEW i \in DOMAIN w
                 PROVE  w[i].target = t <=> w[i] \in RequestsFor(t)
      OBVIOUS
    <2>1. w[i] \in Request
      OBVIOUS
    <2> QED
      BY <2>1 DEF Request, RequestsFor
  <1>2. \A i \in DOMAIN b : b[i].type \in {"Added", "Removed"} /\ b[i].target = t
                                    <=> b[i] \in AnswersFor(t)
    <2> SUFFICES ASSUME NEW i \in DOMAIN b
                 PROVE  b[i].type \in {"Added", "Removed"} /\ b[i].target = t
                            <=> b[i] \in AnswersFor(t)
      OBVIOUS
    <2>1. b[i] \in Message
      OBVIOUS
    <2> QED
      BY <2>1 DEF Message, AnswersFor
  <1>3. Due(w, b, t) \in Nat
    <2>1. Tally(w, RequestsFor(t)) \in Nat
      BY HitsFinite
    <2>2. Tally(b, AnswersFor(t)) \in Nat
      BY HitsFinite
    <2> QED
      BY <2>1, <2>2 DEF Due
  <1> QED
    BY <1>1, <1>2, <1>3 DEF Due, Tally, Hits

LEMMA CountsNow ==
    ASSUME WatchInv, NEW t \in Targets
    PROVE  states[t].outstanding = Due(wire, inbox, t) /\ Due(wire, inbox, t) \in Nat
  <1>1. wire \in Seq(Request) /\ inbox \in Seq(Message)
    BY DEF WatchInv, TypeOK
  <1> QED
    BY <1>1, DueTallied DEF WatchInv, AnswersCounted, Answering

LEMMA CountsFollow ==
    ASSUME wire' \in Seq(Request), inbox' \in Seq(Message),
           \A t \in Targets : states'[t].outstanding = Due(wire', inbox', t)
    PROVE  AnswersCounted'
  BY DueTallied DEF AnswersCounted, Answering

\* The targets listened to when the stream opens are each asked for once.
LEMMA ListensTallied ==
    ASSUME NEW S, IsFiniteSet(S), NEW t, NEW u,
           u = [i \in DOMAIN SetToSeq(S) |-> WatchRequest(SetToSeq(S)[i], token[SetToSeq(S)[i]].remote)],
           \A x \in S : token[x].remote \in Nat
    PROVE  Tally(u, RequestsFor(t)) = IF t \in S THEN 1 ELSE 0
  <1> DEFINE g == SetToSeq(S)
  <1>1. \A i \in DOMAIN g : g[i] \in S
    BY SetToSeqSound
  <1>2. \A i \in DOMAIN u : u[i] \in RequestsFor(t) <=> g[i] = t
    BY <1>1 DEF WatchRequest, RequestsFor
  <1>3. CASE t \in S
    <2>1. PICK i \in DOMAIN g : g[i] = t
      BY <1>3, SetToSeqSound
    <2>2. \A j \in DOMAIN g : g[j] = t => j = i
      BY <2>1, SetToSeqSound
    <2>3. Hits(u, RequestsFor(t)) = {i}
      BY <1>2, <2>1, <2>2 DEF Hits
    <2> QED
      BY <1>3, <2>3, FS_Singleton DEF Tally
  <1>4. CASE t \notin S
    BY <1>1, <1>2, <1>4, TallyNone
  <1> QED
    BY <1>3, <1>4

\* A target listened to again is asked for twice, in a snapshot.
LEMMA AgainTallied ==
    ASSUME NEW S \in SUBSET Targets, IsFiniteSet(S)
    PROVE  /\ ListenedAgain(SetToSeq(S)) \in Seq(Request)
           /\ \A t \in Targets :
                  Tally(ListenedAgain(SetToSeq(S)), RequestsFor(t)) = IF t \in S THEN 2 ELSE 0
  <1> DEFINE g == SetToSeq(S)
             u == ListenedAgain(g)
  <1>1. g \in Seq(S) /\ Len(g) \in Nat /\ DOMAIN g = 1..Len(g)
    BY SetToSeqSound
  <1>2. (\A x \in S : \E i \in DOMAIN g : g[i] = x) /\ \A i, j \in DOMAIN g : g[i] = g[j] => i = j
    BY SetToSeqSound
  <1> HIDE DEF g
  <1>3. DOMAIN u = 1..(2 * Len(g))
    BY DEF ListenedAgain
  <1>4. ASSUME NEW i \in DOMAIN u
        PROVE  /\ (i + 1) \div 2 \in DOMAIN g
               /\ u[i].target = g[(i + 1) \div 2] /\ u[i] \in Request
    <2>1. (i + 1) \div 2 \in 1..Len(g)
      BY <1>1, <1>3, <1>4
    <2>2. g[(i + 1) \div 2] \in Targets
      BY <1>1, <2>1
    <2> QED
      BY <1>1, <2>1, <2>2, <1>3, <1>4
         DEF ListenedAgain, UnwatchRequest, WatchRequest, Request
  <1>5. u \in Seq(Request)
    <2>1. u \in [1..(2 * Len(g)) -> Request]
      BY <1>3, <1>4 DEF ListenedAgain
    <2> QED
      BY <1>1, <2>1
  <1>6. ASSUME NEW t \in Targets PROVE Tally(u, RequestsFor(t)) = IF t \in S THEN 2 ELSE 0
    <2>1. \A i \in DOMAIN u : u[i] \in RequestsFor(t) <=> g[(i + 1) \div 2] = t
      BY <1>4 DEF Request, RequestsFor
    <2>2. CASE t \in S
      <3>1. PICK j \in DOMAIN g : g[j] = t
        BY <1>2, <2>2
      <3>2. \A i \in DOMAIN u : g[(i + 1) \div 2] = t <=> (i + 1) \div 2 = j
        BY <1>2, <1>4, <3>1
      <3>3. \A i \in DOMAIN u : (i + 1) \div 2 = j <=> i \in {2 * j - 1, 2 * j}
        BY SMTT(60), <1>1, <1>3, <3>1
      <3>4. 2 * j - 1 \in DOMAIN u /\ 2 * j \in DOMAIN u /\ 2 * j - 1 # 2 * j
        BY <1>1, <1>3, <3>1
      <3>5. Hits(u, RequestsFor(t)) = {2 * j - 1} \cup {2 * j}
        BY <2>1, <3>2, <3>3, <3>4 DEF Hits
      <3>6. ASSUME NEW a, NEW b, a # b PROVE Cardinality({a} \cup {b}) = 2
        <4>1. IsFiniteSet({a}) /\ Cardinality({a}) = 1
          BY FS_Singleton
        <4>2. b \notin {a}
          BY <3>6
        <4>3. Cardinality({a} \cup {b}) = Cardinality({a}) + 1
          BY <4>1, <4>2, FS_AddElement
        <4> QED
          BY <4>1, <4>3
      <3>7. Cardinality({2 * j - 1} \cup {2 * j}) = 2
        BY <3>4, <3>6
      <3> QED
        BY <2>2, <3>5, <3>7 DEF Tally
    <2>3. CASE t \notin S
      <3>1. \A i \in DOMAIN u : g[(i + 1) \div 2] \in S
        BY <1>1, <1>4
      <3> QED
        BY <2>1, <2>3, <3>1, TallyNone
    <2> QED
      BY <2>2, <2>3
  <1> QED
    BY <1>5, <1>6 DEF g

-----------------------------------------------------------------------------
(***************************************************************************)
(* What becomes of the state of a target.                                  *)
(***************************************************************************)
LEMMA BlankTyped == Blank \in TargetState /\ NoTargets \in [Targets -> TargetState]
  BY DEF Blank, NoChanges, ChangeType, TargetState, NoTargets

LEMMA RequestedSound ==
    ASSUME NEW s \in TargetState, NEW n \in Int
    PROVE  /\ Requested(s, n) \in TargetState
           /\ Requested(s, n).outstanding = s.outstanding + n
           /\ Requested(s, n).changes = s.changes /\ Requested(s, n).current = s.current
  BY DEF Requested, TargetState

LEMMA AcknowledgedSound ==
    ASSUME NEW s \in TargetState
    PROVE  /\ Acknowledged(s) \in TargetState
           /\ Acknowledged(s).outstanding = s.outstanding - 1
           /\ s.outstanding = 1 => Acknowledged(s).changes = NoChanges
  <1> DEFINE left == Requested(s, -1)
  <1>0. -1 \in Int
    OBVIOUS
  <1>1. left \in TargetState /\ left.outstanding = s.outstanding + (-1)
    BY <1>0, RequestedSound
  <1>2. s.outstanding \in Int
    BY DEF TargetState
  <1>3. NoChanges \in [Keys -> ChangeType]
    BY DEF NoChanges, ChangeType
  <1>4. Acknowledged(s) = IF left.outstanding = 0 THEN [left EXCEPT !.changes = NoChanges] ELSE left
    BY DEF Acknowledged
  <1> HIDE DEF left
  <1> QED
    BY <1>1, <1>2, <1>3, <1>4 DEF TargetState

LEMMA DroppedSound ==
    ASSUME NEW s \in TargetState
    PROVE  /\ Dropped(s) \in TargetState
           /\ Dropped(s).outstanding = s.outstanding - 1
           /\ s.outstanding = 1 => Dropped(s).changes = NoChanges
  <1> DEFINE left == Requested(s, -1)
  <1>0. -1 \in Int
    OBVIOUS
  <1>1. left \in TargetState /\ left.outstanding = s.outstanding + (-1)
    BY <1>0, RequestedSound
  <1>2. s.outstanding \in Int
    BY DEF TargetState
  <1>3. Dropped(s) = IF left.outstanding = 0 THEN Blank ELSE left
    BY DEF Dropped
  <1>4. Blank.outstanding = 0 /\ Blank.changes = NoChanges
    BY DEF Blank
  <1> HIDE DEF left
  <1> QED
    BY <1>1, <1>2, <1>3, <1>4, BlankTyped

-----------------------------------------------------------------------------
(***************************************************************************)
(* Steps of the app, the stream and the backend.                           *)
(***************************************************************************)
\* A closed stream leaves nothing that could be counted or asserted.
LEMMA NothingLeft ==
    ASSUME Disconnected
    PROVE  AnswersCounted' /\ ChangesAsserted' /\ StreamQuiet' /\ SnapshotsSound'
  <1>1. wire' = << >> /\ inbox' = << >> /\ states' = NoTargets /\ resets' = {}
        /\ serving' = [t \in Targets |-> Off]
    BY DEF Disconnected
  <1>2. \A t \in Targets : states'[t].outstanding = 0 /\ states'[t].changes = NoChanges
    BY <1>1 DEF NoTargets, Blank
  <1>3. AnswersCounted'
    <2>1. \A t \in Targets : Due(<< >>, << >>, t) = 0
      BY TallyNone DEF Due
    <2> QED
      BY <1>1, <1>2, <2>1, CountsFollow
  <1>4. ChangesAsserted'
    BY <1>2 DEF ChangesAsserted, Changed, NoChanges
  <1>5. StreamQuiet' /\ SnapshotsSound'
    BY <1>1 DEF StreamQuiet, SnapshotsSound
  <1> QED
    BY <1>3, <1>4, <1>5

LEMMA DisconnectedTyped ==
    ASSUME Disconnected
    PROVE  /\ serving' \in [Targets -> [on : BOOLEAN, at : Nat, added : Nat, current : BOOLEAN,
                                         first : BOOLEAN]]
           /\ wire' \in Seq(Request) /\ inbox' \in Seq(Message)
           /\ states' \in [Targets -> TargetState] /\ resets' \subseteq Targets
  BY BlankTyped DEF Disconnected, Off

LEMMA UpdatedTyped ==
    \A s \in OnlineState :
        /\ Updated(s) \in [state : OnlineState, failing : BOOLEAN, timer : BOOLEAN]
        /\ Updated(s).state = s /\ ~Updated(s).failing /\ ~Updated(s).timer
  BY DEF Updated

\* What the stream and the tracker are, and what the code asserts of the two.
StreamSound == stream \in [state : StreamState, idle : BOOLEAN]
               /\ online \in [state : OnlineState, failing : BOOLEAN, timer : BOOLEAN]
               /\ StreamsAsserted

LEMMA StreamStepSound ==
    ASSUME WatchInv, BackoffElapses \/ StreamOpens \/ ConnectionLost \/ IdleTimeout \/
                     ConnectivityChanges \/ OnlineTimeout \/ Crash
    PROVE  StreamSound'
  <1> USE DEF StreamSound, StreamsAsserted, StreamState, OnlineState, IsStarted, Started,
              NewStream, Updated, StreamStarted, StreamFailed
  <1>0. StreamSound
    BY DEF WatchInv, TypeOK, AssertionsHold
  <1>1. CASE BackoffElapses
    BY <1>0, <1>1 DEF BackoffElapses, targets
  <1>2. CASE StreamOpens
    BY <1>0, <1>2 DEF StreamOpens, targets
  <1>3. CASE ConnectionLost
    <2>1. CASE listening = {}
      <3>1. /\ stream' = [state |-> "Error", idle |-> FALSE] /\ online' = Updated("Unknown")
            /\ listening' = {}
        BY <1>3, <2>1 DEF ConnectionLost
      <3> QED
        BY <3>1
    <2>2. CASE listening # {}
      <3> DEFINE o == StreamFailed(online)
      <3>1. /\ o \in [state : OnlineState, failing : BOOLEAN, timer : BOOLEAN]
            /\ ~o.timer /\ o.state # "Online"
        BY <1>0
      <3>2. /\ stream' = [state |-> "Backoff", idle |-> FALSE] /\ online' = StreamStarted(o)
            /\ listening' = listening
        BY <1>3, <2>2 DEF ConnectionLost
      <3> HIDE DEF o
      <3> QED
        BY <3>1, <3>2
    <2> QED
      BY <2>1, <2>2
  <1>4. CASE IdleTimeout
    BY <1>0, <1>4 DEF IdleTimeout, targets
  <1>5. CASE ConnectivityChanges
    BY <1>0, <1>5 DEF ConnectivityChanges, targets
  <1>6. CASE OnlineTimeout
    BY <1>0, <1>6 DEF OnlineTimeout
  <1>7. CASE Crash
    BY <1>0, <1>7 DEF Crash
  <1> QED
    BY <1>1, <1>2, <1>3, <1>4, <1>5, <1>6, <1>7

\* Steps that change neither what is on the stream nor what is known of the targets.
LEMMA BooksKept ==
    ASSUME WatchInv, UNCHANGED <<connection, aggregator, results, listening, keys>>,
           StreamQuiet'
    PROVE  AnswersCounted' /\ ChangesAsserted' /\ StreamQuiet' /\ SnapshotsSound'
  <1>1. UNCHANGED <<serving, wire, inbox, states, resets>>
    BY DEF connection, aggregator
  <1>2. AnswersCounted'
    BY <1>1 DEF WatchInv, AnswersCounted, Answering
  <1>3. ChangesAsserted'
    BY <1>1 DEF WatchInv, AssertionsHold, ChangesAsserted, IsActive, Changed
  <1>4. SnapshotsSound'
    BY <1>1 DEF WatchInv, SnapshotsSound
  <1> QED
    BY <1>2, <1>3, <1>4

LEMMA BackoffElapsesKeeps ==
    ASSUME WatchInv, BackoffElapses
    PROVE  WatchInv'
  <1> USE DEF WatchInv
  <1>1. StreamSound'
    BY StreamStepSound
  <1>2. TypeOK'
    BY <1>1 DEF TypeOK, StreamSound, BackoffElapses, connection, disk, targets, aggregator, counters
  <1>3. StreamQuiet'
    BY DEF StreamQuiet, BackoffElapses, connection, aggregator
  <1>4. AnswersCounted' /\ ChangesAsserted' /\ SnapshotsSound'
    BY <1>3, BooksKept DEF BackoffElapses, disk, targets
  <1> QED
    BY <1>1, <1>2, <1>3, <1>4 DEF AssertionsHold, StreamSound

LEMMA OnlineTimeoutKeeps ==
    ASSUME WatchInv, OnlineTimeout
    PROVE  WatchInv'
  <1> USE DEF WatchInv
  <1>1. StreamSound'
    BY StreamStepSound
  <1>2. current' \subseteq listening'
    BY DEF OnlineTimeout, Viewed, TypeOK
  <1>3. TypeOK'
    BY <1>1, <1>2 DEF TypeOK, StreamSound, OnlineTimeout, connection, disk, aggregator, counters
  <1>4. StreamQuiet'
    BY DEF StreamQuiet, OnlineTimeout, connection, aggregator
  <1>5. AnswersCounted' /\ ChangesAsserted' /\ SnapshotsSound'
    BY <1>4, BooksKept DEF OnlineTimeout, disk
  <1> QED
    BY <1>1, <1>3, <1>4, <1>5 DEF AssertionsHold, StreamSound

LEMMA DisconnectionKeeps ==
    ASSUME WatchInv, ConnectionLost \/ IdleTimeout \/ ConnectivityChanges \/ Crash
    PROVE  WatchInv'
  <1>1. StreamSound'
    BY StreamStepSound
  <1>2. Disconnected
    BY DEF ConnectionLost, IdleTimeout, ConnectivityChanges, Crash
  <1>3. /\ UNCHANGED <<results, keys, saved, snapshot, outlived>>
        /\ running' \in BOOLEAN
        /\ listening' \subseteq Targets /\ current' \subseteq listening'
        /\ token' \in [Targets -> [store : 0..Len(results), remote : 0..Len(results)]]
    <2>1. CASE ConnectionLost
      BY <2>1 DEF WatchInv, TypeOK, ConnectionLost, Viewed, disk
    <2>2. CASE IdleTimeout
      BY <2>2 DEF WatchInv, TypeOK, IdleTimeout, disk, targets, counters
    <2>3. CASE ConnectivityChanges
      BY <2>3 DEF WatchInv, TypeOK, ConnectivityChanges, disk, targets
    <2>4. CASE Crash
      <3>1. Len(results) \in Nat
        BY DEF WatchInv, TypeOK
      <3>2. NoToken \in [store : 0..Len(results), remote : 0..Len(results)]
        BY <3>1 DEF NoToken
      <3> QED
        BY <2>4, <3>2 DEF WatchInv, TypeOK, Crash, disk
    <2> QED
      BY <2>1, <2>2, <2>3, <2>4
  <1>4. TypeOK'
    BY <1>1, <1>2, <1>3, DisconnectedTyped DEF WatchInv, TypeOK, StreamSound
  <1> QED
    BY <1>1, <1>2, <1>4, NothingLeft DEF WatchInv, AssertionsHold, StreamSound

LEMMA StreamOpensKeeps ==
    ASSUME WatchInv, StreamOpens
    PROVE  WatchInv'
  <1>1. StreamSound'
    BY StreamStepSound
  <1> DEFINE g == SetToSeq(listening)
  <1>2. IsFiniteSet(listening)
    BY FiniteAssumption, FS_Subset DEF WatchInv, TypeOK
  <1>3. g \in Seq(listening)
    BY <1>2, SetToSeqSound
  <1>4. wire' = [i \in DOMAIN g |-> WatchRequest(g[i], token[g[i]].remote)]
    BY DEF StreamOpens
  <1>5. \A t \in listening : t \in Targets /\ token[t].remote \in Nat
    BY DEF WatchInv, TypeOK
  <1>6. wire' \in Seq(Request)
    <2> HIDE DEF g
    <2>1. \A i \in DOMAIN g : g[i] \in listening
      BY <1>3
    <2>2. \A i \in DOMAIN g : WatchRequest(g[i], token[g[i]].remote) \in Request
      BY <1>5, <2>1 DEF WatchRequest, Request
    <2>3. Len(g) \in Nat /\ DOMAIN g = 1..Len(g)
      BY <1>3
    <2>4. wire' \in [1..Len(g) -> Request]
      BY <1>4, <2>2, <2>3
    <2> QED
      BY <2>3, <2>4
  <1>7. inbox = << >> /\ inbox' = inbox
    BY DEF WatchInv, StreamQuiet, StreamOpens
  <1>8. /\ states' = [t \in Targets |-> IF t \in listening THEN Requested(Blank, 1) ELSE Blank]
        /\ listening' = listening
    BY DEF StreamOpens, targets
  <1>9. /\ Blank \in TargetState /\ Blank.outstanding = 0
        /\ Requested(Blank, 1) \in TargetState /\ Requested(Blank, 1).outstanding = 1
    <2>1. Blank \in TargetState /\ Blank.outstanding = 0
      BY BlankTyped DEF Blank
    <2> QED
      BY <2>1, RequestedSound
  <1>10. states' \in [Targets -> TargetState]
    BY <1>8, <1>9
  <1>11. TypeOK'
    BY <1>1, <1>6, <1>10 DEF WatchInv, TypeOK, StreamSound, StreamOpens, disk, targets, counters
  <1>12. AnswersCounted'
    <2>1. ASSUME NEW t \in Targets PROVE states'[t].outstanding = Due(wire', inbox', t)
      <3>1. Tally(wire', RequestsFor(t)) = IF t \in listening THEN 1 ELSE 0
        BY <1>2, <1>4, <1>5, ListensTallied
      <3>2. Tally(inbox', AnswersFor(t)) = 0
        BY <1>7, TallyNone
      <3>3. states'[t].outstanding = IF t \in listening THEN 1 ELSE 0
        BY <1>8, <1>9
      <3> QED
        BY <3>1, <3>2, <3>3 DEF Due
    <2> QED
      BY <1>6, <1>11, <2>1, CountsFollow DEF TypeOK
  <1>13. ChangesAsserted'
    <2>1. \A t \in Targets : ~IsActive(t)'
      BY <1>8, <1>9 DEF IsActive
    <2> QED
      BY <2>1 DEF ChangesAsserted
  <1>14. StreamQuiet' /\ SnapshotsSound'
    BY <1>7 DEF StreamOpens, StreamQuiet, SnapshotsSound, WatchInv, TypeOK
  <1> QED
    BY <1>1, <1>11, <1>12, <1>13, <1>14 DEF WatchInv, AssertionsHold, StreamSound

LEMMA StartKeeps ==
    ASSUME WatchInv, Start
    PROVE  WatchInv'
  <1> USE DEF WatchInv
  <1>1. StreamsAsserted' /\ StreamQuiet'
    BY DEF AssertionsHold, StreamsAsserted, StreamQuiet, Start, connection, aggregator, targets
  <1>2. TypeOK'
    BY DEF TypeOK, Start, connection, disk, targets, aggregator, counters
  <1>3. AnswersCounted' /\ ChangesAsserted' /\ SnapshotsSound'
    BY <1>1, BooksKept DEF Start, disk, targets
  <1> QED
    BY <1>1, <1>2, <1>3 DEF AssertionsHold

\* Requests and their answers are told apart by their target.
LEMMA RequestsApart ==
    ASSUME NEW t \in Targets, NEW x \in Targets, NEW n \in Nat
    PROVE  /\ WatchRequest(t, n) \in Request /\ (WatchRequest(t, n) \in RequestsFor(x) <=> x = t)
           /\ UnwatchRequest(t) \in Request /\ (UnwatchRequest(t) \in RequestsFor(x) <=> x = t)
  BY DEF WatchRequest, UnwatchRequest, Request, RequestsFor

\* One more request for a target is one more answer that the client is due.
LEMMA RequestCounted ==
    ASSUME WatchInv, NEW t \in Targets, NEW r \in Request,
           \A x \in Targets : r \in RequestsFor(x) <=> x = t,
           wire' = Append(wire, r), inbox' = inbox,
           states' = [states EXCEPT ![t] = Requested(@, 1)]
    PROVE  /\ wire' \in Seq(Request) /\ states' \in [Targets -> TargetState]
           /\ states'[t].outstanding > 0 /\ \A x \in Targets \ {t} : states'[x] = states[x]
           /\ AnswersCounted'
  <1>1. /\ wire \in Seq(Request) /\ inbox \in Seq(Message)
        /\ states \in [Targets -> TargetState] /\ states[t] \in TargetState
    BY DEF WatchInv, TypeOK
  <1>2. /\ Requested(states[t], 1) \in TargetState
        /\ Requested(states[t], 1).outstanding = states[t].outstanding + 1
    <2>1. 1 \in Int
      OBVIOUS
    <2> QED
      BY <1>1, <2>1, RequestedSound
  <1>3. /\ states'[t] = Requested(states[t], 1) /\ states' \in [Targets -> TargetState]
        /\ \A x \in Targets \ {t} : states'[x] = states[x]
    BY <1>1, <1>2
  <1>4. wire' \in Seq(Request)
    BY <1>1
  <1>5. ASSUME NEW x \in Targets PROVE states'[x].outstanding = Due(wire', inbox', x)
    <2>1. Tally(wire', RequestsFor(x)) = Tally(wire, RequestsFor(x)) + IF x = t THEN 1 ELSE 0
      BY <1>1, TallyAppended
    <2>2. Tally(wire, RequestsFor(x)) \in Nat /\ Tally(inbox, AnswersFor(x)) \in Nat
      BY <1>1, HitsFinite
    <2>3. states[x].outstanding = Tally(wire, RequestsFor(x)) + Tally(inbox, AnswersFor(x))
      BY CountsNow DEF Due
    <2>4. states'[x].outstanding = states[x].outstanding + IF x = t THEN 1 ELSE 0
      <3>1. CASE x = t
        BY <1>2, <1>3, <3>1
      <3>2. CASE x # t
        <4>1. states[x].outstanding \in Int
          BY <2>2, <2>3
        <4> QED
          BY <1>3, <3>2, <4>1
      <3> QED
        BY <3>1, <3>2
    <2> QED
      BY <2>1, <2>2, <2>3, <2>4 DEF Due
  <1>6. AnswersCounted'
    BY <1>1, <1>4, <1>5, CountsFollow
  <1>7. states'[t].outstanding > 0
    <2>1. states[t].outstanding \in Nat
      BY CountsNow
    <2> QED
      BY <1>2, <1>3, <2>1
  <1> QED
    BY <1>3, <1>4, <1>6, <1>7

LEMMA ListenKeeps ==
    ASSUME WatchInv, NEW t \in Targets, Listen(t)
    PROVE  WatchInv'
  <1>0. /\ StreamSound /\ saved[t] \in Nat
        /\ [store |-> saved[t], remote |-> saved[t]] \in [store : 0..Len(results), remote : 0..Len(results)]
    BY DEF WatchInv, TypeOK, StreamSound, AssertionsHold
  <1>1. StreamSound'
    <2> USE DEF StreamSound, StreamsAsserted, StreamState, OnlineState, IsStarted, Started, StreamStarted
    <2>1. CASE IsStarted(stream)
      <3>1. stream' = [stream EXCEPT !.idle = FALSE] /\ online' = online
        BY <2>1 DEF Listen
      <3> QED
        BY <1>0, <2>1, <3>1
    <2>2. CASE ~IsStarted(stream)
      <3>1. stream' = Started(stream) /\ online' = StreamStarted(online)
        BY <2>2 DEF Listen
      <3>2. /\ stream' \in [state : StreamState, idle : BOOLEAN] /\ IsStarted(stream') /\ ~stream'.idle
        BY <3>1
      <3>3. ~online.timer
        BY <1>0, <2>2
      <3>4. /\ online' \in [state : OnlineState, failing : BOOLEAN, timer : BOOLEAN]
            /\ online'.timer => online'.state = "Unknown"
            /\ online'.state = "Online" => ~online'.failing /\ ~online'.timer
        BY <1>0, <3>1, <3>3
      <3> QED
        BY <3>2, <3>4
    <2> QED
      BY <2>1, <2>2
  <1>2. /\ UNCHANGED <<results, serving, inbox, keys, saved, snapshot, running, current, resets>>
        /\ listening' = listening \cup {t} /\ t \notin listening
        /\ token' \in [Targets -> [store : 0..Len(results), remote : 0..Len(results)]]
        /\ outlived' \subseteq Targets
    BY <1>0 DEF Listen, disk, WatchInv, TypeOK
  <1>3. CASE stream.state = "Open"
    <2>1. /\ wire' = Append(wire, WatchRequest(t, saved[t]))
          /\ states' = [states EXCEPT ![t] = Requested(@, 1)]
      BY <1>3 DEF Listen
    <2>2. /\ wire' \in Seq(Request) /\ states' \in [Targets -> TargetState] /\ AnswersCounted'
          /\ states'[t].outstanding > 0 /\ \A x \in Targets \ {t} : states'[x] = states[x]
      <3> DEFINE r == WatchRequest(t, saved[t])
      <3>1. r \in Request /\ \A x \in Targets : r \in RequestsFor(x) <=> x = t
        BY <1>0, RequestsApart
      <3>2. wire' = Append(wire, r)
        BY <2>1
      <3> HIDE DEF r
      <3> QED
        BY <1>2, <2>1, <3>1, <3>2, RequestCounted
    <2>3. TypeOK'
      BY <1>1, <1>2, <2>2 DEF WatchInv, TypeOK, StreamSound
    <2>4. ChangesAsserted'
      BY SMTT(60), <1>2, <2>2 DEF WatchInv, AssertionsHold, ChangesAsserted, IsActive, Changed
    <2>5. stream'.state = "Open"
      BY <1>0, <1>3 DEF Listen, IsStarted, StreamSound
    <2>6. StreamQuiet' /\ SnapshotsSound'
      BY <1>2, <2>5 DEF WatchInv, StreamQuiet, SnapshotsSound
    <2> QED
      BY <1>1, <2>2, <2>3, <2>4, <2>6 DEF WatchInv, AssertionsHold, StreamSound
  <1>4. CASE stream.state # "Open"
    <2>1. UNCHANGED <<wire, states>>
      BY <1>4 DEF Listen
    <2>2. TypeOK'
      BY <1>1, <1>2, <2>1 DEF WatchInv, TypeOK, StreamSound
    <2>3. AnswersCounted'
      BY <1>2, <2>1 DEF WatchInv, AnswersCounted, Answering
    <2>4. ChangesAsserted'
      <3>1. \A x \in Targets : states[x].changes = NoChanges
        BY <1>4 DEF WatchInv, StreamQuiet, NoTargets, Blank
      <3> QED
        BY <2>1, <3>1 DEF ChangesAsserted, Changed, NoChanges
    <2>5. StreamQuiet' /\ SnapshotsSound'
      BY <1>2, <1>4, <2>1 DEF WatchInv, StreamQuiet, SnapshotsSound
    <2> QED
      BY <1>1, <2>2, <2>3, <2>4, <2>5 DEF WatchInv, AssertionsHold, StreamSound
  <1> QED
    BY <1>3, <1>4

LEMMA StopListeningKeeps ==
    ASSUME WatchInv, NEW t \in Targets, StopListening(t)
    PROVE  WatchInv'
  <1>0. StreamSound
    BY DEF WatchInv, TypeOK, StreamSound, AssertionsHold
  <1>1. /\ UNCHANGED <<results, serving, inbox, keys, snapshot, running, resets, outlived>>
        /\ t \in listening /\ listening' = listening \ {t} /\ current' = current \ {t}
    BY DEF StopListening, counters
  <1>2. /\ saved' \in [Targets -> 0..Len(results)]
        /\ token' \in [Targets -> [store : 0..Len(results), remote : 0..Len(results)]]
    <2>1. Len(results) \in Nat /\ token[t].store \in 0..Len(results)
      BY DEF WatchInv, TypeOK
    <2>2. NoToken \in [store : 0..Len(results), remote : 0..Len(results)]
      BY <2>1 DEF NoToken
    <2> QED
      BY <2>1, <2>2 DEF StopListening, WatchInv, TypeOK
  <1>3. StreamSound'
    <2> USE DEF StreamSound, StreamsAsserted, StreamState, OnlineState, IsStarted, Updated
    <2>1. CASE stream.state = "Open"
      <3>1. stream' = [stream EXCEPT !.idle = (listening' = {})] /\ online' = online
        BY <2>1 DEF StopListening
      <3>2. /\ stream' \in [state : StreamState, idle : BOOLEAN] /\ stream'.state = "Open"
            /\ stream'.idle => listening' = {}
        BY <1>0, <2>1, <3>1
      <3> QED
        BY <1>0, <2>1, <3>1, <3>2
    <2>2. CASE stream.state # "Open"
      <3>1. stream' = stream /\ online' \in {online, Updated("Unknown")}
        BY <2>2 DEF StopListening
      <3>2. listening # {} /\ IsStarted(stream)
        BY <1>0, <1>1
      <3>3. CASE online' = online
        BY <1>0, <2>2, <3>1, <3>2, <3>3
      <3>4. CASE online' = Updated("Unknown")
        BY <1>0, <2>2, <3>1, <3>2, <3>4
      <3> QED
        BY <3>1, <3>3, <3>4
    <2> QED
      BY <2>1, <2>2
  <1>4. CASE stream.state = "Open"
    <2>1. /\ wire' = Append(wire, UnwatchRequest(t))
          /\ states' = [states EXCEPT ![t] = Requested(@, 1)]
      BY <1>4 DEF StopListening, RequestedEnd
    <2>2. /\ wire' \in Seq(Request) /\ states' \in [Targets -> TargetState] /\ AnswersCounted'
          /\ \A x \in Targets \ {t} : states'[x] = states[x]
      <3> DEFINE r == UnwatchRequest(t)
      <3>1. r \in Request /\ \A x \in Targets : r \in RequestsFor(x) <=> x = t
        <4>1. 0 \in Nat
          OBVIOUS
        <4> QED
          BY <4>1, RequestsApart
      <3>2. wire' = Append(wire, r)
        BY <2>1
      <3> HIDE DEF r
      <3> QED
        BY <1>1, <2>1, <3>1, <3>2, RequestCounted
    <2>3. TypeOK'
      BY <1>1, <1>2, <1>3, <2>2 DEF WatchInv, TypeOK, StreamSound
    <2>4. ChangesAsserted'
      BY <1>1, <2>2 DEF WatchInv, AssertionsHold, ChangesAsserted, IsActive, Changed
    <2>5. stream'.state = "Open"
      BY <1>0, <1>4 DEF StopListening, StreamSound
    <2>6. StreamQuiet' /\ SnapshotsSound'
      BY <1>1, <2>5 DEF WatchInv, StreamQuiet, SnapshotsSound
    <2> QED
      BY <1>3, <2>2, <2>3, <2>4, <2>6 DEF WatchInv, AssertionsHold, StreamSound
  <1>5. CASE stream.state # "Open"
    <2>1. UNCHANGED <<wire, states, stream>>
      BY <1>5 DEF StopListening
    <2>2. TypeOK'
      BY <1>1, <1>2, <1>3, <2>1 DEF WatchInv, TypeOK, StreamSound
    <2>3. AnswersCounted'
      BY <1>1, <2>1 DEF WatchInv, AnswersCounted, Answering
    <2>4. ChangesAsserted'
      BY <1>1, <2>1 DEF WatchInv, AssertionsHold, ChangesAsserted, IsActive, Changed
    <2>5. StreamQuiet' /\ SnapshotsSound'
      BY <1>1, <1>5, <2>1 DEF WatchInv, StreamQuiet, SnapshotsSound
    <2> QED
      BY <1>3, <2>2, <2>3, <2>4, <2>5 DEF WatchInv, AssertionsHold, StreamSound
  <1> QED
    BY <1>4, <1>5

LEMMA ResultsChangeKeeps ==
    ASSUME WatchInv, ResultsChange
    PROVE  WatchInv'
  <1>1. UNCHANGED <<connection, disk, running, targets, stream, aggregator, online, counters>>
    BY DEF ResultsChange
  <1>2. results' \in Seq([Targets -> SUBSET Keys]) /\ Len(results') = Len(results) + 1
        /\ Len(results) \in Nat
    <2>1. PICK r \in [Targets -> SUBSET Keys] : results' = Append(results, r)
      BY DEF ResultsChange
    <2>2. results \in Seq([Targets -> SUBSET Keys])
      BY DEF WatchInv, TypeOK
    <2> QED
      BY <2>1, <2>2
  <1>3. 0..Len(results) \subseteq 0..Len(results')
    BY <1>2
  <1>4. TypeOK'
    <2>1. [store : 0..Len(results), remote : 0..Len(results)]
              \subseteq [store : 0..Len(results'), remote : 0..Len(results')]
      BY <1>3
    <2>2. /\ saved' \in [Targets -> 0..Len(results')] /\ snapshot' \in 0..Len(results')
          /\ token' \in [Targets -> [store : 0..Len(results'), remote : 0..Len(results')]]
      BY <1>1, <1>3, <2>1 DEF WatchInv, TypeOK, disk, targets
    <2> QED
      BY <1>1, <1>2, <2>2
         DEF WatchInv, TypeOK, connection, disk, targets, aggregator, counters
  <1>5. AnswersCounted' /\ AssertionsHold' /\ StreamQuiet'
    <2>1. AnswersCounted'
      BY <1>1 DEF connection, aggregator, WatchInv, AnswersCounted, Answering
    <2>2. AssertionsHold'
      BY <1>1 DEF disk, targets, aggregator, WatchInv, AssertionsHold, StreamsAsserted,
                  ChangesAsserted, IsActive, Changed
    <2>3. StreamQuiet'
      BY <1>1 DEF connection, aggregator, WatchInv, StreamQuiet
    <2> QED
      BY <2>1, <2>2, <2>3
  <1>6. SnapshotsSound'
    BY <1>1, <1>3 DEF WatchInv, SnapshotsSound, connection
  <1> QED
    BY <1>4, <1>5, <1>6 DEF WatchInv

\* A request that is served is an answer on its way.
LEMMA ServeRequestKeeps ==
    ASSUME WatchInv, ServeRequest
    PROVE  WatchInv'
  <1> DEFINE r == Head(wire)
             m == [type |-> IF r.op = "watch" THEN "Added" ELSE "Removed", target |-> r.target]
             s == IF r.op = "watch"
                  THEN [on |-> TRUE, at |-> r.token, added |-> Len(results),
                        current |-> FALSE, first |-> TRUE]
                  ELSE Off
  <1>1. /\ wire \in Seq(Request) /\ wire # << >> /\ inbox \in Seq(Message)
        /\ wire' = Tail(wire) /\ inbox' = Append(inbox, m)
        /\ serving' = [serving EXCEPT ![r.target] = s]
    BY DEF ServeRequest, WatchInv, TypeOK
  <1>2. UNCHANGED <<results, disk, running, targets, stream, aggregator, online, counters>>
    BY DEF ServeRequest
  <1>3. r \in Request /\ wire' \in Seq(Request)
    BY <1>1
  <1>4. /\ m \in Message /\ m.type # "Snapshot"
        /\ \A t \in Targets : (m \in AnswersFor(t) <=> r.target = t)
                              /\ (r \in RequestsFor(t) <=> r.target = t)
    BY <1>3 DEF Request, Message, AnswersFor, RequestsFor
  <1>5. s \in [on : BOOLEAN, at : Nat, added : Nat, current : BOOLEAN, first : BOOLEAN]
    <2>1. Len(results) \in Nat /\ r.token \in Nat
      BY SMTT(60), <1>3 DEF Request, WatchInv, TypeOK
    <2> QED
      BY <2>1 DEF Off
  <1>6. inbox' \in Seq(Message)
    BY <1>1, <1>4
  <1>7. TypeOK'
    <2>1. serving' \in [Targets -> [on : BOOLEAN, at : Nat, added : Nat, current : BOOLEAN,
                                    first : BOOLEAN]]
      BY <1>1, <1>5 DEF WatchInv, TypeOK
    <2> QED
      BY <1>2, <1>3, <1>6, <2>1 DEF WatchInv, TypeOK, disk, targets, aggregator, counters
  <1>8. AnswersCounted'
    <2>1. ASSUME NEW t \in Targets PROVE Due(wire', inbox', t) = Due(wire, inbox, t)
      <3> HIDE DEF r, m
      <3>1. Tally(inbox', AnswersFor(t)) = Tally(inbox, AnswersFor(t)) + IF m \in AnswersFor(t) THEN 1 ELSE 0
        BY <1>1, <1>4, TallyAppended
      <3>2. Tally(wire, RequestsFor(t)) = Tally(wire', RequestsFor(t)) + IF r \in RequestsFor(t) THEN 1 ELSE 0
        BY <1>1, TallyOfTail DEF r
      <3>3. Tally(inbox, AnswersFor(t)) \in Nat /\ Tally(wire', RequestsFor(t)) \in Nat
        BY <1>1, <1>3, HitsFinite
      <3> QED
        BY <1>4, <3>1, <3>2, <3>3 DEF Due
    <2>2. states' = states
      BY <1>2 DEF aggregator
    <2> QED
      BY <1>3, <1>6, <2>1, <2>2, CountsNow, CountsFollow
  <1>9. AssertionsHold'
    BY <1>2 DEF disk, targets, aggregator, WatchInv, AssertionsHold, StreamsAsserted,
                ChangesAsserted, IsActive, Changed
  <1>10. StreamQuiet'
    BY <1>1, <1>2 DEF WatchInv, StreamQuiet
  <1>11. SnapshotsSound'
    <2> HIDE DEF m
    <2>1. ASSUME NEW i \in DOMAIN inbox' PROVE inbox'[i] = m \/ (i \in DOMAIN inbox /\ inbox'[i] = inbox[i])
      BY <1>1
    <2> QED
      BY <1>2, <1>4, <2>1 DEF WatchInv, SnapshotsSound
  <1> QED
    BY <1>7, <1>8, <1>9, <1>10, <1>11 DEF WatchInv

\* News are no answers, and of a version the backend has.
News(n) == {m \in Message : /\ m.type \notin {"Added", "Removed"}
                            /\ m.type = "Snapshot" => m.version \in 0..n}
VersionsUpTo(n, b) == \A i \in DOMAIN b : b[i].type = "Snapshot" => b[i].version \in 0..n

LEMMA NewsJoined ==
    ASSUME NEW n \in Nat, NEW b \in Seq(Message), VersionsUpTo(n, b), NEW u \in Seq(News(n))
    PROVE  /\ b \o u \in Seq(Message) /\ VersionsUpTo(n, b \o u)
           /\ \A t \in Targets : Tally(b \o u, AnswersFor(t)) = Tally(b, AnswersFor(t))
  <1>1. u \in Seq(Message) /\ \A i \in DOMAIN u : u[i] \in News(n)
    <2>1. \A i \in 1..Len(u) : u[i] \in News(n) /\ u[i] \in Message
      BY DEF News
    <2>2. Len(u) \in Nat /\ u = [i \in 1..Len(u) |-> u[i]]
      OBVIOUS
    <2>3. u \in [1..Len(u) -> Message]
      BY <2>1, <2>2
    <2> QED
      BY <2>1, <2>2, <2>3
  <1>2. b \o u \in Seq(Message) /\ DOMAIN (b \o u) = 1..(Len(b) + Len(u))
    BY <1>1
  <1>3. VersionsUpTo(n, b \o u)
    <2> SUFFICES ASSUME NEW i \in DOMAIN (b \o u), (b \o u)[i].type = "Snapshot"
                 PROVE  (b \o u)[i].version \in 0..n
      BY DEF VersionsUpTo
    <2>1. CASE i <= Len(b)
      <3>1. i \in DOMAIN b /\ (b \o u)[i] = b[i]
        BY <1>1, <1>2, <2>1
      <3> QED
        BY <3>1 DEF VersionsUpTo
    <2>2. CASE i > Len(b)
      <3>1. i - Len(b) \in DOMAIN u /\ (b \o u)[i] = u[i - Len(b)]
        BY <1>1, <1>2, <2>2
      <3> QED
        BY <1>1, <3>1 DEF News
    <2> QED
      BY <1>2, <2>1, <2>2
  <1>4. ASSUME NEW t \in Targets PROVE Tally(b \o u, AnswersFor(t)) = Tally(b, AnswersFor(t))
    <2>1. \A i \in DOMAIN u : u[i] \notin AnswersFor(t)
      BY <1>1 DEF News, AnswersFor
    <2>2. Tally(u, AnswersFor(t)) = 0
      BY <2>1, TallyNone
    <2>3. Tally(b \o u, AnswersFor(t)) = Tally(b, AnswersFor(t)) + Tally(u, AnswersFor(t))
      BY <1>1, TallyJoined
    <2>4. Tally(b, AnswersFor(t)) \in Nat
      BY HitsFinite
    <2> QED
      BY <2>2, <2>3, <2>4
  <1> QED
    BY <1>2, <1>3, <1>4

LEMMA ServerSendsKeeps ==
    ASSUME WatchInv, NEW v \in 1..MaxVersions, ServerSends(v)
    PROVE  WatchInv'
  <1> DEFINE n == Len(results)
             on == {t \in Targets : serving[t].on}
             resumed == {t \in on : serving[t].first /\ serving[t].at > 0}
             early == {t \in on : ~serving[t].current /\ v >= serving[t].added}
             known(t) == IF serving[t].at = 0 THEN {} ELSE results[serving[t].at][t]
  <1>1. n \in Nat /\ v \in 1..n /\ v \in Nat /\ on # {}
    <2>1. n \in Nat
      BY SMTT(60) DEF WatchInv, TypeOK
    <2>2. on # {}
      BY DEF ServerSends
    <2>3. v \in 1..n
      BY DEF ServerSends
    <2> QED
      BY <2>1, <2>2, <2>3
  <1>2. PICK silent \in SUBSET resumed, written \in {{}, Keys} :
           LET news(k) == [type |-> "Document", key |-> k,
                           updated |-> {t \in on : k \in results[v][t] /\
                                                       (k \in written \/ k \notin known(t))},
                           removed |-> {t \in on \ silent : k \in known(t) \ results[v][t]}]
               documents == SetToSeq({k \in Keys : news(k).updated \cup news(k).removed # {}})
               currents == SetToSeq(early)
               filters == SetToSeq(resumed)
           IN  inbox' = inbox
                   \o [i \in DOMAIN documents |-> news(documents[i])]
                   \o [i \in DOMAIN currents |-> [type |-> "Current", target |-> currents[i]]]
                   \o [i \in DOMAIN filters |-> [type |-> "Filter", target |-> filters[i],
                                                 count |-> Cardinality(results[v][filters[i]])]]
                   \o <<[type |-> "Snapshot", version |-> v]>>
    BY DEF ServerSends
  <1> DEFINE news(k) == [type |-> "Document", key |-> k,
                         updated |-> {t \in on : k \in results[v][t] /\
                                                     (k \in written \/ k \notin known(t))},
                         removed |-> {t \in on \ silent : k \in known(t) \ results[v][t]}]
             written_to == {k \in Keys : news(k).updated \cup news(k).removed # {}}
             documents == SetToSeq(written_to)
             currents == SetToSeq(early)
             filters == SetToSeq(resumed)
             docs == [i \in DOMAIN documents |-> news(documents[i])]
             curs == [i \in DOMAIN currents |-> [type |-> "Current", target |-> currents[i]]]
             filts == [i \in DOMAIN filters |-> [type |-> "Filter", target |-> filters[i],
                                                count |-> Cardinality(results[v][filters[i]])]]
             snap == <<[type |-> "Snapshot", version |-> v]>>
  <1>3. inbox' = inbox \o docs \o curs \o filts \o snap
    BY <1>2
  <1>4. docs \in Seq(News(n))
    <2>1. written_to \subseteq Keys /\ IsFiniteSet(written_to)
      <3>1. written_to \in SUBSET Keys
        OBVIOUS
      <3> QED
        BY <3>1, FiniteAssumption, FS_Subset
    <2>2. \A k \in Keys : news(k) \in News(n)
      BY DEF News, Message
    <2> HIDE DEF written_to, news
    <2>3. documents \in Seq(written_to)
      BY <2>1, SetToSeqSound
    <2> HIDE DEF documents
    <2>4. Len(documents) \in Nat /\ DOMAIN documents = 1..Len(documents)
          /\ \A i \in 1..Len(documents) : documents[i] \in Keys
      BY <2>1, <2>3
    <2>5. docs \in [1..Len(documents) -> News(n)]
      BY <2>2, <2>4
    <2> QED
      BY <2>4, <2>5
  <1>5. /\ early \subseteq Targets /\ IsFiniteSet(early)
        /\ resumed \subseteq Targets /\ IsFiniteSet(resumed)
    <2>1. early \in SUBSET Targets /\ resumed \in SUBSET Targets
      OBVIOUS
    <2> QED
      BY <2>1, FiniteAssumption, FS_Subset
  <1>6. curs \in Seq(News(n))
    <2> HIDE DEF early
    <2>1. currents \in Seq(early)
      BY <1>5, SetToSeqSound
    <2> HIDE DEF currents
    <2>2. Len(currents) \in Nat /\ DOMAIN currents = 1..Len(currents)
          /\ \A i \in 1..Len(currents) : currents[i] \in Targets
      BY <1>5, <2>1
    <2>3. \A t \in Targets : [type |-> "Current", target |-> t] \in News(n)
      BY DEF News, Message
    <2>4. curs \in [1..Len(currents) -> News(n)]
      BY <2>2, <2>3
    <2> QED
      BY <2>2, <2>4
  <1>7. filts \in Seq(News(n))
    <2> HIDE DEF resumed
    <2>1. filters \in Seq(resumed)
      BY <1>5, SetToSeqSound
    <2> HIDE DEF filters
    <2>2. Len(filters) \in Nat /\ DOMAIN filters = 1..Len(filters)
          /\ \A i \in 1..Len(filters) : filters[i] \in Targets
      BY <1>5, <2>1
    <2>3. ASSUME NEW t \in Targets PROVE Cardinality(results[v][t]) \in Nat
      <3>1. results[v] \in [Targets -> SUBSET Keys]
        BY SMTT(60), <1>1 DEF WatchInv, TypeOK
      <3>2. results[v][t] \in SUBSET Keys
        BY <3>1
      <3> QED
        BY <3>2, FiniteAssumption, FS_Subset, FS_CardinalityType
    <2>4. \A t \in Targets :
             [type |-> "Filter", target |-> t, count |-> Cardinality(results[v][t])] \in News(n)
      BY <2>3 DEF News, Message
    <2>5. filts \in [1..Len(filters) -> News(n)]
      BY <2>2, <2>4
    <2> QED
      BY <2>2, <2>5
  <1>8. snap \in Seq(News(n))
    <2>1. [type |-> "Snapshot", version |-> v] \in News(n)
      BY <1>1 DEF News, Message
    <2> QED
      BY <2>1
  <1>9. inbox \in Seq(Message) /\ VersionsUpTo(n, inbox)
    BY DEF WatchInv, TypeOK, SnapshotsSound, VersionsUpTo
  <1>10. /\ inbox' \in Seq(Message) /\ VersionsUpTo(n, inbox')
         /\ \A t \in Targets : Tally(inbox', AnswersFor(t)) = Tally(inbox, AnswersFor(t))
    <2> HIDE DEF n, docs, curs, filts, snap
    <2> DEFINE b1 == inbox \o docs
               b2 == b1 \o curs
               b3 == b2 \o filts
    <2>1. b1 \in Seq(Message) /\ VersionsUpTo(n, b1)
          /\ \A t \in Targets : Tally(b1, AnswersFor(t)) = Tally(inbox, AnswersFor(t))
      BY <1>1, <1>4, <1>9, NewsJoined
    <2> HIDE DEF b1
    <2>2. b2 \in Seq(Message) /\ VersionsUpTo(n, b2)
          /\ \A t \in Targets : Tally(b2, AnswersFor(t)) = Tally(b1, AnswersFor(t))
      BY <1>1, <1>6, <2>1, NewsJoined
    <2> HIDE DEF b2
    <2>3. b3 \in Seq(Message) /\ VersionsUpTo(n, b3)
          /\ \A t \in Targets : Tally(b3, AnswersFor(t)) = Tally(b2, AnswersFor(t))
      BY <1>1, <1>7, <2>2, NewsJoined
    <2> HIDE DEF b3
    <2>4. b3 \o snap \in Seq(Message) /\ VersionsUpTo(n, b3 \o snap)
          /\ \A t \in Targets : Tally(b3 \o snap, AnswersFor(t)) = Tally(b3, AnswersFor(t))
      BY <1>1, <1>8, <2>3, NewsJoined
    <2>5. inbox' = b3 \o snap
      BY <1>3 DEF b1, b2, b3
    <2> QED
      BY <2>1, <2>2, <2>3, <2>4, <2>5
  <1>11. /\ UNCHANGED <<results, wire, disk, running, targets, stream, aggregator, online, counters>>
         /\ serving' \in [Targets -> [on : BOOLEAN, at : Nat, added : Nat, current : BOOLEAN,
                                      first : BOOLEAN]]
    <2>1. /\ UNCHANGED <<results, wire, disk, running, targets, stream, aggregator, online, counters>>
          /\ serving' = [t \in Targets |->
                            IF t \in on THEN [serving[t] EXCEPT !.at = v, !.first = FALSE,
                                                                !.current = @ \/ t \in early]
                            ELSE serving[t]]
      BY DEF ServerSends
    <2> HIDE DEF on, early
    <2>2. ASSUME NEW t \in Targets
          PROVE  [serving[t] EXCEPT !.at = v, !.first = FALSE, !.current = @ \/ t \in early]
                     \in [on : BOOLEAN, at : Nat, added : Nat, current : BOOLEAN, first : BOOLEAN]
      <3>1. serving[t] \in [on : BOOLEAN, at : Nat, added : Nat, current : BOOLEAN, first : BOOLEAN]
        BY DEF WatchInv, TypeOK
      <3> QED
        BY <1>1, <3>1
    <2> QED
      BY <2>1, <2>2 DEF WatchInv, TypeOK
  <1> HIDE DEF n, on
  <1>12. TypeOK'
    BY <1>10, <1>11 DEF WatchInv, TypeOK, disk, targets, aggregator, counters
  <1>13. AnswersCounted'
    <2>1. \A t \in Targets : Due(wire', inbox', t) = Due(wire, inbox, t)
      BY <1>10, <1>11 DEF Due
    <2>2. states' = states
      BY <1>11 DEF aggregator
    <2> QED
      BY <1>12, <2>1, <2>2, CountsNow, CountsFollow DEF TypeOK
  <1>14. AssertionsHold'
    BY <1>11 DEF disk, targets, aggregator, WatchInv, AssertionsHold, StreamsAsserted,
                 ChangesAsserted, IsActive, Changed
  <1>15. StreamQuiet'
    <2>1. stream.state = "Open"
      BY <1>1 DEF WatchInv, StreamQuiet, Off, on
    <2> QED
      BY <1>11, <2>1 DEF StreamQuiet
  <1>16. SnapshotsSound'
    BY <1>10, <1>11 DEF VersionsUpTo, SnapshotsSound, n
  <1> QED
    BY <1>12, <1>13, <1>14, <1>15, <1>16 DEF WatchInv

-----------------------------------------------------------------------------
(***************************************************************************)
(* Messages that the client receives.                                      *)
(***************************************************************************)
LEMMA ReceivedSound ==
    ASSUME WatchInv, NEW type, Received(type)
    PROVE  /\ Head(inbox) \in Message /\ Head(inbox).type = type
           /\ inbox' \in Seq(Message) /\ SnapshotsSound'
           /\ type = "Snapshot" => Head(inbox).version \in 0..Len(results)
           /\ \A t \in Targets : Tally(inbox, AnswersFor(t)) = Tally(inbox', AnswersFor(t)) +
                                     IF Head(inbox) \in AnswersFor(t) THEN 1 ELSE 0
           /\ stream.state = "Open"
           /\ stream' = stream => StreamSound'
  <1>1. inbox \in Seq(Message) /\ inbox # << >> /\ inbox' = Tail(inbox) /\ Head(inbox).type = type
        /\ UNCHANGED <<results, listening>> /\ online' = Updated("Online")
    BY DEF Received, WatchInv, TypeOK
  <1>2. Head(inbox) \in Message /\ inbox' \in Seq(Message)
    BY <1>1
  <1>3. SnapshotsSound'
    <2> SUFFICES ASSUME NEW i \in DOMAIN inbox', inbox'[i].type = "Snapshot"
                 PROVE  inbox'[i].version \in 0..Len(results')
      BY DEF SnapshotsSound
    <2>1. i + 1 \in DOMAIN inbox /\ inbox'[i] = inbox[i + 1]
      BY <1>1
    <2> QED
      BY <1>1, <2>1 DEF WatchInv, SnapshotsSound
  <1>4. type = "Snapshot" => Head(inbox).version \in 0..Len(results)
    <2>1. 1 \in DOMAIN inbox /\ Head(inbox) = inbox[1]
      BY <1>1
    <2> QED
      BY <1>1, <2>1 DEF WatchInv, SnapshotsSound
  <1>5. ASSUME NEW t \in Targets
        PROVE  Tally(inbox, AnswersFor(t)) = Tally(inbox', AnswersFor(t)) +
                   IF Head(inbox) \in AnswersFor(t) THEN 1 ELSE 0
    BY <1>1, TallyOfTail
  <1>6. stream.state = "Open"
    BY <1>1 DEF WatchInv, StreamQuiet
  <1>7. stream' = stream => StreamSound'
    BY <1>1 DEF WatchInv, TypeOK, AssertionsHold, StreamsAsserted, StreamSound, OnlineState,
                Updated, IsStarted
  <1> QED
    BY <1>1, <1>2, <1>3, <1>4, <1>5, <1>6, <1>7

\* An answer is one that the client is due no more; other messages count for nothing.
LEMMA ReceivedKeeps ==
    ASSUME WatchInv, NEW type, Received(type), UNCHANGED <<wire, disk, token, current, stream>>,
           resets' \subseteq Targets, outlived' \subseteq Targets,
           states' \in [Targets -> TargetState],
           \A t \in Targets : states'[t].outstanding =
               states[t].outstanding - (IF Head(inbox) \in AnswersFor(t) THEN 1 ELSE 0),
           ChangesAsserted'
    PROVE  WatchInv'
  <1>1. /\ inbox' \in Seq(Message) /\ SnapshotsSound' /\ StreamSound' /\ stream.state = "Open"
        /\ \A t \in Targets : Tally(inbox, AnswersFor(t)) = Tally(inbox', AnswersFor(t)) +
                                  IF Head(inbox) \in AnswersFor(t) THEN 1 ELSE 0
    BY ReceivedSound
  <1>2. UNCHANGED <<results, serving, running, listening>>
    BY DEF Received
  <1>3. TypeOK'
    BY <1>1, <1>2 DEF WatchInv, TypeOK, StreamSound, disk
  <1>4. ASSUME NEW t \in Targets PROVE states'[t].outstanding = Due(wire', inbox', t)
    <2>1. wire \in Seq(Request) /\ wire' = wire
      BY DEF WatchInv, TypeOK
    <2>2. Tally(wire, RequestsFor(t)) \in Nat /\ Tally(inbox', AnswersFor(t)) \in Nat
      BY <1>1, <2>1, HitsFinite
    <2>3. states[t].outstanding = Tally(wire, RequestsFor(t)) + Tally(inbox, AnswersFor(t))
      BY CountsNow DEF Due
    <2> QED
      BY <1>1, <2>1, <2>2, <2>3 DEF Due
  <1>5. AnswersCounted'
    BY <1>1, <1>3, <1>4, CountsFollow DEF TypeOK
  <1>6. StreamQuiet'
    BY <1>1 DEF StreamQuiet
  <1> QED
    BY <1>1, <1>3, <1>5, <1>6 DEF WatchInv, AssertionsHold, StreamSound

LEMMA ReceiveAnswerKeeps ==
    ASSUME WatchInv, ReceiveAdded \/ ReceiveRemoved
    PROVE  WatchInv'
  <1> DEFINE t == Head(inbox).target
  <1>1. PICK type \in {"Added", "Removed"} :
            Received(type) /\ states' = [states EXCEPT ![t] = IF type = "Added" THEN Acknowledged(@)
                                                             ELSE Dropped(@)]
    BY DEF ReceiveAdded, ReceiveRemoved
  <1>2. UNCHANGED <<wire, disk, token, current, stream, resets, outlived>>
    BY DEF ReceiveAdded, ReceiveRemoved
  <1>3. Head(inbox) \in Message /\ Head(inbox).type = type
    BY <1>1, ReceivedSound
  <1>4. t \in Targets /\ \A x \in Targets : Head(inbox) \in AnswersFor(x) <=> x = t
    BY <1>3 DEF Message, AnswersFor
  <1> HIDE DEF t
  <1> DEFINE s == IF type = "Added" THEN Acknowledged(states[t]) ELSE Dropped(states[t])
  <1>5. /\ states \in [Targets -> TargetState] /\ states[t] \in TargetState
        /\ \A x \in Targets : states[x].outstanding \in Int
    BY <1>4 DEF WatchInv, TypeOK, TargetState
  <1>6. /\ s \in TargetState /\ s.outstanding = states[t].outstanding - 1
        /\ states[t].outstanding = 1 => s.changes = NoChanges
    BY <1>5, AcknowledgedSound, DroppedSound
  <1>7. states' = [states EXCEPT ![t] = s]
    BY <1>1
  <1> HIDE DEF s
  <1>8. /\ states' \in [Targets -> TargetState] /\ states'[t] = s
        /\ \A x \in Targets \ {t} : states'[x] = states[x]
    BY <1>4, <1>5, <1>6, <1>7
  <1>9. \A x \in Targets : states'[x].outstanding =
            states[x].outstanding - (IF Head(inbox) \in AnswersFor(x) THEN 1 ELSE 0)
    BY <1>4, <1>5, <1>6, <1>8
  <1>10. ChangesAsserted'
    <2> SUFFICES ASSUME NEW x \in Targets, IsActive(x)'
                 PROVE  Changed(states'[x], "modified") \cup Changed(states'[x], "removed")
                            \subseteq keys'[x]
      BY DEF ChangesAsserted
    <2>1. UNCHANGED <<listening, keys>>
      BY <1>1, <1>2 DEF Received, disk
    <2>2. CASE x = t
      <3>1. states[t].outstanding = 1
        BY <1>5, <1>6, <1>8, <2>2 DEF IsActive
      <3> QED
        BY <1>4, <1>6, <1>8, <2>2, <3>1 DEF Changed, NoChanges
    <2>3. CASE x # t
      BY <1>8, <2>1, <2>3 DEF WatchInv, AssertionsHold, ChangesAsserted, IsActive
    <2> QED
      BY <2>2, <2>3
  <1>11. resets' \subseteq Targets /\ outlived' \subseteq Targets
    BY <1>2 DEF WatchInv, TypeOK
  <1> QED
    BY <1>1, <1>2, <1>8, <1>9, <1>10, <1>11, ReceivedKeeps

LEMMA ReceiveCurrentKeeps ==
    ASSUME WatchInv, ReceiveCurrent
    PROVE  WatchInv'
  <1> DEFINE t == Head(inbox).target
  <1>1. Received("Current") /\ UNCHANGED <<wire, disk, token, current, stream, resets, outlived>>
        /\ states' = IF IsActive(t) THEN [states EXCEPT ![t].current = TRUE] ELSE states
    BY DEF ReceiveCurrent
  <1>2. Head(inbox) \in Message /\ Head(inbox).type = "Current"
    BY <1>1, ReceivedSound
  <1>3. t \in Targets /\ \A x \in Targets : Head(inbox) \notin AnswersFor(x)
    BY <1>2 DEF Message, AnswersFor
  <1> HIDE DEF t
  <1>4. states \in [Targets -> TargetState] /\ states[t] \in TargetState
    BY <1>3 DEF WatchInv, TypeOK
  <1>5. [states[t] EXCEPT !.current = TRUE] \in TargetState
        /\ [states[t] EXCEPT !.current = TRUE].outstanding = states[t].outstanding
        /\ [states[t] EXCEPT !.current = TRUE].changes = states[t].changes
    BY <1>4 DEF TargetState
  <1>6. /\ states' \in [Targets -> TargetState]
        /\ \A x \in Targets : states'[x].outstanding = states[x].outstanding
                              /\ states'[x].changes = states[x].changes
    <2>1. CASE IsActive(t)
      <3>1. states' = [states EXCEPT ![t] = [states[t] EXCEPT !.current = TRUE]]
        BY <1>1, <2>1
      <3> DEFINE s == [states[t] EXCEPT !.current = TRUE]
      <3>2. s \in TargetState /\ s.outstanding = states[t].outstanding /\ s.changes = states[t].changes
        BY <1>5
      <3>3. states' = [states EXCEPT ![t] = s]
        BY <3>1
      <3> HIDE DEF s
      <3> QED
        BY <1>3, <1>4, <3>2, <3>3
    <2>2. CASE ~IsActive(t)
      BY <1>1, <1>4, <2>2
    <2> QED
      BY <2>1, <2>2
  <1>7. \A x \in Targets : states[x].outstanding \in Int
    BY DEF WatchInv, TypeOK, TargetState
  <1>8. \A x \in Targets : states'[x].outstanding =
            states[x].outstanding - (IF Head(inbox) \in AnswersFor(x) THEN 1 ELSE 0)
    BY <1>3, <1>6, <1>7
  <1>9. ChangesAsserted'
    BY <1>1, <1>6 DEF WatchInv, AssertionsHold, ChangesAsserted, IsActive, Changed, Received, disk
  <1>10. resets' \subseteq Targets /\ outlived' \subseteq Targets
    BY <1>1 DEF WatchInv, TypeOK
  <1> QED
    BY <1>1, <1>6, <1>8, <1>9, <1>10, ReceivedKeeps

LEMMA ReceiveDocumentKeeps ==
    ASSUME WatchInv, ReceiveDocument
    PROVE  WatchInv'
  <1> DEFINE m == Head(inbox)
             k == m.key
             told(t) == IF t \in m.updated THEN AddedChange(t, k) ELSE RemovedChange(t, k)
             s(t) == [states[t] EXCEPT !.changes[k] = told(t)]
             heard == {t \in Targets : IsActive(t) /\ t \in m.updated \cup m.removed}
  <1>1. Received("Document") /\ UNCHANGED <<wire, disk, token, current, stream, resets, outlived>>
        /\ states' = [t \in Targets |-> IF t \in heard THEN s(t) ELSE states[t]]
    BY DEF ReceiveDocument
  <1>2. m \in Message /\ m.type = "Document"
    BY <1>1, ReceivedSound
  <1>3. k \in Keys /\ \A x \in Targets : m \notin AnswersFor(x)
    BY <1>2 DEF Message, AnswersFor
  <1>4. ASSUME NEW t \in Targets
        PROVE  /\ told(t) \in ChangeType
               /\ told(t) \in {"modified", "removed"} => k \in keys[t]
    BY DEF AddedChange, RemovedChange, ChangeType
  <1> HIDE DEF m, k, told, heard
  <1>5. ASSUME NEW t \in Targets
        PROVE  /\ states[t] \in TargetState /\ s(t) \in TargetState
               /\ s(t).outstanding = states[t].outstanding
               /\ s(t).changes = [states[t].changes EXCEPT ![k] = told(t)]
    <2>1. states[t] \in TargetState /\ states[t].changes \in [Keys -> ChangeType]
      BY DEF WatchInv, TypeOK, TargetState
    <2>2. [states[t].changes EXCEPT ![k] = told(t)] \in [Keys -> ChangeType]
      BY <1>4, <2>1
    <2> QED
      BY <2>1, <2>2 DEF TargetState
  <1> HIDE DEF s
  <1>6. /\ states' \in [Targets -> TargetState]
        /\ \A x \in Targets : states'[x].outstanding = states[x].outstanding
    BY <1>1, <1>5
  <1>7. \A x \in Targets : states'[x].outstanding =
            states[x].outstanding - (IF m \in AnswersFor(x) THEN 1 ELSE 0)
    <2>1. \A x \in Targets : states[x].outstanding \in Int
      BY DEF WatchInv, TypeOK, TargetState
    <2> QED
      BY <1>3, <1>6, <2>1
  <1>8. ChangesAsserted'
    <2> SUFFICES ASSUME NEW x \in Targets, IsActive(x)', NEW j \in Keys,
                        states'[x].changes[j] \in {"modified", "removed"}
                 PROVE  j \in keys'[x]
      BY DEF ChangesAsserted, Changed
    <2>1. keys' = keys /\ IsActive(x)
      BY <1>1, <1>6 DEF Received, disk, IsActive
    <2>2. states[x].changes[j] \in {"modified", "removed"} => j \in keys[x]
      BY <2>1 DEF WatchInv, AssertionsHold, ChangesAsserted, Changed
    <2>3. CASE x \in heard
      <3>1. states'[x].changes = [states[x].changes EXCEPT ![k] = told(x)]
        BY <1>1, <1>5, <2>3
      <3>2. states[x].changes \in [Keys -> ChangeType]
        BY <1>5 DEF TargetState
      <3>3. states'[x].changes[j] = IF j = k THEN told(x) ELSE states[x].changes[j]
        BY <3>1, <3>2
      <3> QED
        BY <1>4, <2>1, <2>2, <3>3
    <2>4. CASE x \notin heard
      BY <1>1, <2>1, <2>2, <2>4
    <2> QED
      BY <2>3, <2>4
  <1>9. resets' \subseteq Targets /\ outlived' \subseteq Targets
    BY <1>1 DEF WatchInv, TypeOK
  <1> QED
    BY <1>1, <1>6, <1>7, <1>8, <1>9, ReceivedKeeps DEF m

LEMMA ReceiveFilterKeeps ==
    ASSUME WatchInv, ReceiveFilter
    PROVE  WatchInv'
  <1> DEFINE t == Head(inbox).target
             mismatch == IsActive(t) /\ Count(t) # Head(inbox).count
  <1>1. Received("Filter") /\ UNCHANGED <<wire, disk, token, current, stream, outlived>>
        /\ states' = (IF mismatch THEN [states EXCEPT ![t] = Reset(t)] ELSE states)
        /\ resets' = (IF mismatch THEN resets \cup {t} ELSE resets)
    BY DEF ReceiveFilter
  <1>2. Head(inbox) \in Message /\ Head(inbox).type = "Filter"
    BY <1>1, ReceivedSound
  <1>3. t \in Targets /\ \A x \in Targets : Head(inbox) \notin AnswersFor(x)
    BY <1>2 DEF Message, AnswersFor
  <1>4. mismatch => IsActive(t)
    OBVIOUS
  <1> HIDE DEF t, mismatch
  <1>5. /\ Reset(t) \in TargetState /\ Reset(t).outstanding = 0
        /\ \A j \in Keys : Reset(t).changes[j] \in {"modified", "removed"} => j \in keys[t]
    BY BlankTyped DEF Reset, RemovedChange, Blank, TargetState, ChangeType
  <1>6. /\ states \in [Targets -> TargetState] /\ resets \subseteq Targets
        /\ \A x \in Targets : states[x].outstanding \in Int
    BY DEF WatchInv, TypeOK, TargetState
  <1>7. /\ states' \in [Targets -> TargetState] /\ resets' \subseteq Targets
        /\ outlived' \subseteq Targets
    BY <1>1, <1>3, <1>5, <1>6 DEF WatchInv, TypeOK
  <1>8. \A x \in Targets : states'[x].outstanding = states[x].outstanding
    BY <1>1, <1>3, <1>4, <1>5, <1>6 DEF IsActive
  <1>9. ChangesAsserted'
    <2> SUFFICES ASSUME NEW x \in Targets, IsActive(x)', NEW j \in Keys,
                        states'[x].changes[j] \in {"modified", "removed"}
                 PROVE  j \in keys'[x]
      BY DEF ChangesAsserted, Changed
    <2>1. keys' = keys /\ IsActive(x)
      BY <1>1, <1>8 DEF Received, disk, IsActive
    <2>2. states[x].changes[j] \in {"modified", "removed"} => j \in keys[x]
      BY <2>1 DEF WatchInv, AssertionsHold, ChangesAsserted, Changed
    <2>3. states'[x] = states[x] \/ (x = t /\ states'[x] = Reset(t))
      BY <1>1, <1>3, <1>6
    <2> QED
      BY <1>5, <2>1, <2>2, <2>3
  <1>10. \A x \in Targets : states'[x].outstanding =
            states[x].outstanding - (IF Head(inbox) \in AnswersFor(x) THEN 1 ELSE 0)
    BY <1>3, <1>6, <1>8
  <1> QED
    BY <1>1, <1>7, <1>9, <1>10, ReceivedKeeps

\* The snapshot takes what is pending, and asks for the mismatched targets anew.
LEMMA RaiseSnapshotKeeps ==
    ASSUME WatchInv, Received("Snapshot"), UNCHANGED stream,
           NEW v \in 0..Len(results), RaiseWatchSnapshot(v), outlived' \subseteq Targets
    PROVE  WatchInv'
  <1> DEFINE told == {t \in Targets : IsActive(t)}
             anew == resets \cap listening
             u == ListenedAgain(SetToSeq(anew))
             base(t) == IF t \in told THEN [states[t] EXCEPT !.changes = NoChanges] ELSE states[t]
             more(t) == IF t \in anew THEN 2 ELSE 0
  <1>1. /\ inbox' \in Seq(Message) /\ SnapshotsSound' /\ StreamSound' /\ stream.state = "Open"
        /\ \A t \in Targets : Tally(inbox, AnswersFor(t)) = Tally(inbox', AnswersFor(t)) +
                                  IF Head(inbox) \in AnswersFor(t) THEN 1 ELSE 0
        /\ Head(inbox) \in Message /\ Head(inbox).type = "Snapshot"
    BY ReceivedSound
  <1>2. UNCHANGED <<results, serving, running, listening>>
    BY DEF Received
  <1>3. anew \in SUBSET Targets /\ IsFiniteSet(anew) /\ v \in Nat
    <2>1. anew \in SUBSET Targets
      BY DEF WatchInv, TypeOK
    <2> QED
      BY <2>1, FiniteAssumption, FS_Subset
  <1>4. /\ wire' = wire \o u /\ wire \in Seq(Request)
        /\ u \in Seq(Request) /\ \A t \in Targets : Tally(u, RequestsFor(t)) = more(t)
    <2>1. wire' = wire \o u
      BY DEF RaiseWatchSnapshot
    <2>2. wire \in Seq(Request)
      BY DEF WatchInv, TypeOK
    <2> HIDE DEF anew
    <2> QED
      BY <1>3, <2>1, <2>2, AgainTallied
  <1>5. states' = [t \in Targets |-> Requested(base(t), more(t))]
    BY DEF RaiseWatchSnapshot
  <1>6. /\ keys' = [t \in Targets |-> IF t \in told THEN (keys[t] \ Changed(states[t], "removed"))
                                                             \cup Changed(states[t], "added")
                                       ELSE keys[t]]
        /\ current' \subseteq current \cup told
        /\ resets' = {} /\ snapshot' = v
    BY DEF RaiseWatchSnapshot
  <1>7. /\ saved' \in [Targets -> 0..Len(results)]
        /\ token' \in [Targets -> [store : 0..Len(results), remote : 0..Len(results)]]
    <2>1. Len(results) \in Nat /\ 0 \in 0..Len(results)
      BY DEF WatchInv, TypeOK
    <2>2. \A t \in Targets : /\ saved[t] \in 0..Len(results) /\ token[t].store \in 0..Len(results)
                             /\ token[t].remote \in 0..Len(results)
      BY DEF WatchInv, TypeOK
    <2>3. saved' \in [Targets -> 0..Len(results)]
      BY <2>2 DEF RaiseWatchSnapshot
    <2>4. token' = [t \in Targets |->
                      [store |-> IF t \in told THEN v ELSE token[t].store,
                       remote |-> IF t \in anew THEN 0
                                  ELSE IF t \in told THEN v ELSE token[t].remote]]
      BY DEF RaiseWatchSnapshot
    <2> HIDE DEF told, anew
    <2> QED
      BY <2>1, <2>2, <2>3, <2>4
  <1>8. told \subseteq listening /\ told \subseteq Targets
        /\ \A t \in Targets : t \in told <=> t \in listening /\ states[t].outstanding = 0
    BY DEF IsActive
  <1> HIDE DEF told, anew, u, more
  <1>9. keys' \in [Targets -> SUBSET Keys]
    BY <1>6 DEF WatchInv, TypeOK, Changed
  <1>10. ASSUME NEW t \in Targets
         PROVE  /\ base(t) \in TargetState /\ base(t).outstanding = states[t].outstanding
                /\ base(t).changes = IF t \in told THEN NoChanges ELSE states[t].changes
    <2>1. states[t] \in TargetState
      BY DEF WatchInv, TypeOK
    <2>2. NoChanges \in [Keys -> ChangeType]
      BY DEF NoChanges, ChangeType
    <2> QED
      BY <2>1, <2>2 DEF TargetState
  <1> HIDE DEF base
  <1>11. ASSUME NEW t \in Targets
         PROVE  /\ states'[t] \in TargetState
                /\ states'[t].outstanding = states[t].outstanding + more(t)
                /\ states'[t].changes = base(t).changes
    <2>1. more(t) \in Int
      BY DEF more
    <2>2. states'[t] = Requested(base(t), more(t))
      BY <1>5
    <2>3. base(t) \in TargetState /\ base(t).outstanding = states[t].outstanding
      BY <1>10
    <2> QED
      BY <2>1, <2>2, <2>3, RequestedSound
  <1>12. wire' \in Seq(Request)
    BY <1>4
  <1>13. TypeOK'
    <2>1. states' \in [Targets -> TargetState]
      BY <1>5, <1>11
    <2>2. current' \subseteq listening'
      BY <1>2, <1>6, <1>8 DEF WatchInv, TypeOK
    <2> QED
      BY <1>1, <1>2, <1>6, <1>7, <1>9, <1>12, <2>1, <2>2 DEF WatchInv, TypeOK, StreamSound
  <1>14. AnswersCounted'
    <2>1. ASSUME NEW t \in Targets PROVE states'[t].outstanding = Due(wire', inbox', t)
      <3>1. Tally(wire', RequestsFor(t)) = Tally(wire, RequestsFor(t)) + more(t)
        BY <1>4, TallyJoined
      <3>2. Tally(inbox', AnswersFor(t)) = Tally(inbox, AnswersFor(t))
        <4>1. Head(inbox) \notin AnswersFor(t)
          BY <1>1 DEF AnswersFor
        <4>2. Tally(inbox', AnswersFor(t)) \in Nat
          BY <1>1, HitsFinite
        <4> QED
          BY <1>1, <4>1, <4>2
      <3>3. states[t].outstanding = Tally(wire, RequestsFor(t)) + Tally(inbox, AnswersFor(t))
        BY CountsNow DEF Due
      <3>4. /\ Tally(wire, RequestsFor(t)) \in Nat /\ Tally(inbox', AnswersFor(t)) \in Nat
            /\ more(t) \in Nat
        BY <1>1, <1>4, HitsFinite DEF more
      <3> QED
        BY <1>11, <3>1, <3>2, <3>3, <3>4 DEF Due
    <2> QED
      BY <1>1, <1>12, <2>1, CountsFollow
  <1>15. ChangesAsserted'
    <2> SUFFICES ASSUME NEW t \in Targets, IsActive(t)'
                 PROVE  Changed(states'[t], "modified") \cup Changed(states'[t], "removed")
                            \subseteq keys'[t]
      BY DEF ChangesAsserted
    <2>1. t \in told
      <3>1. states[t].outstanding \in Nat
        BY CountsNow
      <3> QED
        BY <1>2, <1>8, <1>11, <3>1 DEF IsActive, more
    <2> QED
      BY <1>10, <1>11, <2>1 DEF Changed, NoChanges
  <1>16. StreamQuiet'
    BY <1>1 DEF StreamQuiet
  <1> QED
    BY <1>1, <1>13, <1>14, <1>15, <1>16 DEF WatchInv, AssertionsHold, StreamSound

LEMMA ReceiveSnapshotKeeps ==
    ASSUME WatchInv, ReceiveSnapshot
    PROVE  WatchInv'
  <1> DEFINE v == Head(inbox).version
  <1>1. Received("Snapshot") /\ UNCHANGED stream
    BY DEF ReceiveSnapshot
  <1>2. v \in 0..Len(results) /\ Head(inbox).type = "Snapshot"
    BY <1>1, ReceivedSound
  <1>3. CASE v >= snapshot
    <2>1. RaiseWatchSnapshot(v) /\ outlived' \subseteq Targets
      BY <1>3 DEF ReceiveSnapshot, WatchInv, TypeOK
    <2> HIDE DEF v
    <2> QED
      BY <1>1, <1>2, <2>1, RaiseSnapshotKeeps
  <1>4. CASE ~(v >= snapshot)
    <2>1. UNCHANGED <<wire, disk, token, current, states, resets>>
      BY <1>4 DEF ReceiveSnapshot
    <2>2. /\ states' \in [Targets -> TargetState] /\ resets' \subseteq Targets
          /\ outlived' \subseteq Targets /\ \A t \in Targets : states[t].outstanding \in Int
      BY <2>1 DEF ReceiveSnapshot, WatchInv, TypeOK, TargetState
    <2>3. \A t \in Targets : states'[t].outstanding =
              states[t].outstanding - (IF Head(inbox) \in AnswersFor(t) THEN 1 ELSE 0)
      <3>1. \A t \in Targets : Head(inbox) \notin AnswersFor(t)
        BY <1>2 DEF AnswersFor
      <3> QED
        BY <2>1, <2>2, <3>1
    <2>4. ChangesAsserted'
      BY <1>1, <2>1 DEF WatchInv, AssertionsHold, ChangesAsserted, IsActive, Changed, Received, disk
    <2> QED
      BY <1>1, <2>1, <2>2, <2>3, <2>4, ReceivedKeeps
  <1> QED
    BY <1>3, <1>4

-----------------------------------------------------------------------------
LEMMA InitSound == Init => WatchInv
  <1> SUFFICES ASSUME Init PROVE WatchInv
    OBVIOUS
  <1>1. TypeOK
    <2>1. results \in Seq([Targets -> SUBSET Keys]) /\ Len(results) = 1
      <3>1. PICK r \in [Targets -> SUBSET Keys] : results = <<r>>
        BY DEF Init
      <3> QED
        BY <3>1
    <2>2. 0 \in 0..Len(results)
      BY <2>1
    <2>3. NoToken \in [store : 0..Len(results), remote : 0..Len(results)]
      BY <2>2 DEF NoToken
    <2>4. states \in [Targets -> TargetState]
      BY BlankTyped DEF Init
    <2>5. online \in [state : OnlineState, failing : BOOLEAN, timer : BOOLEAN]
      BY DEF Init, Updated, OnlineState
    <2>6. wire \in Seq(Request) /\ inbox \in Seq(Message)
      BY DEF Init
    <2>7. stream \in [state : StreamState, idle : BOOLEAN]
      BY DEF Init, NewStream, StreamState
    <2>8. serving \in [Targets -> [on : BOOLEAN, at : Nat, added : Nat, current : BOOLEAN,
                                   first : BOOLEAN]]
      BY DEF Init, Off
    <2>9. /\ saved \in [Targets -> 0..Len(results)] /\ snapshot \in 0..Len(results)
          /\ token \in [Targets -> [store : 0..Len(results), remote : 0..Len(results)]]
      BY <2>2, <2>3 DEF Init
    <2>10. keys \in [Targets -> SUBSET Keys]
      BY DEF Init
    <2> QED
      BY <2>1, <2>4, <2>5, <2>6, <2>7, <2>8, <2>9, <2>10 DEF Init, TypeOK
  <1>2. AnswersCounted
    <2>1. ASSUME NEW t \in Targets PROVE states[t].outstanding = Answering(t)
      <3>1. wire = << >> /\ inbox = << >> /\ states[t].outstanding = 0
        BY DEF Init, NoTargets, Blank
      <3>2. wire \in Seq(Request) /\ inbox \in Seq(Message)
        BY <1>1 DEF TypeOK
      <3>3. Tally(wire, RequestsFor(t)) = 0 /\ Tally(inbox, AnswersFor(t)) = 0
        BY <3>1, TallyNone
      <3>4. Answering(t) = Due(wire, inbox, t)
        BY <3>2, DueTallied DEF Answering
      <3> QED
        BY <3>1, <3>3, <3>4 DEF Due
    <2> QED
      BY <2>1 DEF AnswersCounted
  <1>3. AssertionsHold
    BY DEF Init, AssertionsHold, StreamsAsserted, ChangesAsserted, IsActive, NewStream, Updated
  <1>4. StreamQuiet /\ SnapshotsSound
    BY DEF Init, StreamQuiet, SnapshotsSound
  <1> QED
    BY <1>1, <1>2, <1>3, <1>4 DEF WatchInv

LEMMA NextSound == WatchInv /\ [Next]_vars => WatchInv'
  <1> SUFFICES ASSUME WatchInv, [Next]_vars PROVE WatchInv'
    OBVIOUS
  <1>1. ASSUME NEW t \in Targets, Listen(t) \/ StopListening(t) PROVE WatchInv'
    BY <1>1, ListenKeeps, StopListeningKeeps
  <1>2. CASE WorkerQueue
    <2>1. CASE Receive
      BY <2>1, ReceiveAnswerKeeps, ReceiveCurrentKeeps, ReceiveDocumentKeeps, ReceiveFilterKeeps,
         ReceiveSnapshotKeeps DEF Receive
    <2> QED
      BY <1>2, <2>1, BackoffElapsesKeeps, OnlineTimeoutKeeps, DisconnectionKeeps, StartKeeps
         DEF WorkerQueue
  <1>3. CASE StreamOpens
    BY <1>3, StreamOpensKeeps
  <1>4. CASE Trouble
    BY <1>4, DisconnectionKeeps DEF Trouble
  <1>5. CASE ResultsChange
    BY <1>5, ResultsChangeKeeps
  <1>6. CASE ServeRequest
    BY <1>6, ServeRequestKeeps
  <1>7. ASSUME NEW v \in 1..MaxVersions, ServerSends(v) PROVE WatchInv'
    BY <1>7, ServerSendsKeeps
  <1>8. CASE UNCHANGED vars
    <2> USE <1>8 DEF vars, connection, disk, targets, aggregator, counters
    <2>1. TypeOK' /\ StreamQuiet' /\ SnapshotsSound'
      BY DEF WatchInv, TypeOK, StreamQuiet, SnapshotsSound
    <2>2. AnswersCounted'
      BY DEF WatchInv, AnswersCounted, Answering
    <2>3. AssertionsHold'
      BY DEF WatchInv, AssertionsHold, StreamsAsserted, ChangesAsserted, IsActive, Changed
    <2> QED
      BY <2>1, <2>2, <2>3 DEF WatchInv
  <1> QED
    BY <1>1, <1>2, <1>3, <1>4, <1>5, <1>6, <1>7, <1>8 DEF Next

\* Every state the client reaches is sound: WatchInv is inductive.
THEOREM WatchInvariance == Spec => []WatchInv
  <1> QED
    BY InitSound, NextSound, PTL DEF Spec

\* Every variable keeps its type, whatever is listened to, told, lost or restarted.
THEOREM WatchTypeCorrect == Spec => []TypeOK
  <1>1. WatchInv => TypeOK
    BY DEF WatchInv
  <1> QED
    BY <1>1, WatchInvariance, PTL

\* The answers the client counts for a target (RecordPendingTargetRequest) are those
\* on their way: it never believes the messages of an earlier listen, nor ignores
\* those of the last for ever.
THEOREM AnswersAreCounted == Spec => []AnswersCounted
  <1>1. WatchInv => AnswersCounted
    BY DEF WatchInv
  <1> QED
    BY <1>1, WatchInvariance, PTL

\* No HARD_ASSERT of the watch stream, the online state or the view fails.
THEOREM WatchAssertionsNeverFail == Spec => []AssertionsHold
  <1>1. WatchInv => AssertionsHold
    BY DEF WatchInv
  <1> QED
    BY <1>1, WatchInvariance, PTL

-----------------------------------------------------------------------------
(***************************************************************************)
(* Views in sync are exact.  What follows is about what a target's news on *)
(* their way will make of the documents the client has of it: E are the    *)
(* documents known, b the messages, s what the backend knows of the        *)
(* target.  The messages before the last answer are of earlier listens.    *)
(***************************************************************************)
Answers(b, t, i) == b[i].type \in {"Added", "Removed"} /\ b[i].target = t
Late(b, t, i) == i \in DOMAIN b /\ \A j \in DOMAIN b : Answers(b, t, j) => j < i
Mentions(b, t, k, i) ==
    /\ Late(b, t, i)
    /\ b[i].type = "Document" /\ b[i].key = k /\ t \in b[i].updated \cup b[i].removed
FilterFor(b, t, i) == Late(b, t, i) /\ b[i].type = "Filter" /\ b[i].target = t
SnapshotFor(b, t, i) == Late(b, t, i) /\ b[i].type = "Snapshot"

\* The documents after the first n messages: each is there if the last message about
\* it says so, or if there is none and it was there before.
LastMention(b, t, k, n, j) ==
    j \in 1..n /\ Mentions(b, t, k, j) /\ \A l \in 1..n : Mentions(b, t, k, l) => l <= j
After(b, t, E, n) ==
    {k \in Keys : \/ \E j \in 1..n : LastMention(b, t, k, n, j) /\ t \in b[j].updated
                  \/ k \in E /\ \A j \in 1..n : ~Mentions(b, t, k, j)}

\* What a target consists of at version v of the results r; nothing is known at 0.
Base(r, t, v) == IF v = 0 THEN {} ELSE r[v][t]

\* After a listen nothing has been sent, and the documents are those of its token, or
\* none.  Then, unless an existence filter on its way does not match, they are those
\* of each snapshot when it comes, and of the last one in the end.
Fresh(b, t, E, s, r) ==
    /\ E \in {{}, Base(r, t, s.at)}
    /\ \A i \in DOMAIN b : Late(b, t, i) => b[i].type \in {"Added", "Removed"}
Matches(b, t, E) == \A i \in DOMAIN b : FilterFor(b, t, i) => Cardinality(After(b, t, E, i)) = b[i].count
Right(b, t, E, s, r) ==
    /\ \A i \in DOMAIN b : SnapshotFor(b, t, i) => After(b, t, E, i) = r[b[i].version][t]
    /\ After(b, t, E, Len(b)) = r[s.at][t]
NewsSound(b, t, E, s, r) ==
    /\ s.on /\ s.at \in 0..Len(r)
    /\ \A i, j \in DOMAIN b : SnapshotFor(b, t, i) /\ FilterFor(b, t, j) => j < i
    /\ s.first => Fresh(b, t, E, s, r)
    /\ ~s.first => s.at > 0 /\ (Matches(b, t, E) => Right(b, t, E, s, r))

\* From f on there are filters up to a snapshot.
FiltersFrom(b, f) ==
    \E i \in DOMAIN b : i >= f /\ b[i].type = "Snapshot" /\ \A j \in f..(i - 1) : b[j].type = "Filter"
BatchesSound(b) ==
    \A i \in DOMAIN b : /\ b[i].type = "Filter" => FiltersFrom(b, i)
                        /\ b[i].type = "Snapshot" => b[i].version > 0

\* The documents a target has once what is pending takes effect.
Pending(s, K) == (K \ Changed(s, "removed")) \cup Changed(s, "added")
Known(s, K) == IF s.outstanding = 0 THEN Pending(s, K) ELSE K

\* What is kept of a target: the documents of its tokens, or none.
DiskSound(t) ==
    /\ keys[t] \in {{}, Base(results, t, saved[t])}
    /\ t \in listening => /\ keys[t] \in {{}, Base(results, t, token[t].store)}
                          /\ keys[t] \in {{}, Base(results, t, token[t].remote)}
    /\ t \in current => token[t].remote = 0 \/ Exact(t)

Asked(w, t) == \E i \in DOMAIN w : w[i].target = t
LastAsked(w, t, i) == i \in DOMAIN w /\ w[i].target = t /\ \A j \in DOMAIN w : w[j].target = t => j <= i

\* What is on the stream of a target: what is pending of it is new; the last request
\* asks from its token; a reset takes effect alone; other news are sound.
AddedAnew(t) == states[t].outstanding = 0 => Changed(states[t], "added") \cap keys[t] = {}
AskedFromToken(t) == \A i \in DOMAIN wire : LastAsked(wire, t, i) => wire[i] = WatchRequest(t, token[t].remote)
ResetAlone(t) ==
    t \in resets => /\ states[t].outstanding = 0 /\ Known(states[t], keys[t]) = {}
                    /\ FiltersFrom(inbox, 1)
ToldSoundly(t) ==
    t \notin resets /\ ~Asked(wire, t) =>
        NewsSound(inbox, t, Known(states[t], keys[t]), serving[t], results)
LineSound(t) == AddedAnew(t) /\ AskedFromToken(t) /\ ResetAlone(t) /\ ToldSoundly(t)

TargetSound(t) == DiskSound(t) /\ (stream.state = "Open" /\ t \in listening => LineSound(t))
TargetsSound == \A t \in Targets \ outlived : TargetSound(t)

ExactInv == WatchInv /\ BatchesSound(inbox) /\ TargetsSound

-----------------------------------------------------------------------------
(***************************************************************************)
(* One message less.                                                       *)
(***************************************************************************)
LEMMA TailLate ==
    ASSUME NEW b \in Seq(Message), b # << >>, NEW t, NEW i \in Nat \ {0}
    PROVE  Late(Tail(b), t, i) <=> Late(b, t, i + 1)
  <1> DEFINE u == Tail(b)
  <1>1. /\ Len(b) \in Nat /\ DOMAIN b = 1..Len(b) /\ DOMAIN u = 1..(Len(b) - 1)
        /\ \A j \in DOMAIN u : u[j] = b[j + 1]
    OBVIOUS
  <1> HIDE DEF u
  <1>2. ASSUME Late(u, t, i) PROVE Late(b, t, i + 1)
    <2>1. i + 1 \in DOMAIN b
      BY <1>1, <1>2 DEF Late
    <2>2. ASSUME NEW j \in DOMAIN b, Answers(b, t, j) PROVE j < i + 1
      <3>1. CASE j = 1
        BY <3>1
      <3>2. CASE j # 1
        <4>1. j - 1 \in DOMAIN u /\ u[j - 1] = b[j]
          BY <1>1, <3>2
        <4>2. Answers(u, t, j - 1)
          BY <2>2, <4>1 DEF Answers
        <4>3. j - 1 < i
          BY <1>2, <4>1, <4>2 DEF Late
        <4> QED
          BY <1>1, <4>3
      <3> QED
        BY <3>1, <3>2
    <2> QED
      BY <2>1, <2>2 DEF Late
  <1>3. ASSUME Late(b, t, i + 1) PROVE Late(u, t, i)
    <2>1. i \in DOMAIN u
      BY <1>1, <1>3 DEF Late
    <2>2. ASSUME NEW j \in DOMAIN u, Answers(u, t, j) PROVE j < i
      <3>1. j + 1 \in DOMAIN b /\ Answers(b, t, j + 1)
        BY <1>1, <2>2 DEF Answers
      <3>2. j + 1 < i + 1
        BY <1>3, <3>1 DEF Late
      <3> QED
        BY <1>1, <3>2
    <2> QED
      BY <2>1, <2>2 DEF Late
  <1> QED
    BY <1>2, <1>3 DEF u

LEMMA TailOf ==
    ASSUME NEW b \in Seq(Message), b # << >>, NEW i \in Nat \ {0}, i + 1 \in DOMAIN b
    PROVE  i \in DOMAIN Tail(b) /\ Tail(b)[i] = b[i + 1]
  OBVIOUS

LEMMA TailNews ==
    ASSUME NEW b \in Seq(Message), b # << >>, NEW t, NEW i \in Nat \ {0}
    PROVE  /\ \A k : Mentions(Tail(b), t, k, i) <=> Mentions(b, t, k, i + 1)
           /\ FilterFor(Tail(b), t, i) <=> FilterFor(b, t, i + 1)
           /\ SnapshotFor(Tail(b), t, i) <=> SnapshotFor(b, t, i + 1)
  <1>1. Late(Tail(b), t, i) <=> Late(b, t, i + 1)
    BY TailLate
  <1>2. Late(b, t, i + 1) => Tail(b)[i] = b[i + 1]
    BY TailOf DEF Late
  <1> QED
    BY <1>1, <1>2 DEF Mentions, FilterFor, SnapshotFor

LEMMA AfterTail ==
    ASSUME NEW b \in Seq(Message), b # << >>, NEW t, NEW E, NEW n \in Nat
    PROVE  After(Tail(b), t, After(b, t, E, 1), n) = After(b, t, E, n + 1)
  <1> DEFINE u == Tail(b)
             F == After(b, t, E, 1)
  <1>1. ASSUME NEW k, NEW i \in 1..n PROVE Mentions(u, t, k, i) <=> Mentions(b, t, k, i + 1)
    BY TailNews
  <1>2. ASSUME NEW k, NEW i \in 1..n, Mentions(u, t, k, i) PROVE u[i] = b[i + 1]
    <2>1. i + 1 \in DOMAIN b
      BY <1>1, <1>2 DEF Mentions, Late
    <2> QED
      BY <2>1, TailOf
  <1> HIDE DEF u
  <1>3. ASSUME NEW k \in Keys
        PROVE  k \in F <=> IF Mentions(b, t, k, 1) THEN t \in b[1].updated ELSE k \in E
    <2>1. \A j : j \in 1..1 <=> j = 1
      OBVIOUS
    <2>2. \A j : LastMention(b, t, k, 1, j) <=> j = 1 /\ Mentions(b, t, k, 1)
      BY <2>1 DEF LastMention
    <2> QED
      BY <2>1, <2>2 DEF After
  <1> HIDE DEF F
  <1> SUFFICES ASSUME NEW k \in Keys
               PROVE  k \in After(u, t, F, n) <=> k \in After(b, t, E, n + 1)
    BY DEF After, u, F
  <1>4. CASE \E l \in 1..n : Mentions(u, t, k, l)
    <2>1. PICK l \in 1..n : Mentions(u, t, k, l)
      BY <1>4
    <2>2. Mentions(b, t, k, l + 1) /\ l + 1 \in 1..(n + 1) /\ l + 1 > 1
      BY <1>1, <2>1
    <2>3. ASSUME NEW j \in 1..n, LastMention(u, t, k, n, j), t \in u[j].updated
          PROVE  LastMention(b, t, k, n + 1, j + 1) /\ t \in b[j + 1].updated
      <3>1. Mentions(b, t, k, j + 1) /\ u[j] = b[j + 1]
        BY <1>1, <1>2, <2>3 DEF LastMention
      <3>2. ASSUME NEW i \in 1..(n + 1), Mentions(b, t, k, i) PROVE i <= j + 1
        <4>1. CASE i = 1
          BY <4>1
        <4>2. CASE i # 1
          <5>1. i - 1 \in 1..n /\ (i - 1) + 1 = i
            BY <4>2
          <5>2. Mentions(u, t, k, i - 1)
            BY <1>1, <3>2, <5>1
          <5>3. i - 1 <= j
            BY <2>3, <5>1, <5>2 DEF LastMention
          <5> QED
            BY <5>1, <5>3
        <4> QED
          BY <4>1, <4>2
      <3> QED
        BY <2>3, <3>1, <3>2 DEF LastMention
    <2>4. ASSUME NEW j \in 1..(n + 1), LastMention(b, t, k, n + 1, j), t \in b[j].updated
          PROVE  LastMention(u, t, k, n, j - 1) /\ t \in u[j - 1].updated /\ j - 1 \in 1..n
      <3>1. l + 1 <= j
        BY <2>2, <2>4 DEF LastMention
      <3>2. j - 1 \in 1..n /\ (j - 1) + 1 = j
        BY <3>1
      <3>3. Mentions(u, t, k, j - 1) /\ u[j - 1] = b[j]
        BY <1>1, <1>2, <2>4, <3>2 DEF LastMention
      <3>4. ASSUME NEW i \in 1..n, Mentions(u, t, k, i) PROVE i <= j - 1
        <4>1. Mentions(b, t, k, i + 1) /\ i + 1 \in 1..(n + 1)
          BY <1>1, <3>4
        <4>2. i + 1 <= j
          BY <2>4, <4>1 DEF LastMention
        <4> QED
          BY <4>2
      <3> QED
        BY <2>4, <3>2, <3>3, <3>4 DEF LastMention
    <2>5. k \in After(u, t, F, n) <=> \E j \in 1..n : LastMention(u, t, k, n, j) /\ t \in u[j].updated
      BY <2>1 DEF After
    <2>6. k \in After(b, t, E, n + 1) <=>
              \E j \in 1..(n + 1) : LastMention(b, t, k, n + 1, j) /\ t \in b[j].updated
      BY <2>2 DEF After
    <2>7. ASSUME k \in After(u, t, F, n) PROVE k \in After(b, t, E, n + 1)
      <3>1. PICK j \in 1..n : LastMention(u, t, k, n, j) /\ t \in u[j].updated
        BY <2>5, <2>7
      <3>2. j + 1 \in 1..(n + 1)
        OBVIOUS
      <3> QED
        BY <2>3, <2>6, <3>1, <3>2
    <2> QED
      BY <2>4, <2>5, <2>6, <2>7
  <1>5. CASE ~\E l \in 1..n : Mentions(u, t, k, l)
    <2>1. k \in After(u, t, F, n) <=> k \in F
      BY <1>5 DEF After, LastMention
    <2>2. ASSUME NEW i \in 1..(n + 1), Mentions(b, t, k, i) PROVE i = 1
      <3>1. SUFFICES ASSUME i # 1 PROVE FALSE
        OBVIOUS
      <3>2. i - 1 \in 1..n /\ (i - 1) + 1 = i
        BY <3>1
      <3> QED
        BY <1>1, <1>5, <2>2, <3>2
    <2>3. 1 \in 1..(n + 1)
      OBVIOUS
    <2>4. CASE Mentions(b, t, k, 1)
      <3>1. LastMention(b, t, k, n + 1, 1)
        BY <2>2, <2>3, <2>4 DEF LastMention
      <3>2. \A j \in 1..(n + 1) : LastMention(b, t, k, n + 1, j) => j = 1
        BY <2>2 DEF LastMention
      <3> QED
        BY <1>3, <2>1, <2>3, <2>4, <3>1, <3>2 DEF After
    <2>5. CASE ~Mentions(b, t, k, 1)
      <3>1. \A i \in 1..(n + 1) : ~Mentions(b, t, k, i)
        BY <2>2, <2>5
      <3> QED
        BY <1>3, <2>1, <2>5, <3>1 DEF After, LastMention
    <2> QED
      BY <2>4, <2>5
  <1> QED
    BY <1>4, <1>5

\* A message that is not about t's documents leaves them.
LEMMA NotMentioned ==
    ASSUME NEW b, NEW t, NEW E \in SUBSET Keys, \A k : ~Mentions(b, t, k, 1)
    PROVE  After(b, t, E, 1) = E
  <1>1. \A k, j : LastMention(b, t, k, 1, j) => Mentions(b, t, k, 1)
    BY DEF LastMention
  <1> QED
    BY <1>1 DEF After

\* Received, a message leaves the rest of the news sound, unless it is a filter that
\* does not match.
LEMMA NewsTail ==
    ASSUME NEW b \in Seq(Message), b # << >>, NEW t, NEW E \in SUBSET Keys, NEW s, NEW r \in Seq([Targets -> SUBSET Keys]),
           NewsSound(b, t, E, s, r), FilterFor(b, t, 1) => Cardinality(E) = b[1].count
    PROVE  NewsSound(Tail(b), t, After(b, t, E, 1), s, r)
  <1> DEFINE u == Tail(b)
             F == After(b, t, E, 1)
  <1>1. /\ Len(b) \in Nat /\ Len(b) > 0 /\ Len(u) = Len(b) - 1 /\ DOMAIN b = 1..Len(b)
        /\ DOMAIN u = 1..(Len(b) - 1)
        /\ \A i \in DOMAIN u : u[i] = b[i + 1]
    OBVIOUS
  <1>2. ASSUME NEW i \in DOMAIN u
        PROVE  /\ i + 1 \in DOMAIN b /\ i \in Nat \ {0}
               /\ Late(u, t, i) <=> Late(b, t, i + 1)
               /\ FilterFor(u, t, i) <=> FilterFor(b, t, i + 1)
               /\ SnapshotFor(u, t, i) <=> SnapshotFor(b, t, i + 1)
               /\ After(u, t, F, i) = After(b, t, E, i + 1)
    <2>1. i + 1 \in DOMAIN b /\ i \in Nat \ {0}
      BY <1>1
    <2> QED
      BY <2>1, TailLate, TailNews, AfterTail
  <1>3. After(u, t, F, Len(u)) = After(b, t, E, Len(b))
    <2>1. After(u, t, F, Len(u)) = After(b, t, E, Len(u) + 1) /\ Len(u) + 1 = Len(b)
      BY <1>1, AfterTail
    <2> QED
      BY <2>1
  <1> HIDE DEF u
  <1>4. \A i, j \in DOMAIN u : SnapshotFor(u, t, i) /\ FilterFor(u, t, j) => j < i
    <2> SUFFICES ASSUME NEW i \in DOMAIN u, NEW j \in DOMAIN u, SnapshotFor(u, t, i), FilterFor(u, t, j)
                 PROVE  j < i
      OBVIOUS
    <2>1. j + 1 < i + 1
      BY <1>2 DEF NewsSound
    <2> QED
      BY <1>2, <2>1
  <1>5. ASSUME s.first PROVE Fresh(u, t, F, s, r)
    <2>1. /\ E \in {{}, Base(r, t, s.at)}
          /\ \A i \in DOMAIN b : Late(b, t, i) => b[i].type \in {"Added", "Removed"}
      BY <1>5 DEF NewsSound, Fresh
    <2>2. \A k : ~Mentions(b, t, k, 1)
      BY <2>1 DEF Mentions, Late
    <2>3. F = E
      BY <2>2, NotMentioned
    <2>4. ASSUME NEW i \in DOMAIN u, Late(u, t, i) PROVE u[i].type \in {"Added", "Removed"}
      BY <1>1, <1>2, <2>1, <2>4
    <2> QED
      BY <2>1, <2>3, <2>4 DEF Fresh
  <1>6. ASSUME ~s.first PROVE s.at > 0 /\ (Matches(u, t, F) => Right(u, t, F, s, r))
    <2>1. s.at > 0 /\ (Matches(b, t, E) => Right(b, t, E, s, r))
      BY <1>6 DEF NewsSound
    <2> SUFFICES ASSUME Matches(u, t, F) PROVE Right(u, t, F, s, r)
      BY <2>1
    <2>2. ASSUME NEW i \in DOMAIN b, FilterFor(b, t, i) PROVE Cardinality(After(b, t, E, i)) = b[i].count
      <3>1. CASE i = 1
        <4>1. \A k : ~Mentions(b, t, k, 1)
          BY <2>2, <3>1 DEF FilterFor, Mentions
        <4> QED
          BY <2>2, <3>1, <4>1, NotMentioned
      <3>2. CASE i # 1
        <4>1. i - 1 \in DOMAIN u /\ (i - 1) + 1 = i
          BY <1>1, <3>2
        <4>2. FilterFor(u, t, i - 1) /\ After(u, t, F, i - 1) = After(b, t, E, i) /\ u[i - 1] = b[i]
          BY <1>1, <1>2, <2>2, <4>1
        <4> QED
          BY <4>1, <4>2 DEF Matches
      <3> QED
        BY <3>1, <3>2
    <2>3. Right(b, t, E, s, r)
      BY <2>1, <2>2 DEF Matches
    <2>4. ASSUME NEW i \in DOMAIN u, SnapshotFor(u, t, i) PROVE After(u, t, F, i) = r[u[i].version][t]
      BY <1>1, <1>2, <2>3, <2>4 DEF Right
    <2> QED
      BY <1>3, <2>3, <2>4 DEF Right
  <1> QED
    BY <1>4, <1>5, <1>6 DEF NewsSound, u, F

-----------------------------------------------------------------------------
(***************************************************************************)
(* News that follow.                                                       *)
(***************************************************************************)
LEMMA Regrouped ==
    ASSUME NEW a \in Seq(Message), NEW b \in Seq(Message), NEW c \in Seq(Message)
    PROVE  a \o (b \o c) = (a \o b) \o c
  BY SMTT(60), ConcatAssociative

LEMMA JoinedAt ==
    ASSUME NEW b \in Seq(Message), NEW u \in Seq(Message)
    PROVE  /\ b \o u \in Seq(Message) /\ Len(b) \in Nat /\ Len(u) \in Nat
           /\ Len(b \o u) = Len(b) + Len(u)
           /\ DOMAIN (b \o u) = 1..(Len(b) + Len(u)) /\ DOMAIN b = 1..Len(b) /\ DOMAIN u = 1..Len(u)
           /\ \A i \in DOMAIN b : (b \o u)[i] = b[i]
           /\ \A i \in DOMAIN u : (b \o u)[Len(b) + i] = u[i]
           /\ \A i \in DOMAIN (b \o u) : i \notin DOMAIN b => i - Len(b) \in DOMAIN u /\ Len(b) + (i - Len(b)) = i
  OBVIOUS

LEMMA JoinedLate ==
    ASSUME NEW b \in Seq(Message), NEW u \in Seq(Message), NEW t,
           \A i \in DOMAIN u : ~Answers(u, t, i)
    PROVE  /\ \A i \in DOMAIN b : Late(b \o u, t, i) <=> Late(b, t, i)
           /\ \A i \in DOMAIN u : Late(b \o u, t, Len(b) + i)
  <1> DEFINE c == b \o u
  <1>1. /\ Len(b) \in Nat /\ DOMAIN c = 1..(Len(b) + Len(u)) /\ DOMAIN b = 1..Len(b) /\ Len(u) \in Nat
        /\ DOMAIN u = 1..Len(u)
        /\ \A i \in DOMAIN b : c[i] = b[i]
        /\ \A i \in DOMAIN u : c[Len(b) + i] = u[i]
        /\ \A i \in DOMAIN c : i \notin DOMAIN b => i - Len(b) \in DOMAIN u /\ Len(b) + (i - Len(b)) = i
    BY JoinedAt
  <1> HIDE DEF c
  <1>2. \A j \in DOMAIN c : Answers(c, t, j) => j \in DOMAIN b /\ Answers(b, t, j)
    <2> SUFFICES ASSUME NEW j \in DOMAIN c, Answers(c, t, j) PROVE j \in DOMAIN b /\ Answers(b, t, j)
      OBVIOUS
    <2>1. CASE j \in DOMAIN b
      BY <1>1, <2>1 DEF Answers
    <2>2. CASE j \notin DOMAIN b
      <3>1. j - Len(b) \in DOMAIN u /\ c[j] = u[j - Len(b)]
        BY <1>1, <2>2
      <3> QED
        BY <3>1 DEF Answers
    <2> QED
      BY <2>1, <2>2
  <1>3. \A j \in DOMAIN b : Answers(b, t, j) => j \in DOMAIN c /\ Answers(c, t, j)
    BY <1>1 DEF Answers
  <1>4. \A i \in DOMAIN b : Late(c, t, i) <=> Late(b, t, i)
    BY <1>1, <1>2, <1>3 DEF Late
  <1>5. ASSUME NEW i \in DOMAIN u PROVE Late(c, t, Len(b) + i)
    <2>1. Len(b) + i \in DOMAIN c /\ \A j \in DOMAIN b : j < Len(b) + i
      BY <1>1
    <2> QED
      BY <1>2, <2>1 DEF Late
  <1> QED
    BY <1>4, <1>5 DEF c

LEMMA AfterJoined ==
    ASSUME NEW b \in Seq(Message), NEW u \in Seq(Message), NEW t, NEW E, NEW n \in 0..Len(b),
           \A i \in DOMAIN u : ~Answers(u, t, i)
    PROVE  After(b \o u, t, E, n) = After(b, t, E, n)
  <1>1. \A j \in 1..n : j \in DOMAIN b /\ (b \o u)[j] = b[j]
    BY JoinedAt
  <1>2. \A k : \A j \in 1..n : Mentions(b \o u, t, k, j) <=> Mentions(b, t, k, j)
    BY <1>1, JoinedLate DEF Mentions
  <1> QED
    BY <1>1, <1>2 DEF After, LastMention

\* A document's message names t.
Tells(u, t, k, i) == u[i].type = "Document" /\ u[i].key = k /\ t \in u[i].updated \cup u[i].removed

\* When the first n messages tell once that the documents U are there and that those
\* of D are not.
TellsOnce(u, t, n, U, D) ==
    /\ \A k \in Keys : \A i \in DOMAIN u : Tells(u, t, k, i) =>
           i <= n /\ k \in U \cup D /\ (t \in u[i].updated <=> k \in U)
    /\ \A k \in U \cup D : \E i \in DOMAIN u : Tells(u, t, k, i)
    /\ \A k \in Keys : \A i, j \in DOMAIN u : Tells(u, t, k, i) /\ Tells(u, t, k, j) => i = j

Told(X, U, D) == (X \ D) \cup U

LEMMA AfterTold ==
    ASSUME NEW b \in Seq(Message), NEW u \in Seq(Message), NEW t, NEW E, NEW n \in 0..Len(u),
           NEW U \in SUBSET Keys, NEW D \in SUBSET Keys, U \cap D = {},
           \A i \in DOMAIN u : ~Answers(u, t, i), TellsOnce(u, t, n, U, D)
    PROVE  After(b \o u, t, E, Len(b) + n) = Told(After(b, t, E, Len(b)), U, D)
  <1> DEFINE c == b \o u
             m == Len(b)
  <1>1. /\ m \in Nat /\ DOMAIN c = 1..(m + Len(u)) /\ DOMAIN b = 1..m /\ Len(u) \in Nat
        /\ DOMAIN u = 1..Len(u)
        /\ \A i \in DOMAIN b : c[i] = b[i]
        /\ \A i \in DOMAIN u : c[m + i] = u[i]
        /\ \A i \in DOMAIN c : i \notin DOMAIN b => i - m \in DOMAIN u /\ m + (i - m) = i
    BY JoinedAt
  <1>2. /\ \A i \in DOMAIN b : Late(c, t, i) <=> Late(b, t, i)
        /\ \A i \in DOMAIN u : Late(c, t, m + i)
    BY JoinedLate
  <1>3. After(c, t, E, m) = After(b, t, E, m)
    BY <1>1, AfterJoined
  <1> HIDE DEF c, m
  <1>4. \A k : \A i \in DOMAIN u : Mentions(c, t, k, m + i) <=> Tells(u, t, k, i)
    BY <1>1, <1>2 DEF Mentions, Tells
  <1> SUFFICES ASSUME NEW k \in Keys
               PROVE  k \in After(c, t, E, m + n) <=> k \in (After(c, t, E, m) \ D) \cup U
    BY <1>3 DEF After, Told, c, m
  <1>5. CASE k \in U \cup D
    <2>1. PICK i \in DOMAIN u : Tells(u, t, k, i)
      BY <1>5 DEF TellsOnce
    <2>2. i \in 1..n /\ (t \in u[i].updated <=> k \in U)
      BY <1>1, <2>1 DEF TellsOnce
    <2>3. m + i \in 1..(m + n) /\ Mentions(c, t, k, m + i) /\ c[m + i] = u[i]
      BY <1>1, <1>4, <2>1, <2>2
    <2>4. ASSUME NEW l \in 1..(m + n), Mentions(c, t, k, l) PROVE l <= m + i
      <3>1. CASE l \in DOMAIN b
        BY <1>1, <3>1
      <3>2. CASE l \notin DOMAIN b
        <4>1. l \in DOMAIN c
          BY <1>1
        <4>2. l - m \in DOMAIN u /\ m + (l - m) = l
          BY <1>1, <3>2, <4>1
        <4>3. Tells(u, t, k, l - m)
          BY <1>4, <2>4, <4>2
        <4>4. l - m = i
          BY <2>1, <4>2, <4>3 DEF TellsOnce
        <4> QED
          BY <1>1, <4>2, <4>4
      <3> QED
        BY <3>1, <3>2
    <2>5. LastMention(c, t, k, m + n, m + i)
      BY <2>3, <2>4 DEF LastMention
    <2>6. ASSUME NEW j \in 1..(m + n), LastMention(c, t, k, m + n, j) PROVE j = m + i
      <3>1. m + i <= j /\ j <= m + i
        BY <2>3, <2>4, <2>6 DEF LastMention
      <3> QED
        BY <1>1, <2>2, <3>1
    <2>7. k \in After(c, t, E, m + n) <=> t \in c[m + i].updated
      BY <2>3, <2>5, <2>6 DEF After
    <2> QED
      BY <1>5, <2>2, <2>3, <2>7
  <1>6. CASE k \notin U \cup D
    <2>1. \A i \in DOMAIN u : ~Tells(u, t, k, i)
      BY <1>6 DEF TellsOnce
    <2>2. ASSUME NEW l \in 1..(m + n), Mentions(c, t, k, l) PROVE l \in 1..m
      <3>1. SUFFICES ASSUME l \notin DOMAIN b PROVE FALSE
        BY <1>1
      <3>2. l \in DOMAIN c
        BY <1>1
      <3>3. l - m \in DOMAIN u /\ m + (l - m) = l
        BY <1>1, <3>1, <3>2
      <3> QED
        BY <1>4, <2>1, <2>2, <3>3
    <2>3. 1..m \subseteq 1..(m + n)
      BY <1>1
    <2>4. \A j : LastMention(c, t, k, m + n, j) <=> LastMention(c, t, k, m, j)
      BY <2>2, <2>3 DEF LastMention
    <2>5. (\A j \in 1..(m + n) : ~Mentions(c, t, k, j)) <=> \A j \in 1..m : ~Mentions(c, t, k, j)
      BY <2>2, <2>3
    <2>6. \A j : LastMention(c, t, k, m, j) => j \in 1..m
      BY DEF LastMention
    <2>7. k \in After(c, t, E, m + n) <=> k \in After(c, t, E, m)
      BY <2>3, <2>4, <2>5, <2>6 DEF After
    <2> QED
      BY <1>6, <2>7
  <1> QED
    BY <1>5, <1>6

\* What the backend sends a target it has at s: the documents of version v, as far as
\* they are not known to it, and a snapshot; resumed, perhaps not all of those that
\* left, but a filter.
Tidings(t, s, r, v, U, D) ==
    /\ U \subseteq r[v][t] /\ r[v][t] \ Base(r, t, s.at) \subseteq U
    /\ D \subseteq Base(r, t, s.at) \ r[v][t]
    /\ D = Base(r, t, s.at) \ r[v][t] \/ (s.first /\ s.at > 0)
Batch(u, t, s, r, v, U, D) ==
    /\ Len(u) > 0 /\ u[Len(u)].version = v
    /\ \A i \in DOMAIN u : /\ u[i].type \notin {"Added", "Removed"}
                           /\ u[i].type = "Snapshot" <=> i = Len(u)
                           /\ u[i].type = "Filter" =>
                                  \A j \in DOMAIN u : i <= j /\ j < Len(u) => u[j].type = "Filter"
                           /\ u[i].type = "Filter" /\ u[i].target = t =>
                                  s.first /\ s.at > 0 /\ u[i].count = Cardinality(r[v][t])
    /\ s.first /\ s.at > 0 => \E i \in DOMAIN u : u[i].type = "Filter" /\ u[i].target = t
    /\ TellsOnce(u, t, Len(u), U, D)
    /\ Tidings(t, s, r, v, U, D)

\* After a filter no document is told of.
LEMMA ToldBefore ==
    ASSUME NEW u \in Seq(Message), NEW t, NEW s, NEW r, NEW v, NEW U, NEW D, Batch(u, t, s, r, v, U, D),
           NEW n \in DOMAIN u, u[n].type \in {"Filter", "Snapshot"}
    PROVE  TellsOnce(u, t, n, U, D)
  <1>1. /\ Len(u) \in Nat /\ DOMAIN u = 1..Len(u) /\ n \in 1..Len(u)
    OBVIOUS
  <1>2. TellsOnce(u, t, Len(u), U, D)
    BY DEF Batch
  <1>3. ASSUME NEW k, NEW i \in DOMAIN u, Tells(u, t, k, i) PROVE i <= n
    <2>1. SUFFICES ASSUME n < i PROVE FALSE
      BY <1>1
    <2>2. u[i].type = "Document"
      BY <1>3 DEF Tells
    <2>3. CASE u[n].type = "Snapshot"
      <3>1. n = Len(u)
        BY <2>3 DEF Batch
      <3> QED
        BY <1>1, <2>1, <3>1
    <2>4. CASE u[n].type = "Filter"
      <3>1. i = Len(u)
        BY <1>1, <2>1, <2>2, <2>4 DEF Batch
      <3>2. u[i].type = "Snapshot"
        BY <3>1 DEF Batch
      <3> QED
        BY <2>2, <3>2
    <2> QED
      BY <2>3, <2>4
  <1> QED
    BY <1>2, <1>3 DEF TellsOnce

LEMMA FreshKept ==
    ASSUME NEW b \in Seq(Message), NEW t, NEW E \in SUBSET Keys, NEW s, NEW r, Fresh(b, t, E, s, r)
    PROVE  After(b, t, E, Len(b)) = E
  <1>1. \A k : \A i \in 1..Len(b) : ~Mentions(b, t, k, i)
    BY DEF Fresh, Mentions, Late
  <1> QED
    BY <1>1 DEF After, LastMention

\* Sets of documents of the same size, one in the other.
LEMMA SameSize ==
    ASSUME NEW S \in SUBSET Keys, NEW T \in SUBSET S, Cardinality(S) = Cardinality(T)
    PROVE  S = T
  <1>1. IsFiniteSet(S)
    BY FiniteAssumption, FS_Subset
  <1> QED
    BY <1>1, FS_Subset

LEMMA NewsSent ==
    ASSUME NEW b \in Seq(Message), NEW u \in Seq(Message), NEW t \in Targets, NEW E \in SUBSET Keys,
           NEW s, NEW z, NEW r \in Seq([Targets -> SUBSET Keys]), NEW v \in 1..Len(r),
           NEW U \in SUBSET Keys, NEW D \in SUBSET Keys,
           NewsSound(b, t, E, s, r), Batch(u, t, s, r, v, U, D),
           z.on, z.at = v, ~z.first
    PROVE  NewsSound(b \o u, t, E, z, r)
  <1> DEFINE c == b \o u
             m == Len(b)
             X == After(b, t, E, m)
             Y == (X \ D) \cup U
             R == r[v][t]
             K == Base(r, t, s.at)
  <1>1. /\ m \in Nat /\ Len(c) = m + Len(u) /\ DOMAIN c = 1..(m + Len(u)) /\ DOMAIN b = 1..m
        /\ Len(u) \in Nat /\ DOMAIN u = 1..Len(u) /\ Len(u) \in DOMAIN u
        /\ \A i \in DOMAIN b : c[i] = b[i]
        /\ \A i \in DOMAIN u : c[m + i] = u[i]
        /\ \A i \in DOMAIN c : i \notin DOMAIN b => i - m \in DOMAIN u /\ m + (i - m) = i
    BY JoinedAt DEF Batch
  <1>2. \A i \in DOMAIN u : ~Answers(u, t, i)
    BY DEF Answers, Batch
  <1>3. /\ \A i \in DOMAIN b : Late(c, t, i) <=> Late(b, t, i)
        /\ \A i \in DOMAIN u : Late(c, t, m + i)
    BY <1>2, JoinedLate
  <1>4. ASSUME NEW i \in DOMAIN b
        PROVE  /\ FilterFor(c, t, i) <=> FilterFor(b, t, i)
               /\ SnapshotFor(c, t, i) <=> SnapshotFor(b, t, i)
               /\ After(c, t, E, i) = After(b, t, E, i)
    <2>1. i \in 0..Len(b)
      BY <1>1
    <2>2. After(b \o u, t, E, i) = After(b, t, E, i)
      BY <1>2, <2>1, AfterJoined
    <2>3. c[i] = b[i] /\ (Late(c, t, i) <=> Late(b, t, i))
      BY <1>1, <1>3
    <2> HIDE DEF c
    <2>4. (FilterFor(c, t, i) <=> FilterFor(b, t, i)) /\ (SnapshotFor(c, t, i) <=> SnapshotFor(b, t, i))
      BY <2>3 DEF FilterFor, SnapshotFor
    <2> QED
      BY <2>2, <2>4 DEF c
  <1>5. R \in SUBSET Keys /\ K \in SUBSET Keys /\ X \in SUBSET Keys
    <2>1. r[v] \in [Targets -> SUBSET Keys]
      OBVIOUS
    <2>2. s.at # 0 => s.at \in 1..Len(r)
      BY DEF NewsSound
    <2>3. s.at # 0 => r[s.at] \in [Targets -> SUBSET Keys]
      BY <2>2
    <2> QED
      BY <2>1, <2>3 DEF Base, After
  <1>6. /\ U \subseteq R /\ R \ K \subseteq U /\ D \subseteq K \ R /\ U \cap D = {}
        /\ D = K \ R \/ (s.first /\ s.at > 0)
    BY DEF Batch, Tidings
  <1>7. ASSUME NEW n \in DOMAIN u, u[n].type \in {"Filter", "Snapshot"}
        PROVE  After(c, t, E, m + n) = Y
    <2>1. TellsOnce(u, t, n, U, D) /\ n \in 0..Len(u)
      BY <1>1, <1>7, ToldBefore
    <2>2. After(b \o u, t, E, Len(b) + n) = Told(After(b, t, E, Len(b)), U, D)
      BY SMTT(60), <1>2, <1>6, <2>1, AfterTold
    <2> QED
      BY <2>2 DEF Told
  <1> HIDE DEF c, m, X, R, K
  <1>8. ASSUME NEW i \in DOMAIN c, i \notin DOMAIN b, FilterFor(c, t, i)
        PROVE  s.first /\ s.at > 0 /\ i - m \in DOMAIN u /\ u[i - m].type = "Filter" /\ c[i].count = Cardinality(R)
    <2>1. i - m \in DOMAIN u /\ c[i] = u[i - m]
      BY <1>1, <1>8
    <2> QED
      BY <1>8, <2>1 DEF FilterFor, Batch, R
  <1>9. ASSUME NEW i \in DOMAIN c, i \notin DOMAIN b, SnapshotFor(c, t, i)
        PROVE  i = Len(c) /\ c[i].version = v
    <2>1. i - m \in DOMAIN u /\ c[i] = u[i - m] /\ m + (i - m) = i
      BY <1>1, <1>9
    <2>2. i - m = Len(u)
      BY <1>9, <2>1 DEF SnapshotFor, Batch
    <2> QED
      BY <1>1, <2>1, <2>2 DEF Batch
  <1>10. ASSUME s.first, NEW i \in DOMAIN b PROVE ~SnapshotFor(c, t, i) /\ ~FilterFor(c, t, i)
    BY <1>4, <1>10 DEF NewsSound, Fresh, SnapshotFor, FilterFor
  <1>11. ASSUME NEW i \in DOMAIN c, NEW j \in DOMAIN c, SnapshotFor(c, t, i), FilterFor(c, t, j)
         PROVE  j < i
    <2>1. CASE i \in DOMAIN b /\ j \in DOMAIN b
      BY <1>4, <1>11, <2>1 DEF NewsSound
    <2>2. CASE i \in DOMAIN b /\ j \notin DOMAIN b
      BY <1>8, <1>10, <1>11, <2>2
    <2>3. CASE i \notin DOMAIN b
      <3>1. i = Len(c) /\ i - m \in DOMAIN u /\ m + (i - m) = i
        BY <1>1, <1>9, <1>11, <2>3
      <3>2. c[i].type # "Filter"
        BY <1>11 DEF SnapshotFor
      <3>3. j # i
        BY <1>11, <3>2 DEF FilterFor
      <3>4. j \in Nat /\ j <= Len(c) /\ Len(c) \in Nat
        BY <1>1
      <3> QED
        BY <3>1, <3>3, <3>4
    <2> QED
      BY <2>1, <2>2, <2>3
  <1>12. ASSUME Matches(c, t, E) PROVE Y = R /\ (~s.first => Right(b, t, E, s, r))
    <2>1. CASE ~s.first
      <3>1. Matches(b, t, E)
        <4>1. ASSUME NEW i \in DOMAIN b, FilterFor(b, t, i) PROVE Cardinality(After(b, t, E, i)) = b[i].count
          <5>1. i \in DOMAIN c /\ c[i] = b[i]
            BY <1>1
          <5> QED
            BY <1>4, <1>12, <4>1, <5>1 DEF Matches
        <4> QED
          BY <4>1 DEF Matches
      <3>2. Right(b, t, E, s, r) /\ s.at > 0
        BY <2>1, <3>1 DEF NewsSound
      <3>3. X = K
        BY <3>2 DEF Right, Base, X, K, m, NewsSound
      <3> QED
        BY <1>6, <2>1, <3>2, <3>3
    <2>2. CASE s.first
      <3>1. Fresh(b, t, E, s, r)
        BY <2>2 DEF NewsSound
      <3>2. X = E /\ E \in {{}, K}
        BY <3>1, FreshKept DEF X, K, m, Fresh
      <3>3. CASE ~(s.at > 0)
        <4>1. K = {}
          BY <3>3 DEF K, Base, NewsSound
        <4> QED
          BY <1>6, <2>2, <3>2, <3>3, <4>1
      <3>4. CASE s.at > 0
        <4>1. PICK f \in DOMAIN u : u[f].type = "Filter" /\ u[f].target = t
          BY <2>2, <3>4 DEF Batch
        <4>2. m + f \in DOMAIN c /\ c[m + f] = u[f]
          BY <1>1
        <4>3. FilterFor(c, t, m + f)
          BY <1>3, <4>1, <4>2 DEF FilterFor
        <4>4. Cardinality(After(c, t, E, m + f)) = u[f].count
          BY <1>12, <4>2, <4>3 DEF Matches
        <4>5. u[f].count = Cardinality(R) /\ After(c, t, E, m + f) = Y
          BY <1>7, <4>1 DEF Batch, R
        <4>6. Cardinality(Y) = Cardinality(R)
          BY <4>4, <4>5
        <4>7. CASE E = {}
          <5>1. Y = U /\ Y \in SUBSET R
            BY <1>6, <3>2, <4>7
          <5> HIDE DEF Y
          <5> QED
            BY <1>5, <2>2, <4>6, <5>1, SameSize
        <4>8. CASE E = K
          <5>1. R \in SUBSET Y /\ Y \in SUBSET Keys
            BY <1>5, <1>6, <3>2, <4>8
          <5> HIDE DEF Y
          <5> QED
            BY <2>2, <4>6, <5>1, SameSize
        <4> QED
          BY <3>2, <4>7, <4>8
      <3> QED
        BY <3>3, <3>4
    <2> QED
      BY <2>1, <2>2
  <1>13. After(c, t, E, Len(c)) = Y
    <2>1. u[Len(u)].type = "Snapshot"
      BY <1>1 DEF Batch
    <2> QED
      BY <1>1, <1>7, <2>1
  <1>14. ASSUME Matches(c, t, E) PROVE Right(c, t, E, z, r)
    <2>1. ASSUME NEW i \in DOMAIN c, SnapshotFor(c, t, i) PROVE After(c, t, E, i) = r[c[i].version][t]
      <3>1. CASE i \in DOMAIN b
        <4>1. SnapshotFor(b, t, i) /\ ~s.first /\ After(c, t, E, i) = After(b, t, E, i) /\ c[i] = b[i]
          BY <1>1, <1>4, <1>10, <2>1, <3>1
        <4> QED
          BY <1>12, <1>14, <3>1, <4>1 DEF Right
      <3>2. CASE i \notin DOMAIN b
        BY <1>9, <1>12, <1>13, <1>14, <2>1, <3>2 DEF R
      <3> QED
        BY <3>1, <3>2
    <2>2. After(c, t, E, Len(c)) = r[z.at][t]
      BY <1>12, <1>13, <1>14 DEF R
    <2> QED
      BY <2>1, <2>2 DEF Right
  <1>15. z.at \in 0..Len(r) /\ z.at > 0
    OBVIOUS
  <1> QED
    BY <1>11, <1>14, <1>15 DEF NewsSound, c

InTurn(a, b, c, d) == a \o b \o c \o d
PartsOf(u, a, b, c, d) ==
    /\ u \in Seq(Message)
    /\ Len(u) = Len(a) + Len(b) + Len(c) + Len(d)
    /\ \A i \in DOMAIN a : u[i] = a[i]
    /\ \A i \in DOMAIN b : u[Len(a) + i] = b[i]
    /\ \A i \in DOMAIN c : u[Len(a) + Len(b) + i] = c[i]
    /\ \A i \in DOMAIN d : u[Len(a) + Len(b) + Len(c) + i] = d[i]

LEMMA Parts ==
    ASSUME NEW a \in Seq(Message), NEW b \in Seq(Message), NEW c \in Seq(Message), NEW d \in Seq(Message)
    PROVE  PartsOf(InTurn(a, b, c, d), a, b, c, d)
  <1> DEFINE e == a \o b
             f == e \o c
  <1>1. /\ e \in Seq(Message) /\ Len(e) = Len(a) + Len(b) /\ Len(a) \in Nat /\ Len(b) \in Nat
        /\ DOMAIN e = 1..Len(e) /\ DOMAIN a = 1..Len(a) /\ DOMAIN b = 1..Len(b)
        /\ \A i \in DOMAIN a : e[i] = a[i]
        /\ \A i \in DOMAIN b : e[Len(a) + i] = b[i]
    BY JoinedAt
  <1> HIDE DEF e
  <1>2. /\ f \in Seq(Message) /\ Len(f) = Len(e) + Len(c) /\ Len(c) \in Nat
        /\ DOMAIN f = 1..Len(f) /\ DOMAIN c = 1..Len(c)
        /\ \A i \in DOMAIN e : f[i] = e[i]
        /\ \A i \in DOMAIN c : f[Len(e) + i] = c[i]
    BY <1>1, JoinedAt
  <1> HIDE DEF f
  <1>3. /\ f \o d \in Seq(Message) /\ Len(f \o d) = Len(f) + Len(d) /\ Len(d) \in Nat /\ DOMAIN d = 1..Len(d)
        /\ \A i \in DOMAIN f : (f \o d)[i] = f[i]
        /\ \A i \in DOMAIN d : (f \o d)[Len(f) + i] = d[i]
    BY <1>2, JoinedAt
  <1> DEFINE g == f \o d
  <1> HIDE DEF g
  <1>4. /\ g \in Seq(Message) /\ Len(g) = Len(a) + Len(b) + Len(c) + Len(d)
        /\ \A i \in DOMAIN a : g[i] = a[i]
        /\ \A i \in DOMAIN b : g[Len(a) + i] = b[i]
        /\ \A i \in DOMAIN c : g[Len(a) + Len(b) + i] = c[i]
        /\ \A i \in DOMAIN d : g[Len(a) + Len(b) + Len(c) + i] = d[i]
    <2>1. \A i \in DOMAIN f : g[i] = f[i]
      BY <1>3 DEF g
    <2>2. \A i \in DOMAIN d : g[Len(f) + i] = d[i]
      BY <1>3 DEF g
    <2>3. \A i \in DOMAIN a : g[i] = a[i]
      BY <1>1, <1>2, <2>1
    <2>4. ASSUME NEW i \in DOMAIN b PROVE g[Len(a) + i] = b[i]
      <3>1. Len(a) + i \in DOMAIN e /\ Len(a) + i \in DOMAIN f
        BY <1>1, <1>2
      <3> QED
        BY <1>1, <1>2, <2>1, <3>1
    <2>5. ASSUME NEW i \in DOMAIN c PROVE g[Len(a) + Len(b) + i] = c[i]
      <3>1. Len(e) + i \in DOMAIN f
        BY <1>1, <1>2
      <3> QED
        BY <1>1, <1>2, <2>1, <3>1
    <2>6. \A i \in DOMAIN d : g[Len(a) + Len(b) + Len(c) + i] = d[i]
      BY <1>1, <1>2, <2>2
    <2>7. g \in Seq(Message) /\ Len(g) = Len(a) + Len(b) + Len(c) + Len(d)
      BY <1>1, <1>2, <1>3 DEF g
    <2> QED
      BY <2>3, <2>4, <2>5, <2>6, <2>7
  <1> QED
    BY <1>4 DEF PartsOf, InTurn, e, f, g

Only(s, type) == \A i \in DOMAIN s : s[i].type = type

\* The filters of a batch: one for a target that is resumed, with the count of its result.
FiltersFor(c, t, s, r, v) ==
    /\ \A i \in DOMAIN c : /\ c[i].type = "Filter"
                           /\ c[i].target = t =>
                                  s.first /\ s.at > 0 /\ c[i].count = Cardinality(r[v][t])
    /\ s.first /\ s.at > 0 => \E i \in DOMAIN c : c[i].target = t

OneSnapshot(d, v) == Len(d) = 1 /\ d[1].type = "Snapshot" /\ d[1].version = v

LEMMA BatchMade ==
    ASSUME NEW a \in Seq(Message), NEW b \in Seq(Message), NEW c \in Seq(Message), NEW d \in Seq(Message),
           NEW t, NEW s, NEW r, NEW v, NEW U \in SUBSET Keys, NEW D \in SUBSET Keys,
           Only(a, "Document"), Only(b, "Current"), FiltersFor(c, t, s, r, v), OneSnapshot(d, v),
           TellsOnce(a, t, Len(a), U, D),
           Tidings(t, s, r, v, U, D)
    PROVE  Batch(InTurn(a, b, c, d), t, s, r, v, U, D)
  <1> DEFINE u == InTurn(a, b, c, d)
             p == Len(a)
             q == Len(a) + Len(b)
             z == Len(a) + Len(b) + Len(c)
  <1>1. /\ p \in Nat /\ q \in Nat /\ z \in Nat /\ p <= q /\ q <= z
        /\ u \in Seq(Message) /\ Len(u) = z + 1 /\ DOMAIN u = 1..(z + 1)
        /\ \A i \in DOMAIN a : u[i] = a[i]
        /\ \A i \in DOMAIN b : u[p + i] = b[i]
        /\ \A i \in DOMAIN c : u[q + i] = c[i]
        /\ \A i \in DOMAIN d : u[z + i] = d[i]
    <2>1. PartsOf(u, a, b, c, d)
      BY Parts
    <2> HIDE DEF u
    <2> QED
      BY <2>1 DEF PartsOf, OneSnapshot
  <1>2. DOMAIN a = 1..p /\ DOMAIN b = 1..(q - p) /\ DOMAIN c = 1..(z - q) /\ 1 \in DOMAIN d
    BY DEF OneSnapshot
  <1> HIDE DEF u, p, q, z
  <1>3. ASSUME NEW i \in DOMAIN u
        PROVE  /\ i \in Nat /\ 1 <= i /\ i <= z + 1
               /\ i <= p => i \in DOMAIN a /\ u[i] = a[i]
               /\ p < i /\ i <= q => i - p \in DOMAIN b /\ u[i] = b[i - p]
               /\ q < i /\ i <= z => i - q \in DOMAIN c /\ u[i] = c[i - q]
               /\ z < i => i = z + 1 /\ u[i] = d[1]
    <2>1. i \in Nat /\ 1 <= i /\ i <= z + 1
      BY <1>1
    <2>2. i <= p => i \in DOMAIN a
      BY <1>1, <1>2, <2>1
    <2>3. p < i /\ i <= q => i - p \in DOMAIN b /\ p + (i - p) = i
      BY <1>1, <1>2, <2>1
    <2>4. q < i /\ i <= z => i - q \in DOMAIN c /\ q + (i - q) = i
      BY <1>1, <1>2, <2>1
    <2>5. z < i => i = z + 1
      BY <1>1, <2>1
    <2> QED
      BY <1>1, <1>2, <2>1, <2>2, <2>3, <2>4, <2>5
  <1>4. ASSUME NEW i \in DOMAIN u
        PROVE  /\ i <= p => u[i].type = "Document"
               /\ p < i /\ i <= q => u[i].type = "Current"
               /\ q < i /\ i <= z => u[i].type = "Filter"
               /\ z < i => u[i].type = "Snapshot" /\ u[i].version = v /\ i = Len(u)
    BY SMTT(60), <1>1, <1>3 DEF Only, FiltersFor, OneSnapshot
  <1>5. ASSUME NEW i \in DOMAIN u
        PROVE  /\ u[i].type \notin {"Added", "Removed"}
               /\ u[i].type = "Snapshot" <=> i = Len(u)
               /\ u[i].type = "Filter" => q < i /\ i <= z
               /\ u[i].type = "Document" => i <= p
    <2>1. i \in Nat /\ i <= z + 1 /\ (i = Len(u) <=> z < i)
      BY <1>1, <1>3
    <2>2. i <= p \/ (p < i /\ i <= q) \/ (q < i /\ i <= z) \/ z < i
      BY <1>1, <2>1
    <2> QED
      BY <1>1, <1>4, <2>1, <2>2
  <1>6. ASSUME NEW i \in DOMAIN u, u[i].type = "Filter"
        PROVE  /\ \A j \in DOMAIN u : i <= j /\ j < Len(u) => u[j].type = "Filter"
               /\ u[i].target = t => s.first /\ s.at > 0 /\ u[i].count = Cardinality(r[v][t])
    <2>1. q < i /\ i <= z
      BY <1>5, <1>6
    <2>2. i - q \in DOMAIN c /\ u[i] = c[i - q]
      BY <1>3, <2>1
    <2>3. ASSUME NEW j \in DOMAIN u, i <= j, j < Len(u) PROVE u[j].type = "Filter"
      <3>1. j \in Nat /\ i \in Nat
        BY <1>3
      <3>2. q < j /\ j <= z
        BY <1>1, <2>1, <2>3, <3>1
      <3> QED
        BY <1>4, <3>2
    <2> QED
      BY <2>2, <2>3 DEF FiltersFor
  <1>7. s.first /\ s.at > 0 => \E i \in DOMAIN u : u[i].type = "Filter" /\ u[i].target = t
    <2> SUFFICES ASSUME s.first, s.at > 0 PROVE \E i \in DOMAIN u : u[i].type = "Filter" /\ u[i].target = t
      OBVIOUS
    <2>1. PICK i \in DOMAIN c : c[i].type = "Filter" /\ c[i].target = t
      BY DEF FiltersFor
    <2>2. q + i \in DOMAIN u /\ u[q + i] = c[i]
      BY <1>1, <1>2
    <2> QED
      BY <2>1, <2>2
  <1>8. TellsOnce(u, t, Len(u), U, D)
    <2>1. ASSUME NEW k, NEW i \in DOMAIN u, Tells(u, t, k, i)
          PROVE  i \in DOMAIN a /\ u[i] = a[i] /\ Tells(a, t, k, i) /\ i <= Len(u)
      <3>1. i <= p
        BY <1>5, <2>1 DEF Tells
      <3>2. i \in DOMAIN a /\ u[i] = a[i]
        BY <1>3, <3>1
      <3>3. i <= Len(u)
        BY <1>1, <1>3
      <3> QED
        BY <2>1, <3>2, <3>3 DEF Tells
    <2>2. ASSUME NEW k, NEW i \in DOMAIN a, Tells(a, t, k, i) PROVE i \in DOMAIN u /\ Tells(u, t, k, i)
      <3>1. i \in DOMAIN u /\ u[i] = a[i]
        BY <1>1, <1>2
      <3> QED
        BY <2>2, <3>1 DEF Tells
    <2> QED
      BY <2>1, <2>2 DEF TellsOnce
  <1>9. Len(u) > 0 /\ u[Len(u)].version = v
    <2>1. Len(u) \in DOMAIN u /\ z < Len(u)
      BY <1>1
    <2> QED
      BY <1>1, <1>4, <2>1
  <1> QED
    BY <1>5, <1>6, <1>7, <1>8, <1>9 DEF Batch, u

LEMMA ServerSendsBatch ==
    ASSUME WatchInv, NEW v \in 1..MaxVersions, ServerSends(v)
    PROVE  \E u \in Seq(Message) :
               /\ inbox' = inbox \o u
               /\ \A t \in Targets : serving[t].on =>
                      \E U, D \in SUBSET Keys : Batch(u, t, serving[t], results, v, U, D)
  <1> DEFINE n == Len(results)
             on == {t \in Targets : serving[t].on}
             resumed == {t \in on : serving[t].first /\ serving[t].at > 0}
             early == {t \in on : ~serving[t].current /\ v >= serving[t].added}
             known(t) == IF serving[t].at = 0 THEN {} ELSE results[serving[t].at][t]
  <1>1. n \in Nat /\ v \in 1..n /\ v \in Nat /\ \A t \in on : serving[t].at <= v
    <2>1. n \in Nat
      BY DEF WatchInv, TypeOK
    <2>2. v \in 1..n /\ \A t \in on : serving[t].at <= v
      BY DEF ServerSends
    <2> QED
      BY <2>1, <2>2
  <1>2. PICK silent \in SUBSET resumed, written \in {{}, Keys} :
           LET news(k) == [type |-> "Document", key |-> k,
                           updated |-> {t \in on : k \in results[v][t] /\
                                                       (k \in written \/ k \notin known(t))},
                           removed |-> {t \in on \ silent : k \in known(t) \ results[v][t]}]
               documents == SetToSeq({k \in Keys : news(k).updated \cup news(k).removed # {}})
               currents == SetToSeq(early)
               filters == SetToSeq(resumed)
           IN  inbox' = inbox
                   \o [i \in DOMAIN documents |-> news(documents[i])]
                   \o [i \in DOMAIN currents |-> [type |-> "Current", target |-> currents[i]]]
                   \o [i \in DOMAIN filters |-> [type |-> "Filter", target |-> filters[i],
                                                 count |-> Cardinality(results[v][filters[i]])]]
                   \o <<[type |-> "Snapshot", version |-> v]>>
    BY DEF ServerSends
  <1> DEFINE updated(k) == {t \in on : k \in results[v][t] /\ (k \in written \/ k \notin known(t))}
             removed(k) == {t \in on \ silent : k \in known(t) \ results[v][t]}
             news(k) == [type |-> "Document", key |-> k, updated |-> updated(k), removed |-> removed(k)]
             written_to == {k \in Keys : news(k).updated \cup news(k).removed # {}}
             documents == SetToSeq(written_to)
             currents == SetToSeq(early)
             filters == SetToSeq(resumed)
             docs == [i \in DOMAIN documents |-> news(documents[i])]
             curs == [i \in DOMAIN currents |-> [type |-> "Current", target |-> currents[i]]]
             filts == [i \in DOMAIN filters |-> [type |-> "Filter", target |-> filters[i],
                                                count |-> Cardinality(results[v][filters[i]])]]
             snap == <<[type |-> "Snapshot", version |-> v]>>
             u == InTurn(docs, curs, filts, snap)
  <1>3. inbox' = inbox \o docs \o curs \o filts \o snap
    BY <1>2
  <1>4. /\ docs \in Seq(Message)
        /\ \A i \in DOMAIN docs : /\ docs[i].type = "Document" /\ docs[i].key \in written_to
                                  /\ docs[i].updated = updated(docs[i].key)
                                  /\ docs[i].removed = removed(docs[i].key)
        /\ \A k \in written_to : \E i \in DOMAIN docs : docs[i].key = k
        /\ \A i, j \in DOMAIN docs : docs[i].key = docs[j].key => i = j
    <2>1. written_to \subseteq Keys /\ IsFiniteSet(written_to)
      <3>1. written_to \in SUBSET Keys
        OBVIOUS
      <3> QED
        BY <3>1, FiniteAssumption, FS_Subset
    <2>2. \A k \in Keys : updated(k) \in SUBSET Targets /\ removed(k) \in SUBSET Targets
      OBVIOUS
    <2> HIDE DEF written_to, updated, removed
    <2>3. \A k \in Keys : news(k) \in Message
      BY <2>2 DEF Message
    <2>4. /\ documents \in Seq(written_to)
          /\ \A x \in written_to : \E i \in DOMAIN documents : documents[i] = x
          /\ \A i, j \in DOMAIN documents : documents[i] = documents[j] => i = j
      BY <2>1, SetToSeqSound
    <2> HIDE DEF documents
    <2>5. Len(documents) \in Nat /\ DOMAIN documents = 1..Len(documents)
          /\ \A i \in 1..Len(documents) : documents[i] \in written_to
      BY <2>4
    <2>6. docs \in [1..Len(documents) -> Message]
      BY <2>1, <2>3, <2>5
    <2>7. docs \in Seq(Message)
      BY <2>5, <2>6
    <2>8. DOMAIN docs = DOMAIN documents /\ \A i \in DOMAIN docs : docs[i] = news(documents[i])
      OBVIOUS
    <2> HIDE DEF docs
    <2>9. ASSUME NEW i \in DOMAIN docs
          PROVE  /\ docs[i].type = "Document" /\ docs[i].key = documents[i] /\ documents[i] \in written_to
                 /\ docs[i].updated = updated(documents[i]) /\ docs[i].removed = removed(documents[i])
      BY <2>5, <2>8
    <2> QED
      BY <2>4, <2>7, <2>8, <2>9
  <1>5. /\ early \subseteq Targets /\ IsFiniteSet(early)
        /\ resumed \subseteq Targets /\ IsFiniteSet(resumed)
    <2>1. early \in SUBSET Targets /\ resumed \in SUBSET Targets
      OBVIOUS
    <2> QED
      BY <2>1, FiniteAssumption, FS_Subset
  <1>6. curs \in Seq(Message) /\ \A i \in DOMAIN curs : curs[i].type = "Current"
    <2> HIDE DEF early
    <2>1. currents \in Seq(early)
      BY <1>5, SetToSeqSound
    <2> HIDE DEF currents
    <2>2. Len(currents) \in Nat /\ DOMAIN currents = 1..Len(currents)
          /\ \A i \in 1..Len(currents) : currents[i] \in Targets
      BY <1>5, <2>1
    <2>3. \A t \in Targets : [type |-> "Current", target |-> t] \in Message
      BY DEF Message
    <2>4. curs \in [1..Len(currents) -> Message]
      BY <2>2, <2>3
    <2> QED
      BY <2>2, <2>4
  <1>7. /\ filts \in Seq(Message)
        /\ \A i \in DOMAIN filts : /\ filts[i].type = "Filter" /\ filts[i].target \in resumed
                                   /\ filts[i].count = Cardinality(results[v][filts[i].target])
        /\ \A t \in resumed : \E i \in DOMAIN filts : filts[i].target = t
    <2> HIDE DEF resumed
    <2>1. filters \in Seq(resumed) /\ \A x \in resumed : \E i \in DOMAIN filters : filters[i] = x
      BY <1>5, SetToSeqSound
    <2> HIDE DEF filters
    <2>2. Len(filters) \in Nat /\ DOMAIN filters = 1..Len(filters)
          /\ \A i \in 1..Len(filters) : filters[i] \in Targets /\ filters[i] \in resumed
      BY <1>5, <2>1
    <2>3. ASSUME NEW t \in Targets PROVE Cardinality(results[v][t]) \in Nat
      <3>1. results[v] \in [Targets -> SUBSET Keys]
        BY <1>1 DEF WatchInv, TypeOK
      <3>2. results[v][t] \in SUBSET Keys
        BY <3>1
      <3> QED
        BY <3>2, FiniteAssumption, FS_Subset, FS_CardinalityType
    <2>4. \A t \in Targets :
             [type |-> "Filter", target |-> t, count |-> Cardinality(results[v][t])] \in Message
      BY <2>3 DEF Message
    <2>5. filts \in [1..Len(filters) -> Message]
      BY <2>2, <2>4
    <2>6. filts \in Seq(Message) /\ DOMAIN filts = DOMAIN filters
      BY <2>2, <2>5
    <2>7. ASSUME NEW i \in DOMAIN filters
          PROVE  /\ filts[i].type = "Filter" /\ filts[i].target = filters[i] /\ filters[i] \in resumed
                 /\ filts[i].count = Cardinality(results[v][filters[i]])
      BY <2>2
    <2> HIDE DEF filts
    <2> QED
      BY <2>1, <2>6, <2>7
  <1>8. snap \in Seq(Message) /\ Len(snap) = 1 /\ snap[1].type = "Snapshot" /\ snap[1].version = v
    <2>1. [type |-> "Snapshot", version |-> v] \in Message
      BY <1>1 DEF Message
    <2> QED
      BY <2>1
  <1>9. inbox \in Seq(Message)
    BY DEF WatchInv, TypeOK
  <1> HIDE DEF docs, curs, filts, snap, n
  <1>10. u \in Seq(Message) /\ inbox' = inbox \o u
    <2>1. u \in Seq(Message)
      BY <1>4, <1>6, <1>7, <1>8, Parts DEF PartsOf
    <2>2. inbox \o docs \o curs \o filts \o snap = inbox \o u
      <3> DEFINE b1 == docs \o curs
                 b2 == b1 \o filts
      <3>1. b1 \in Seq(Message) /\ b2 \in Seq(Message)
        BY <1>4, <1>6, <1>7
      <3>2. inbox \o b1 = (inbox \o docs) \o curs
        BY <1>4, <1>6, <1>9, Regrouped
      <3> HIDE DEF b1
      <3>3. inbox \o b2 = (inbox \o b1) \o filts
        BY <1>7, <1>9, <3>1, Regrouped
      <3> HIDE DEF b2, snap
      <3>4. inbox \o (b2 \o snap) = (inbox \o b2) \o snap
        <4>1. snap \in Seq(Message) /\ inbox \in Seq(Message) /\ b2 \in Seq(Message)
          BY <1>8, <1>9, <3>1
        <4> QED
          BY ONLY <4>1, Regrouped
      <3> QED
        BY <3>2, <3>3, <3>4 DEF InTurn, b1, b2, snap
    <2> QED
      BY <1>3, <2>1, <2>2
  <1>11. ASSUME NEW t \in Targets, serving[t].on
         PROVE  \E U, D \in SUBSET Keys : Batch(u, t, serving[t], results, v, U, D)
    <2> DEFINE U == {k \in Keys : t \in updated(k)}
               D == {k \in Keys : t \in removed(k)}
    <2>1. known(t) = Base(results, t, serving[t].at)
      BY DEF Base
    <2>2. results[v][t] \in SUBSET Keys /\ Base(results, t, serving[t].at) \in SUBSET Keys
      <3>1. results[v] \in [Targets -> SUBSET Keys]
        BY <1>1 DEF WatchInv, TypeOK, n
      <3>2. serving[t].at \in Nat /\ serving[t].at <= v
        BY <1>1, <1>11 DEF WatchInv, TypeOK
      <3>3. CASE serving[t].at = 0
        BY <3>1, <3>3 DEF Base
      <3>4. CASE serving[t].at # 0
        <4>1. serving[t].at \in 1..n
          BY <1>1, <3>2, <3>4
        <4>2. results[serving[t].at] \in [Targets -> SUBSET Keys]
          BY <4>1 DEF WatchInv, TypeOK, n
        <4> QED
          BY <3>1, <3>4, <4>2 DEF Base
      <3> QED
        BY <3>3, <3>4
    <2>3. /\ U = {k \in results[v][t] : k \in written \/ k \notin Base(results, t, serving[t].at)}
          /\ D = IF t \in silent THEN {} ELSE Base(results, t, serving[t].at) \ results[v][t]
      BY <1>11, <2>1, <2>2
    <2>4. t \in resumed <=> serving[t].first /\ serving[t].at > 0
      BY <1>11
    <2>5. t \in silent => t \in resumed
      OBVIOUS
    <2>6. \A k \in Keys : k \in U \cup D => k \in written_to
      OBVIOUS
    <2>7. TellsOnce(docs, t, Len(docs), U, D)
      <3>1. \A k \in Keys : (k \in U <=> t \in updated(k)) /\ (k \in D <=> t \in removed(k))
        OBVIOUS
      <3>2. U \in SUBSET Keys /\ D \in SUBSET Keys
        OBVIOUS
      <3>3. written_to \subseteq Keys /\ DOMAIN docs = 1..Len(docs) /\ Len(docs) \in Nat
        BY <1>4
      <3> HIDE DEF U, D, updated, removed, written_to
      <3>4. ASSUME NEW k \in Keys, NEW i \in DOMAIN docs, Tells(docs, t, k, i)
            PROVE  i <= Len(docs) /\ k \in U \cup D /\ (t \in docs[i].updated <=> k \in U)
        BY <1>4, <3>1, <3>3, <3>4 DEF Tells
      <3>5. ASSUME NEW k \in U \cup D PROVE \E i \in DOMAIN docs : Tells(docs, t, k, i)
        <4>1. k \in Keys /\ k \in written_to
          BY <2>6, <3>2
        <4>2. PICK i \in DOMAIN docs : docs[i].key = k
          BY <1>4, <4>1
        <4> QED
          BY <1>4, <3>1, <4>1, <4>2 DEF Tells
      <3>6. ASSUME NEW k \in Keys, NEW i \in DOMAIN docs, NEW j \in DOMAIN docs,
                   Tells(docs, t, k, i), Tells(docs, t, k, j)
            PROVE  i = j
        BY <1>4, <3>6 DEF Tells
      <3> QED
        BY <3>4, <3>5, <3>6 DEF TellsOnce
    <2> HIDE DEF U, D, known, updated, removed, written_to, on, resumed, early
    <2>8. U \in SUBSET Keys /\ D \in SUBSET Keys
      BY <2>2, <2>3
    <2>9. \A i \in DOMAIN filts : /\ filts[i].type = "Filter"
                                  /\ filts[i].target = t =>
                                         /\ serving[t].first /\ serving[t].at > 0
                                         /\ filts[i].count = Cardinality(results[v][t])
      BY <1>7, <2>4
    <2>10. serving[t].first /\ serving[t].at > 0 => \E i \in DOMAIN filts : filts[i].target = t
      BY <1>7, <2>4
    <2>11. Tidings(t, serving[t], results, v, U, D)
      BY <2>3, <2>4, <2>5 DEF Tidings
    <2> HIDE DEF docs, curs, filts, snap
    <2>12. Batch(u, t, serving[t], results, v, U, D)
      <3>1. docs \in Seq(Message) /\ curs \in Seq(Message) /\ filts \in Seq(Message) /\ snap \in Seq(Message)
        BY <1>4, <1>6, <1>7, <1>8
      <3>2. Only(docs, "Document") /\ Only(curs, "Current") /\ OneSnapshot(snap, v)
        BY <1>4, <1>6, <1>8 DEF Only, OneSnapshot
      <3>3. FiltersFor(filts, t, serving[t], results, v)
        BY <2>9, <2>10 DEF FiltersFor
      <3> QED
        BY ONLY <2>7, <2>8, <2>11, <3>1, <3>2, <3>3, BatchMade
    <2> QED
      BY <2>8, <2>12
  <1> HIDE DEF u
  <1> QED
    BY <1>10, <1>11

\* The filters of a batch stay in front of its snapshot.
LEMMA FiltersJoined ==
    ASSUME NEW b \in Seq(Message), NEW u \in Seq(Message), NEW f \in Nat \ {0}, FiltersFrom(b, f)
    PROVE  FiltersFrom(b \o u, f)
  <1> DEFINE c == b \o u
  <1>1. /\ DOMAIN b = 1..Len(b) /\ Len(b) \in Nat
        /\ \A i \in DOMAIN b : i \in DOMAIN c /\ c[i] = b[i]
    <2>1. /\ Len(b) \in Nat /\ Len(u) \in Nat /\ DOMAIN c = 1..(Len(b) + Len(u)) /\ DOMAIN b = 1..Len(b)
          /\ \A i \in DOMAIN b : c[i] = b[i]
      BY JoinedAt
    <2> HIDE DEF c
    <2> QED
      BY <2>1
  <1> HIDE DEF c
  <1>2. PICK i \in DOMAIN b : i >= f /\ b[i].type = "Snapshot" /\ \A j \in f..(i - 1) : b[j].type = "Filter"
    BY DEF FiltersFrom
  <1>3. ASSUME NEW j \in f..(i - 1) PROVE c[j].type = "Filter"
    <2>1. j \in DOMAIN b
      BY <1>1, <1>2
    <2> QED
      BY <1>1, <1>2, <2>1
  <1> QED
    BY <1>1, <1>2, <1>3 DEF FiltersFrom, c

LEMMA FiltersTail ==
    ASSUME NEW b \in Seq(Message), b # << >>, NEW f \in Nat \ {0}, FiltersFrom(b, f + 1)
    PROVE  FiltersFrom(Tail(b), f)
  <1> DEFINE u == Tail(b)
  <1>1. /\ Len(b) \in Nat /\ DOMAIN b = 1..Len(b) /\ DOMAIN u = 1..(Len(b) - 1)
        /\ \A j \in DOMAIN u : u[j] = b[j + 1]
    OBVIOUS
  <1> HIDE DEF u
  <1>2. PICK i \in DOMAIN b : /\ i >= f + 1 /\ b[i].type = "Snapshot"
                             /\ \A j \in (f + 1)..(i - 1) : b[j].type = "Filter"
    BY DEF FiltersFrom
  <1>3. i - 1 \in DOMAIN u /\ i - 1 >= f /\ u[i - 1] = b[i]
    BY <1>1, <1>2
  <1>4. ASSUME NEW j \in f..((i - 1) - 1) PROVE u[j].type = "Filter"
    <2>1. j \in DOMAIN u /\ j + 1 \in (f + 1)..(i - 1)
      BY <1>1, <1>2
    <2> QED
      BY <1>1, <1>2, <2>1
  <1> QED
    BY <1>2, <1>3, <1>4 DEF FiltersFrom, u

\* Filters at the head are followed by filters, up to the snapshot.
LEMMA FiltersHead ==
    ASSUME NEW b \in Seq(Message), FiltersFrom(b, 1)
    PROVE  /\ b # << >> /\ Head(b) = b[1] /\ b[1].type \in {"Filter", "Snapshot"}
           /\ b[1].type = "Filter" => FiltersFrom(b, 2) /\ FiltersFrom(Tail(b), 1)
  <1>1. PICK i \in DOMAIN b : i >= 1 /\ b[i].type = "Snapshot" /\ \A j \in 1..(i - 1) : b[j].type = "Filter"
    BY DEF FiltersFrom
  <1>2. DOMAIN b = 1..Len(b) /\ Len(b) \in Nat
    OBVIOUS
  <1>3. b # << >> /\ Head(b) = b[1]
    BY <1>1
  <1>4. b[1].type \in {"Filter", "Snapshot"}
    <2>1. CASE i = 1
      BY <1>1, <2>1
    <2>2. CASE i # 1
      <3>1. 1 \in 1..(i - 1)
        BY <1>1, <1>2, <2>2
      <3> QED
        BY <1>1, <3>1
    <2> QED
      BY <2>1, <2>2
  <1>5. ASSUME b[1].type = "Filter" PROVE FiltersFrom(b, 2)
    <2>1. i >= 2
      BY <1>1, <1>2, <1>5
    <2>2. \A j \in 2..(i - 1) : j \in 1..(i - 1)
      OBVIOUS
    <2> QED
      BY <1>1, <2>1, <2>2 DEF FiltersFrom
  <1>6. ASSUME b[1].type = "Filter" PROVE FiltersFrom(Tail(b), 1)
    <2>1. FiltersFrom(b, 1 + 1)
      BY <1>5, <1>6
    <2> QED
      BY <1>3, <2>1, FiltersTail
  <1> QED
    BY <1>3, <1>4, <1>5, <1>6

LEMMA BatchesTail ==
    ASSUME NEW b \in Seq(Message), b # << >>, BatchesSound(b)
    PROVE  /\ BatchesSound(Tail(b))
           /\ b[1].type = "Filter" => FiltersFrom(b, 1) /\ FiltersFrom(Tail(b), 1)
           /\ b[1].type = "Snapshot" => b[1].version > 0
  <1> DEFINE u == Tail(b)
  <1>1. /\ Len(b) \in Nat /\ DOMAIN b = 1..Len(b) /\ DOMAIN u = 1..(Len(b) - 1)
        /\ \A j \in DOMAIN u : u[j] = b[j + 1]
        /\ 1 \in DOMAIN b
    OBVIOUS
  <1> HIDE DEF u
  <1>2. ASSUME NEW i \in DOMAIN u
        PROVE  /\ u[i].type = "Filter" => FiltersFrom(u, i)
               /\ u[i].type = "Snapshot" => u[i].version > 0
    <2>1. i + 1 \in DOMAIN b /\ u[i] = b[i + 1] /\ i \in Nat \ {0}
      BY <1>1
    <2>2. b[i + 1].type = "Filter" => FiltersFrom(b, i + 1)
      BY <2>1 DEF BatchesSound
    <2>3. b[i + 1].type = "Snapshot" => b[i + 1].version > 0
      BY <2>1 DEF BatchesSound
    <2>4. FiltersFrom(b, i + 1) => FiltersFrom(u, i)
      BY <2>1, FiltersTail DEF u
    <2> QED
      BY <2>1, <2>2, <2>3, <2>4
  <1>3. b[1].type = "Filter" => FiltersFrom(b, 1)
    BY <1>1 DEF BatchesSound
  <1>4. FiltersFrom(b, 1) /\ b[1].type = "Filter" => FiltersFrom(u, 1)
    BY FiltersHead DEF u
  <1>5. BatchesSound(u)
    BY <1>2 DEF BatchesSound
  <1> QED
    BY <1>1, <1>3, <1>4, <1>5 DEF BatchesSound, u

\* Messages that follow: filters come with their snapshot.
LEMMA BatchesJoined ==
    ASSUME NEW b \in Seq(Message), NEW u \in Seq(Message), BatchesSound(b), BatchesSound(u)
    PROVE  BatchesSound(b \o u)
  <1> DEFINE c == b \o u
             m == Len(b)
  <1>1. /\ m \in Nat /\ DOMAIN c = 1..(m + Len(u)) /\ DOMAIN b = 1..m /\ Len(u) \in Nat
        /\ DOMAIN u = 1..Len(u)
        /\ \A i \in DOMAIN b : c[i] = b[i]
        /\ \A i \in DOMAIN u : c[m + i] = u[i]
        /\ \A i \in DOMAIN c : i \notin DOMAIN b => i - m \in DOMAIN u /\ m + (i - m) = i
    BY JoinedAt
  <1>2. \A f \in Nat \ {0} : FiltersFrom(b, f) => FiltersFrom(c, f)
    BY FiltersJoined
  <1> HIDE DEF c, m
  <1>3. ASSUME NEW f \in DOMAIN u, FiltersFrom(u, f) PROVE FiltersFrom(c, m + f)
    <2>1. PICK i \in DOMAIN u : i >= f /\ u[i].type = "Snapshot" /\ \A j \in f..(i - 1) : u[j].type = "Filter"
      BY <1>3 DEF FiltersFrom
    <2>2. m + i \in DOMAIN c /\ m + i >= m + f /\ c[m + i] = u[i]
      BY <1>1, <2>1
    <2>3. ASSUME NEW j \in (m + f)..((m + i) - 1) PROVE c[j].type = "Filter"
      <3>1. j - m \in f..(i - 1) /\ j - m \in DOMAIN u /\ m + (j - m) = j
        BY <1>1, <2>1
      <3>2. u[j - m].type = "Filter"
        BY <2>1, <3>1
      <3>3. c[m + (j - m)] = u[j - m]
        BY <1>1, <3>1
      <3> QED
        BY <3>1, <3>2, <3>3
    <2> QED
      BY <2>1, <2>2, <2>3 DEF FiltersFrom
  <1>4. ASSUME NEW i \in DOMAIN c
        PROVE  /\ c[i].type = "Filter" => FiltersFrom(c, i)
               /\ c[i].type = "Snapshot" => c[i].version > 0
    <2>1. CASE i \in DOMAIN b
      <3>1. i \in Nat \ {0} /\ c[i] = b[i]
        BY <1>1, <2>1
      <3> QED
        BY <1>2, <2>1, <3>1 DEF BatchesSound
    <2>2. CASE i \notin DOMAIN b
      <3>1. i - m \in DOMAIN u /\ m + (i - m) = i /\ c[i] = u[i - m]
        BY <1>1, <2>2
      <3>2. u[i - m].type = "Filter" => FiltersFrom(u, i - m)
        BY <3>1 DEF BatchesSound
      <3>3. u[i - m].type = "Snapshot" => u[i - m].version > 0
        BY <3>1 DEF BatchesSound
      <3>4. FiltersFrom(u, i - m) => FiltersFrom(c, m + (i - m))
        BY <1>3, <3>1
      <3> QED
        BY <3>1, <3>2, <3>3, <3>4
    <2> QED
      BY <2>1, <2>2
  <1> QED
    BY <1>4 DEF BatchesSound, c

LEMMA BatchIsSound ==
    ASSUME NEW u \in Seq(Message), NEW t, NEW s, NEW r, NEW v \in Nat, NEW U, NEW D,
           Batch(u, t, s, r, v, U, D), v > 0
    PROVE  BatchesSound(u)
  <1>1. DOMAIN u = 1..Len(u) /\ Len(u) \in Nat /\ Len(u) \in DOMAIN u
    BY DEF Batch
  <1>2. /\ u[Len(u)].version = v /\ u[Len(u)].type = "Snapshot"
        /\ \A i \in DOMAIN u : u[i].type = "Snapshot" => i = Len(u)
        /\ \A i \in DOMAIN u : u[i].type = "Filter" =>
               \A j \in DOMAIN u : i <= j /\ j < Len(u) => u[j].type = "Filter"
    BY <1>1 DEF Batch
  <1>3. ASSUME NEW i \in DOMAIN u, u[i].type = "Filter" PROVE FiltersFrom(u, i)
    <2>1. Len(u) >= i /\ \A j \in i..(Len(u) - 1) : j \in DOMAIN u /\ i <= j /\ j < Len(u)
      BY <1>1
    <2>2. \A j \in i..(Len(u) - 1) : u[j].type = "Filter"
      BY <1>2, <1>3, <2>1
    <2> QED
      BY <1>1, <1>2, <2>1, <2>2 DEF FiltersFrom
  <1> QED
    BY <1>2, <1>3 DEF BatchesSound

\* An answer of another target changes nothing.
LEMMA AnswerJoined ==
    ASSUME NEW b \in Seq(Message), NEW e \in Message, e.type \in {"Added", "Removed"},
           NEW t, e.target # t, NEW E \in SUBSET Keys, NEW s, NEW r, NewsSound(b, t, E, s, r)
    PROVE  NewsSound(Append(b, e), t, E, s, r)
  <1> DEFINE u == <<e>>
             c == b \o u
             m == Len(b)
  <1>1. u \in Seq(Message) /\ Len(u) = 1 /\ u[1] = e /\ DOMAIN u = {1} /\ Append(b, e) = c
    OBVIOUS
  <1>2. /\ m \in Nat /\ Len(c) = m + Len(u) /\ DOMAIN c = 1..(m + Len(u)) /\ DOMAIN b = 1..m
        /\ \A i \in DOMAIN b : c[i] = b[i]
        /\ \A i \in DOMAIN u : c[m + i] = u[i]
    BY <1>1, JoinedAt
  <1>3. \A i \in DOMAIN u : ~Answers(u, t, i)
    BY <1>1 DEF Answers
  <1>4. \A i \in DOMAIN b : Late(c, t, i) <=> Late(b, t, i)
    BY <1>1, <1>3, JoinedLate
  <1>5. ASSUME NEW n \in 0..m PROVE After(c, t, E, n) = After(b, t, E, n)
    <2> HIDE DEF u
    <2>1. n \in 0..Len(b)
      OBVIOUS
    <2>2. After(b \o u, t, E, n) = After(b, t, E, n)
      BY <1>1, <1>3, <2>1, AfterJoined
    <2> QED
      BY <2>2
  <1>6. After(c, t, E, m + 1) = After(b, t, E, m)
    <2>1. TellsOnce(u, t, 1, {}, {})
      BY <1>1 DEF TellsOnce, Tells
    <2>2. {} \in SUBSET Keys /\ 1 \in 0..Len(u) /\ {} \cap {} = {}
      BY <1>1
    <2> HIDE DEF u
    <2>3. After(b \o u, t, E, Len(b) + 1) = Told(After(b, t, E, Len(b)), {}, {})
      BY <1>1, <1>3, <2>1, <2>2, AfterTold
    <2> QED
      BY <2>3 DEF Told
  <1> HIDE DEF c, u, m
  <1>7. Len(c) = m + 1 /\ c[m + 1] = e /\ \A i \in DOMAIN c : i \in DOMAIN b \/ i = m + 1
    BY <1>1, <1>2
  <1>8. ASSUME NEW i \in DOMAIN c, FilterFor(c, t, i) \/ SnapshotFor(c, t, i)
        PROVE  i \in DOMAIN b
    BY <1>7, <1>8 DEF FilterFor, SnapshotFor
  <1>9. ASSUME NEW i \in DOMAIN b
        PROVE  /\ i \in DOMAIN c /\ c[i] = b[i]
               /\ FilterFor(c, t, i) <=> FilterFor(b, t, i)
               /\ SnapshotFor(c, t, i) <=> SnapshotFor(b, t, i)
               /\ After(c, t, E, i) = After(b, t, E, i)
    <2>1. i \in DOMAIN c /\ c[i] = b[i] /\ i \in 0..m
      BY <1>1, <1>2
    <2> QED
      BY <1>4, <1>5, <2>1 DEF FilterFor, SnapshotFor
  <1>10. \A i, j \in DOMAIN c : SnapshotFor(c, t, i) /\ FilterFor(c, t, j) => j < i
    BY <1>8, <1>9 DEF NewsSound
  <1>11. Fresh(b, t, E, s, r) => Fresh(c, t, E, s, r)
    <2> SUFFICES ASSUME Fresh(b, t, E, s, r) PROVE Fresh(c, t, E, s, r)
      OBVIOUS
    <2>1. ASSUME NEW i \in DOMAIN c, Late(c, t, i) PROVE c[i].type \in {"Added", "Removed"}
      <3>1. CASE i \in DOMAIN b
        BY <1>4, <1>9, <2>1, <3>1 DEF Fresh
      <3>2. CASE i = m + 1
        BY <1>7, <3>2
      <3> QED
        BY <1>7, <3>1, <3>2
    <2> QED
      BY <2>1 DEF Fresh
  <1>12. Matches(c, t, E) => Matches(b, t, E)
    BY <1>9 DEF Matches
  <1>13. Right(b, t, E, s, r) => Right(c, t, E, s, r)
    <2> SUFFICES ASSUME Right(b, t, E, s, r) PROVE Right(c, t, E, s, r)
      OBVIOUS
    <2>1. After(c, t, E, Len(c)) = r[s.at][t]
      BY <1>6, <1>7 DEF Right, m
    <2>2. ASSUME NEW i \in DOMAIN c, SnapshotFor(c, t, i) PROVE After(c, t, E, i) = r[c[i].version][t]
      BY <1>8, <1>9, <2>2 DEF Right
    <2> QED
      BY <2>1, <2>2 DEF Right
  <1> QED
    BY <1>1, <1>10, <1>11, <1>12, <1>13 DEF NewsSound

\* Later versions of the results change nothing.
LEMMA NewsOfLonger ==
    ASSUME NEW b \in Seq(Message), NEW t, NEW E, NEW s, NEW r \in Seq([Targets -> SUBSET Keys]),
           NEW x \in [Targets -> SUBSET Keys], NewsSound(b, t, E, s, r), s.at \in Nat,
           \A i \in DOMAIN b : b[i].type = "Snapshot" => b[i].version \in 0..Len(r) /\ b[i].version > 0
    PROVE  NewsSound(b, t, E, s, Append(r, x))
  <1> DEFINE z == Append(r, x)
  <1>1. Len(r) \in Nat /\ Len(z) = Len(r) + 1 /\ \A i \in 1..Len(r) : z[i] = r[i]
    OBVIOUS
  <1> HIDE DEF z
  <1>2. s.at \in 0..Len(r) /\ s.at \in 0..Len(z)
    BY <1>1 DEF NewsSound
  <1>3. Base(z, t, s.at) = Base(r, t, s.at)
    <2>1. s.at # 0 => s.at \in 1..Len(r)
      BY <1>1, <1>2
    <2> QED
      BY <1>1, <2>1 DEF Base
  <1>4. Fresh(b, t, E, s, r) => Fresh(b, t, E, s, z)
    BY <1>3 DEF Fresh
  <1>5. s.at > 0 /\ Right(b, t, E, s, r) => Right(b, t, E, s, z)
    <2>1. ASSUME NEW i \in DOMAIN b, SnapshotFor(b, t, i) PROVE z[b[i].version] = r[b[i].version]
      <3>1. b[i].version \in 1..Len(r)
        BY <1>1, <2>1 DEF SnapshotFor
      <3> QED
        BY <1>1, <3>1
    <2>2. s.at > 0 => z[s.at] = r[s.at]
      <3>1. s.at > 0 => s.at \in 1..Len(r)
        BY <1>1, <1>2
      <3> QED
        BY <1>1, <3>1
    <2> QED
      BY <2>1, <2>2 DEF Right
  <1> QED
    BY <1>2, <1>4, <1>5 DEF NewsSound, z

-----------------------------------------------------------------------------
(***************************************************************************)
(* Requests and the answers owed.                                          *)
(***************************************************************************)
Owed(w, b, t, n) ==
    /\ n \in Nat
    /\ n = 0 => ~Asked(w, t) /\ \A i \in DOMAIN b : ~Answers(b, t, i)
    /\ n # 0 /\ ~Asked(w, t) => \E i \in DOMAIN b : Answers(b, t, i)

LEMMA OwedIs ==
    ASSUME NEW w \in Seq(Request), NEW b \in Seq(Message), NEW t \in Targets, NEW n,
           n = Cardinality({i \in DOMAIN w : w[i].target = t}) +
                   Cardinality({i \in DOMAIN b : b[i].type \in {"Added", "Removed"} /\ b[i].target = t})
    PROVE  Owed(w, b, t, n)
  <1> DEFINE A == {i \in DOMAIN w : w[i].target = t}
             B == {i \in DOMAIN b : b[i].type \in {"Added", "Removed"} /\ b[i].target = t}
  <1>1. IsFiniteSet(A) /\ IsFiniteSet(B)
    <2>1. A \in SUBSET (1..Len(w)) /\ B \in SUBSET (1..Len(b)) /\ Len(w) \in Nat /\ Len(b) \in Nat
      OBVIOUS
    <2>2. IsFiniteSet(1..Len(w)) /\ IsFiniteSet(1..Len(b))
      BY <2>1, FS_Interval
    <2> QED
      BY <2>1, <2>2, FS_Subset
  <1>2. /\ Cardinality(A) \in Nat /\ Cardinality(B) \in Nat
        /\ Cardinality(A) = 0 <=> A = {}
        /\ Cardinality(B) = 0 <=> B = {}
    BY <1>1, FS_CardinalityType, FS_EmptySet
  <1>3. n = Cardinality(A) + Cardinality(B)
    OBVIOUS
  <1>4. (Asked(w, t) <=> A # {}) /\ ((\E i \in DOMAIN b : Answers(b, t, i)) <=> B # {})
    BY DEF Asked, Answers
  <1> HIDE DEF A, B
  <1> QED
    BY <1>2, <1>3, <1>4 DEF Owed

LEMMA OwedNow ==
    ASSUME WatchInv, NEW t \in Targets
    PROVE  Owed(wire, inbox, t, states[t].outstanding)
  <1>1. wire \in Seq(Request) /\ inbox \in Seq(Message) /\ states[t].outstanding = Answering(t)
    BY DEF WatchInv, TypeOK, AnswersCounted
  <1> QED
    BY <1>1, OwedIs DEF Answering

LEMMA OwedNext ==
    ASSUME WatchInv', NEW t \in Targets
    PROVE  Owed(wire', inbox', t, states'[t].outstanding)
  <1>1. wire' \in Seq(Request) /\ inbox' \in Seq(Message) /\ states'[t].outstanding = Answering(t)'
    BY DEF WatchInv, TypeOK, AnswersCounted
  <1> QED
    BY <1>1, OwedIs DEF Answering

\* While an answer is due, the messages of a target are not heard.
LEMMA NotHeard ==
    ASSUME NEW w, NEW b \in Seq(Message), NEW t, NEW n, Owed(w, b, t, n), n # 0, ~Asked(w, t)
    PROVE  ~Late(b, t, 1) /\ (\A k : ~Mentions(b, t, k, 1)) /\ ~FilterFor(b, t, 1) /\ ~SnapshotFor(b, t, 1)
  <1>1. PICK i \in DOMAIN b : Answers(b, t, i)
    BY DEF Owed
  <1>2. ASSUME Late(b, t, 1) PROVE FALSE
    <2>1. i < 1 /\ i \in 1..Len(b)
      BY <1>1, <1>2 DEF Late
    <2> QED
      BY <2>1
  <1> QED
    BY <1>2 DEF Mentions, FilterFor, SnapshotFor

LEMMA WireJoined ==
    ASSUME NEW w \in Seq(Request), NEW x \in Seq(Request), NEW t, \A i \in DOMAIN x : x[i].target # t
    PROVE  /\ Asked(w \o x, t) <=> Asked(w, t)
           /\ \A i \in DOMAIN (w \o x) : LastAsked(w \o x, t, i) => LastAsked(w, t, i) /\ (w \o x)[i] = w[i]
  <1> DEFINE c == w \o x
             m == Len(w)
  <1>1. /\ m \in Nat /\ Len(x) \in Nat
        /\ DOMAIN c = 1..(m + Len(x)) /\ DOMAIN w = 1..m /\ DOMAIN x = 1..Len(x)
        /\ \A i \in DOMAIN w : c[i] = w[i]
        /\ \A i \in DOMAIN x : c[m + i] = x[i]
        /\ \A i \in DOMAIN c : i \notin DOMAIN w => i - m \in DOMAIN x /\ m + (i - m) = i
    OBVIOUS
  <1> HIDE DEF c, m
  <1>2. ASSUME NEW i \in DOMAIN c, c[i].target = t PROVE i \in DOMAIN w /\ w[i] = c[i]
    <2>1. SUFFICES ASSUME i \notin DOMAIN w PROVE FALSE
      BY <1>1
    <2>2. i - m \in DOMAIN x /\ c[i] = x[i - m]
      BY <1>1, <2>1
    <2> QED
      BY <1>2, <2>2
  <1>3. \A i \in DOMAIN w : i \in DOMAIN c /\ c[i] = w[i]
    BY <1>1
  <1> QED
    BY <1>2, <1>3 DEF Asked, LastAsked, c

LEMMA WireTail ==
    ASSUME NEW w \in Seq(Request), w # << >>, NEW t
    PROVE  /\ Head(w).target # t => (Asked(Tail(w), t) <=> Asked(w, t))
           /\ Asked(Tail(w), t) => Asked(w, t)
           /\ \A i \in DOMAIN Tail(w) : LastAsked(Tail(w), t, i) =>
                  i + 1 \in DOMAIN w /\ LastAsked(w, t, i + 1) /\ Tail(w)[i] = w[i + 1]
           /\ Head(w).target = t /\ ~Asked(Tail(w), t) => LastAsked(w, t, 1) /\ w[1] = Head(w)
  <1> DEFINE u == Tail(w)
  <1>1. /\ Len(w) \in Nat /\ DOMAIN w = 1..Len(w) /\ DOMAIN u = 1..(Len(w) - 1)
        /\ \A j \in DOMAIN u : u[j] = w[j + 1]
        /\ Head(w) = w[1] /\ 1 \in DOMAIN w
    OBVIOUS
  <1> HIDE DEF u
  <1>2. ASSUME NEW i \in DOMAIN u PROVE i + 1 \in DOMAIN w /\ u[i] = w[i + 1]
    BY <1>1
  <1>3. ASSUME NEW i \in DOMAIN w, i # 1 PROVE i - 1 \in DOMAIN u /\ u[i - 1] = w[i] /\ (i - 1) + 1 = i
    BY <1>1, <1>3
  <1>4. Asked(u, t) => Asked(w, t)
    BY <1>2 DEF Asked
  <1>5. Head(w).target # t => (Asked(w, t) => Asked(u, t))
    BY <1>1, <1>3 DEF Asked
  <1>6. ASSUME NEW i \in DOMAIN u, LastAsked(u, t, i) PROVE LastAsked(w, t, i + 1)
    <2>1. i + 1 \in DOMAIN w /\ w[i + 1].target = t /\ i \in Nat
      BY <1>1, <1>2, <1>6 DEF LastAsked
    <2>2. ASSUME NEW j \in DOMAIN w, w[j].target = t PROVE j <= i + 1
      <3>1. CASE j = 1
        BY <2>1, <3>1
      <3>2. CASE j # 1
        <4>1. j - 1 \in DOMAIN u /\ u[j - 1] = w[j] /\ (j - 1) + 1 = j
          BY <1>3, <3>2
        <4>2. j - 1 <= i
          BY <1>6, <2>2, <4>1 DEF LastAsked
        <4> QED
          BY <1>1, <2>1, <4>1, <4>2
      <3> QED
        BY <3>1, <3>2
    <2> QED
      BY <2>1, <2>2 DEF LastAsked
  <1>7. ASSUME Head(w).target = t, ~Asked(u, t) PROVE LastAsked(w, t, 1)
    <2>1. ASSUME NEW j \in DOMAIN w, w[j].target = t PROVE j <= 1
      <3>1. SUFFICES ASSUME j # 1 PROVE FALSE
        OBVIOUS
      <3>2. j - 1 \in DOMAIN u /\ u[j - 1] = w[j]
        BY <1>3, <3>1
      <3> QED
        BY <1>7, <2>1, <3>2 DEF Asked
    <2> QED
      BY <1>1, <1>7, <2>1 DEF LastAsked
  <1> QED
    BY <1>1, <1>2, <1>4, <1>5, <1>6, <1>7 DEF u

-----------------------------------------------------------------------------
(***************************************************************************)
(* Steps that leave a target as it is.                                     *)
(***************************************************************************)
LEMMA DiskKept ==
    ASSUME NEW t, DiskSound(t), results' = results, keys'[t] = keys[t], saved'[t] = saved[t],
           t \in listening' => t \in listening /\ token'[t] = token[t],
           t \in current' => t \in current /\ token'[t] = token[t]
    PROVE  DiskSound(t)'
  BY DEF DiskSound, Exact

LEMMA LineKept ==
    ASSUME NEW t, LineSound(t), UNCHANGED <<results, wire, inbox>>, keys'[t] = keys[t],
           token'[t] = token[t], states'[t] = states[t], serving'[t] = serving[t],
           t \in resets' <=> t \in resets
    PROVE  LineSound(t)'
  <1>1. AddedAnew(t)' /\ AskedFromToken(t)' /\ ResetAlone(t)'
    BY DEF LineSound, AddedAnew, AskedFromToken, ResetAlone
  <1>2. ToldSoundly(t)'
    BY DEF LineSound, ToldSoundly
  <1> QED
    BY <1>1, <1>2 DEF LineSound

\* A stream that closes takes what was on it; views may be left.
LEMMA DisconnectionExact ==
    ASSUME WatchInv, ConnectionLost \/ IdleTimeout \/ ConnectivityChanges \/ Crash \/ BackoffElapses,
           NEW t \in Targets, TargetSound(t)
    PROVE  TargetSound(t)'
  <1>1. /\ results' = results /\ keys' = keys /\ saved' = saved
        /\ listening' \subseteq listening /\ current' \subseteq current
        /\ token' = token \/ (listening' = {} /\ current' = {})
        /\ stream'.state # "Open"
    <2>1. CASE ConnectionLost
      BY <2>1 DEF ConnectionLost, Viewed, disk
    <2>2. CASE IdleTimeout
      BY <2>2 DEF IdleTimeout, disk, targets, NewStream
    <2>3. CASE ConnectivityChanges
      BY <2>3 DEF ConnectivityChanges, disk, targets, NewStream, Started
    <2>4. CASE Crash
      BY <2>4 DEF Crash, disk, NewStream
    <2>5. CASE BackoffElapses
      <3>1. stream'.state = "Starting"
        BY <2>5 DEF BackoffElapses, WatchInv, TypeOK
      <3> QED
        BY <2>5, <3>1 DEF BackoffElapses, disk, targets
    <2> QED
      BY <2>1, <2>2, <2>3, <2>4, <2>5
  <1>2. DiskSound(t)'
    BY <1>1, DiskKept DEF TargetSound
  <1> QED
    BY <1>1, <1>2 DEF TargetSound

LEMMA QuietStepExact ==
    ASSUME OnlineTimeout \/ Start \/ UNCHANGED vars, NEW t \in Targets, TargetSound(t)
    PROVE  TargetSound(t)'
  <1>1. /\ UNCHANGED <<results, serving, wire, inbox, keys, saved, listening, token, stream, states, resets>>
        /\ current' \subseteq current
    <2>1. CASE OnlineTimeout
      BY <2>1 DEF OnlineTimeout, Viewed, connection, disk, aggregator
    <2>2. CASE Start
      BY <2>2 DEF Start, connection, disk, targets, aggregator
    <2>3. CASE UNCHANGED vars
      BY <2>3 DEF vars, connection, disk, targets, aggregator
    <2> QED
      BY <2>1, <2>2, <2>3
  <1>2. DiskSound(t)'
    BY <1>1, DiskKept DEF TargetSound
  <1>3. ASSUME stream'.state = "Open", t \in listening' PROVE LineSound(t)'
    BY <1>1, <1>3, LineKept DEF TargetSound
  <1> QED
    BY <1>2, <1>3 DEF TargetSound

\* Requests of another target change nothing.
LEMMA OthersAsked ==
    ASSUME NEW t, LineSound(t), wire \in Seq(Request), NEW x \in Seq(Request),
           \A i \in DOMAIN x : x[i].target # t,
           wire' = wire \o x, UNCHANGED <<results, inbox>>, keys'[t] = keys[t], token'[t] = token[t],
           states'[t] = states[t], serving'[t] = serving[t], t \in resets' <=> t \in resets
    PROVE  LineSound(t)'
  <1>1. /\ Asked(wire', t) <=> Asked(wire, t)
        /\ \A i \in DOMAIN wire' : LastAsked(wire', t, i) => LastAsked(wire, t, i) /\ wire'[i] = wire[i]
    BY WireJoined
  <1>2. AddedAnew(t)' /\ ResetAlone(t)'
    BY DEF LineSound, AddedAnew, ResetAlone
  <1>3. AskedFromToken(t)'
    BY <1>1 DEF LineSound, AskedFromToken, LastAsked
  <1>4. ToldSoundly(t)'
    BY <1>1 DEF LineSound, ToldSoundly
  <1> QED
    BY <1>2, <1>3, <1>4 DEF LineSound

LEMMA LastAppended ==
    ASSUME NEW w \in Seq(Request), NEW r \in Request
    PROVE  /\ Asked(Append(w, r), r.target)
           /\ \A i \in DOMAIN Append(w, r) : LastAsked(Append(w, r), r.target, i) => Append(w, r)[i] = r
  <1> DEFINE c == Append(w, r)
             m == Len(w)
  <1>1. m \in Nat /\ DOMAIN c = 1..(m + 1) /\ c[m + 1] = r /\ m + 1 \in DOMAIN c
    OBVIOUS
  <1> HIDE DEF c, m
  <1>2. ASSUME NEW i \in DOMAIN c, LastAsked(c, r.target, i) PROVE i = m + 1
    <2>1. m + 1 <= i
      BY <1>1, <1>2 DEF LastAsked
    <2> QED
      BY <1>1, <2>1
  <1> QED
    BY <1>1, <1>2 DEF Asked, c

LEMMA ListenExact ==
    ASSUME WatchInv, WatchInv', NEW u \in Targets, Listen(u), NEW t \in Targets \ outlived', TargetSound(t)
    PROVE  TargetSound(t)'
  <1>1. /\ UNCHANGED <<results, serving, inbox, keys, saved, current, resets>>
        /\ u \notin listening /\ listening' = listening \cup {u}
        /\ token' = [token EXCEPT ![u] = [store |-> saved[u], remote |-> saved[u]]]
        /\ outlived' = outlived \cup ({u} \cap resets)
        /\ stream' = IF IsStarted(stream) THEN [stream EXCEPT !.idle = FALSE] ELSE Started(stream)
    BY DEF Listen, disk
  <1>2. stream'.state = "Open" => stream.state = "Open"
    BY <1>1 DEF IsStarted, Started, WatchInv, TypeOK
  <1>3. /\ wire \in Seq(Request) /\ u \notin current /\ saved[u] \in Nat
        /\ token \in [Targets -> [store : 0..Len(results), remote : 0..Len(results)]]
        /\ states \in [Targets -> TargetState]
    BY SMTT(60), <1>1 DEF WatchInv, TypeOK
  <1>4. stream.state = "Open" => /\ wire' = Append(wire, WatchRequest(u, saved[u]))
                                 /\ states' = [states EXCEPT ![u] = Requested(@, 1)]
    BY DEF Listen
  <1>5. WatchRequest(u, saved[u]) \in Request /\ WatchRequest(u, saved[u]).target = u
    BY <1>3 DEF WatchRequest, Request
  <1>6. CASE t = u
    <2>1. token'[t].store = saved[t] /\ token'[t].remote = saved[t] /\ t \notin current' /\ t \notin resets'
      BY <1>1, <1>3, <1>6
    <2>2. DiskSound(t)'
      BY <1>1, <2>1 DEF TargetSound, DiskSound
    <2>3. ASSUME stream'.state = "Open" PROVE LineSound(t)'
      <3> DEFINE r == WatchRequest(u, saved[u])
      <3>1. wire' = Append(wire, r) /\ states'[t] = Requested(states[t], 1)
        BY <1>2, <1>3, <1>4, <1>6, <2>3
      <3>2. r \in Request /\ r.target = t /\ r = WatchRequest(t, token'[t].remote)
        BY <1>5, <1>6, <2>1
      <3> HIDE DEF r
      <3>3. Asked(wire', t) /\ \A i \in DOMAIN wire' : LastAsked(wire', t, i) => wire'[i] = r
        BY <1>3, <3>1, <3>2, LastAppended
      <3>4. states'[t].outstanding # 0
        BY <3>3, OwedNext DEF Owed
      <3>5. AddedAnew(t)' /\ ResetAlone(t)' /\ ToldSoundly(t)'
        BY <2>1, <3>3, <3>4 DEF AddedAnew, ResetAlone, ToldSoundly
      <3>6. AskedFromToken(t)'
        BY <3>2, <3>3 DEF AskedFromToken, LastAsked
      <3> QED
        BY <3>5, <3>6 DEF LineSound
    <2> QED
      BY <2>2, <2>3 DEF TargetSound
  <1>7. CASE t # u
    <2>1. token'[t] = token[t] /\ (t \in listening' <=> t \in listening)
      BY <1>1, <1>3, <1>7
    <2>2. DiskSound(t)'
      BY <1>1, <2>1, DiskKept DEF TargetSound
    <2>3. ASSUME stream'.state = "Open", t \in listening' PROVE LineSound(t)'
      <3> DEFINE r == WatchRequest(u, saved[u])
                 x == <<r>>
      <3>1. wire' = Append(wire, r) /\ states'[t] = states[t]
        BY <1>2, <1>3, <1>4, <1>7, <2>3
      <3>2. r \in Request /\ r.target # t
        BY <1>5, <1>7
      <3> HIDE DEF r
      <3>3. x \in Seq(Request) /\ wire' = wire \o x /\ \A i \in DOMAIN x : x[i].target # t
        BY <1>3, <3>1, <3>2
      <3>4. LineSound(t)
        BY <1>2, <2>1, <2>3 DEF TargetSound
      <3> HIDE DEF x
      <3> QED
        BY <1>1, <1>3, <2>1, <3>1, <3>3, <3>4, OthersAsked
    <2> QED
      BY <2>2, <2>3 DEF TargetSound
  <1> QED
    BY <1>6, <1>7

LEMMA StopListeningExact ==
    ASSUME WatchInv, NEW u \in Targets, StopListening(u), NEW t \in Targets, TargetSound(t)
    PROVE  TargetSound(t)'
  <1>1. /\ UNCHANGED <<results, serving, inbox, keys, resets>>
        /\ u \in listening /\ listening' = listening \ {u} /\ current' = current \ {u}
        /\ saved' = [saved EXCEPT ![u] = token[u].store]
        /\ token' = [token EXCEPT ![u] = NoToken]
    BY DEF StopListening
  <1>2. stream'.state = "Open" => stream.state = "Open"
    BY DEF StopListening
  <1>3. /\ wire \in Seq(Request) /\ saved \in [Targets -> 0..Len(results)]
        /\ token \in [Targets -> [store : 0..Len(results), remote : 0..Len(results)]]
        /\ states \in [Targets -> TargetState]
    BY DEF WatchInv, TypeOK
  <1>4. CASE t = u
    <2>1. saved'[t] = token[t].store /\ t \notin listening' /\ t \notin current' /\ t \in listening
      BY <1>1, <1>3, <1>4
    <2>2. DiskSound(t)'
      BY <1>1, <2>1 DEF TargetSound, DiskSound
    <2> QED
      BY <2>1, <2>2 DEF TargetSound
  <1>5. CASE t # u
    <2>1. token'[t] = token[t] /\ saved'[t] = saved[t] /\ (t \in listening' <=> t \in listening)
          /\ (t \in current' <=> t \in current)
      BY <1>1, <1>3, <1>5
    <2>2. DiskSound(t)'
      BY <1>1, <2>1, DiskKept DEF TargetSound
    <2>3. ASSUME stream'.state = "Open", t \in listening' PROVE LineSound(t)'
      <3> DEFINE r == UnwatchRequest(u)
                 x == <<r>>
      <3>1. wire' = Append(wire, r) /\ states'[t] = states[t]
        BY <1>2, <1>3, <1>5, <2>3 DEF StopListening
      <3>2. r \in Request /\ r.target # t
        BY <1>5 DEF UnwatchRequest, Request
      <3> HIDE DEF r
      <3>3. x \in Seq(Request) /\ wire' = wire \o x /\ \A i \in DOMAIN x : x[i].target # t
        BY <1>3, <3>1, <3>2
      <3>4. LineSound(t)
        BY <1>2, <2>1, <2>3 DEF TargetSound
      <3> HIDE DEF x
      <3> QED
        BY <1>1, <1>3, <2>1, <3>1, <3>3, <3>4, OthersAsked
    <2> QED
      BY <2>2, <2>3 DEF TargetSound
  <1> QED
    BY <1>4, <1>5

LEMMA StreamOpensExact ==
    ASSUME WatchInv, WatchInv', StreamOpens, NEW t \in Targets, TargetSound(t)
    PROVE  TargetSound(t)'
  <1> DEFINE g == SetToSeq(listening)
  <1>1. /\ UNCHANGED <<results, keys, saved, listening, token, current, resets>>
        /\ wire' = [i \in DOMAIN g |-> WatchRequest(g[i], token[g[i]].remote)]
    BY DEF StreamOpens, disk, targets
  <1>2. resets = {}
    BY DEF StreamOpens, WatchInv, StreamQuiet
  <1>3. DiskSound(t)'
    BY <1>1, DiskKept DEF TargetSound
  <1>4. ASSUME t \in listening PROVE LineSound(t)'
    <2>1. IsFiniteSet(listening)
      BY FiniteAssumption, FS_Subset DEF WatchInv, TypeOK
    <2>2. PICK i \in DOMAIN g : g[i] = t
      BY <1>4, <2>1, SetToSeqSound
    <2> HIDE DEF g
    <2>3. DOMAIN wire' = DOMAIN g /\ \A j \in DOMAIN g : wire'[j] = WatchRequest(g[j], token[g[j]].remote)
      BY <1>1
    <2>4. Asked(wire', t)
      BY <2>2, <2>3 DEF Asked, WatchRequest
    <2>5. states'[t].outstanding # 0
      BY <2>4, OwedNext DEF Owed
    <2>6. AskedFromToken(t)'
      <3>1. ASSUME NEW j \in DOMAIN wire', wire'[j].target = t PROVE wire'[j] = WatchRequest(t, token'[t].remote)
        BY <1>1, <2>3, <3>1 DEF WatchRequest
      <3> QED
        BY <3>1 DEF AskedFromToken, LastAsked
    <2>7. AddedAnew(t)' /\ ResetAlone(t)' /\ ToldSoundly(t)'
      BY <1>1, <1>2, <2>4, <2>5 DEF AddedAnew, ResetAlone, ToldSoundly
    <2> QED
      BY <2>6, <2>7 DEF LineSound
  <1> QED
    BY <1>1, <1>3, <1>4 DEF TargetSound

-----------------------------------------------------------------------------
(***************************************************************************)
(* Messages received.                                                      *)
(***************************************************************************)
\* What the head of the inbox makes of what a target's documents are known to be.
HeardSoundly(t) ==
    /\ AddedAnew(t)' /\ ResetAlone(t)'
    /\ t \notin resets' /\ ~Asked(wire, t) =>
           /\ t \notin resets
           /\ Known(states'[t], keys[t]) = After(inbox, t, Known(states[t], keys[t]), 1)
           /\ FilterFor(inbox, t, 1) => Cardinality(Known(states[t], keys[t])) = inbox[1].count

LEMMA KnownTyped ==
    ASSUME WatchInv, NEW t \in Targets, NEW s
    PROVE  Known(s, keys[t]) \in SUBSET Keys
  <1>1. keys[t] \in SUBSET Keys
    BY DEF WatchInv, TypeOK
  <1>2. Pending(s, keys[t]) \in SUBSET Keys
    BY <1>1 DEF Pending, Changed
  <1> QED
    BY <1>1, <1>2 DEF Known

LEMMA HeardExact ==
    ASSUME WatchInv, NEW type, Received(type), UNCHANGED <<wire, disk, token, current, stream>>,
           NEW t \in Targets, TargetSound(t),
           stream.state = "Open" /\ t \in listening /\ LineSound(t) => HeardSoundly(t)
    PROVE  TargetSound(t)'
  <1>1. /\ inbox # << >> /\ inbox \in Seq(Message) /\ inbox' = Tail(inbox)
        /\ UNCHANGED <<results, serving, listening, wire, keys, saved, token, current, stream>>
        /\ results \in Seq([Targets -> SUBSET Keys])
    BY DEF Received, disk, WatchInv, TypeOK
  <1>2. DiskSound(t)'
    BY <1>1, DiskKept DEF TargetSound
  <1>3. ASSUME stream'.state = "Open", t \in listening' PROVE LineSound(t)'
    <2>1. LineSound(t) /\ HeardSoundly(t)
      BY <1>1, <1>3 DEF TargetSound
    <2>2. AskedFromToken(t)'
      BY <1>1, <2>1 DEF LineSound, AskedFromToken, LastAsked
    <2>3. ToldSoundly(t)'
      <3>1. SUFFICES ASSUME t \notin resets', ~Asked(wire, t)
                     PROVE  NewsSound(inbox', t, Known(states'[t], keys[t]), serving[t], results)
        BY <1>1 DEF ToldSoundly, Asked
      <3> DEFINE E == Known(states[t], keys[t])
      <3>2. /\ NewsSound(inbox, t, E, serving[t], results)
            /\ Known(states'[t], keys[t]) = After(inbox, t, E, 1)
            /\ FilterFor(inbox, t, 1) => Cardinality(E) = inbox[1].count
        BY <2>1, <3>1 DEF HeardSoundly, LineSound, ToldSoundly
      <3>3. E \in SUBSET Keys
        BY KnownTyped
      <3> HIDE DEF E
      <3>4. NewsSound(Tail(inbox), t, After(inbox, t, E, 1), serving[t], results)
        BY <1>1, <3>2, <3>3, NewsTail
      <3> QED
        BY <1>1, <3>2, <3>4
    <2> QED
      BY <2>1, <2>2, <2>3 DEF LineSound, HeardSoundly
  <1> QED
    BY <1>2, <1>3 DEF TargetSound

\* A message that is no news of t's documents, nor of a reset.
LEMMA NotTold ==
    ASSUME WatchInv, BatchesSound(inbox), NEW type, Received(type), disk' = disk,
           NEW t \in Targets, LineSound(t),
           Known(states'[t], keys[t]) = Known(states[t], keys[t]), AddedAnew(t)',
           \A k : ~Mentions(inbox, t, k, 1),
           FilterFor(inbox, t, 1) => Cardinality(Known(states[t], keys[t])) = inbox[1].count,
           t \in resets' <=> t \in resets,
           t \in resets => inbox[1].type = "Filter" /\ states'[t].outstanding = states[t].outstanding
    PROVE  HeardSoundly(t)
  <1>1. inbox # << >> /\ inbox \in Seq(Message) /\ inbox' = Tail(inbox) /\ keys' = keys
    BY DEF Received, disk, WatchInv, TypeOK
  <1>2. After(inbox, t, Known(states[t], keys[t]), 1) = Known(states[t], keys[t])
    BY KnownTyped, NotMentioned
  <1>3. ResetAlone(t)'
    <2>1. SUFFICES ASSUME t \in resets
                   PROVE  states'[t].outstanding = 0 /\ Known(states'[t], keys[t]) = {} /\ FiltersFrom(inbox', 1)
      BY <1>1 DEF ResetAlone
    <2>2. states[t].outstanding = 0 /\ Known(states[t], keys[t]) = {} /\ FiltersFrom(inbox, 1)
      BY <2>1 DEF LineSound, ResetAlone
    <2>3. FiltersFrom(Tail(inbox), 1)
      BY <1>1, <2>1, <2>2, FiltersHead
    <2> QED
      BY <1>1, <2>1, <2>2, <2>3
  <1> QED
    BY <1>2, <1>3 DEF HeardSoundly

\* A reset waits for filters and its snapshot only.
LEMMA OnlyFilters ==
    ASSUME WatchInv, NEW t, LineSound(t), NEW type, Received(type), type \notin {"Filter", "Snapshot"}
    PROVE  t \notin resets
  <1>1. SUFFICES ASSUME t \in resets PROVE FALSE
    OBVIOUS
  <1>2. FiltersFrom(inbox, 1) /\ inbox \in Seq(Message)
    BY <1>1 DEF LineSound, ResetAlone, WatchInv, TypeOK
  <1>3. Head(inbox).type \in {"Filter", "Snapshot"}
    BY <1>2, FiltersHead
  <1> QED
    BY <1>3 DEF Received

LEMMA HeadIs ==
    ASSUME WatchInv, NEW type, Received(type)
    PROVE  inbox \in Seq(Message) /\ inbox # << >> /\ inbox[1] = Head(inbox) /\ 1 \in DOMAIN inbox
           /\ inbox[1].type = type /\ inbox[1] \in Message
  BY DEF Received, WatchInv, TypeOK

LEMMA ReceiveAnswerExact ==
    ASSUME WatchInv, BatchesSound(inbox), ReceiveAdded \/ ReceiveRemoved, NEW t \in Targets, TargetSound(t)
    PROVE  TargetSound(t)'
  <1> DEFINE u == Head(inbox).target
  <1>1. PICK type \in {"Added", "Removed"} :
            Received(type) /\ states' = [states EXCEPT ![u] = IF type = "Added" THEN Acknowledged(@)
                                                             ELSE Dropped(@)]
    BY DEF ReceiveAdded, ReceiveRemoved
  <1>2. UNCHANGED <<wire, disk, token, current, stream, resets, outlived>>
    BY DEF ReceiveAdded, ReceiveRemoved
  <1>3. inbox \in Seq(Message) /\ inbox[1] = Head(inbox) /\ 1 \in DOMAIN inbox
        /\ inbox[1].type = type /\ inbox[1] \in Message
    BY <1>1, HeadIs
  <1>4. u \in Targets /\ states \in [Targets -> TargetState] /\ states[t] \in TargetState
    BY <1>3 DEF Message, WatchInv, TypeOK
  <1>5. (\A k : ~Mentions(inbox, t, k, 1)) /\ ~FilterFor(inbox, t, 1)
    BY <1>1, <1>3 DEF Mentions, FilterFor
  <1> HIDE DEF u
  <1>6. ASSUME LineSound(t) PROVE HeardSoundly(t)
    <2>1. t \notin resets /\ t \notin resets'
      BY <1>1, <1>2, <1>6, OnlyFilters
    <2>2. CASE t = u
      <3>1. states[t].outstanding # 0 /\ states[t].outstanding \in Nat
        <4>1. Answers(inbox, t, 1)
          BY <1>1, <1>3, <2>2 DEF Answers, u
        <4> QED
          BY <1>3, <4>1, OwedNow DEF Owed
      <3>2. /\ states'[t].outstanding = states[t].outstanding - 1
            /\ states[t].outstanding = 1 => states'[t].changes = NoChanges
        <4>1. states'[t] = IF type = "Added" THEN Acknowledged(states[t]) ELSE Dropped(states[t])
          BY <1>1, <1>4, <2>2
        <4> QED
          BY <1>4, <4>1, AcknowledgedSound, DroppedSound
      <3>3. states'[t].outstanding = 0 => Changed(states'[t], "added") = {} /\ Changed(states'[t], "removed") = {}
        BY <3>1, <3>2 DEF Changed, NoChanges
      <3>4. AddedAnew(t)'
        BY <3>3 DEF AddedAnew
      <3>5. Known(states'[t], keys[t]) = keys[t] /\ Known(states[t], keys[t]) = keys[t]
        BY <3>1, <3>3 DEF Known, Pending
      <3> QED
        BY <1>1, <1>2, <1>5, <1>6, <2>1, <3>4, <3>5, NotTold
    <2>3. CASE t # u
      <3>1. states'[t] = states[t]
        BY <1>1, <1>4, <2>3
      <3>2. AddedAnew(t)'
        BY <1>2, <1>6, <3>1 DEF LineSound, AddedAnew, disk
      <3> QED
        BY <1>1, <1>2, <1>5, <1>6, <2>1, <3>1, <3>2, NotTold
    <2> QED
      BY <2>2, <2>3
  <1> QED
    BY <1>1, <1>2, <1>6, HeardExact

LEMMA ReceiveCurrentExact ==
    ASSUME WatchInv, BatchesSound(inbox), ReceiveCurrent, NEW t \in Targets, TargetSound(t)
    PROVE  TargetSound(t)'
  <1> DEFINE u == Head(inbox).target
  <1>1. Received("Current") /\ UNCHANGED <<wire, disk, token, current, stream, resets, outlived>>
        /\ states' = IF IsActive(u) THEN [states EXCEPT ![u].current = TRUE] ELSE states
    BY DEF ReceiveCurrent
  <1>2. inbox[1].type = "Current"
    BY <1>1, HeadIs
  <1>3. (\A k : ~Mentions(inbox, t, k, 1)) /\ ~FilterFor(inbox, t, 1)
    BY <1>2 DEF Mentions, FilterFor
  <1> HIDE DEF u
  <1>4. states'[t].outstanding = states[t].outstanding /\ states'[t].changes = states[t].changes
    <2>1. states \in [Targets -> TargetState] /\ states[t] \in TargetState
      BY DEF WatchInv, TypeOK
    <2>2. states'[t] = states[t] \/ states'[t] = [states[t] EXCEPT !.current = TRUE]
      BY <1>1, <2>1
    <2> QED
      BY <2>1, <2>2 DEF TargetState
  <1>5. ASSUME LineSound(t) PROVE HeardSoundly(t)
    <2>1. t \notin resets /\ t \notin resets'
      BY <1>1, <1>5, OnlyFilters
    <2>2. AddedAnew(t)'
      BY <1>1, <1>4, <1>5 DEF LineSound, AddedAnew, disk, Changed
    <2>3. Known(states'[t], keys[t]) = Known(states[t], keys[t])
      BY <1>4 DEF Known, Pending, Changed
    <2> QED
      BY <1>1, <1>3, <1>5, <2>1, <2>2, <2>3, NotTold
  <1> QED
    BY <1>1, <1>5, HeardExact

LEMMA ReceiveDocumentExact ==
    ASSUME WatchInv, BatchesSound(inbox), ReceiveDocument, NEW t \in Targets, TargetSound(t)
    PROVE  TargetSound(t)'
  <1> DEFINE m == Head(inbox)
             k == m.key
             told == IF t \in m.updated THEN AddedChange(t, k) ELSE RemovedChange(t, k)
             heard == IsActive(t) /\ t \in m.updated \cup m.removed
  <1>1. Received("Document") /\ UNCHANGED <<wire, disk, token, current, stream, resets, outlived>>
        /\ states'[t] = IF ~IsActive(t) \/ t \notin m.updated \cup m.removed THEN states[t]
                        ELSE [states[t] EXCEPT !.changes[k] = told]
    BY DEF ReceiveDocument
  <1>2. inbox \in Seq(Message) /\ 1 \in DOMAIN inbox /\ inbox[1] = m /\ m.type = "Document" /\ m \in Message
    BY <1>1, HeadIs
  <1>3. k \in Keys
    BY <1>2 DEF Message
  <1>4. ~FilterFor(inbox, t, 1)
    BY <1>2 DEF FilterFor
  <1>5. states[t] \in TargetState /\ states[t].changes \in [Keys -> ChangeType] /\ keys[t] \in SUBSET Keys
        /\ keys' = keys
    BY <1>1 DEF WatchInv, TypeOK, TargetState, disk
  <1> HIDE DEF m, k, told
  <1>6. ASSUME LineSound(t), t \in listening PROVE HeardSoundly(t)
    <2>1. t \notin resets /\ t \notin resets'
      BY <1>1, <1>6, OnlyFilters
    <2>2. CASE states[t].outstanding # 0
      <3>1. states'[t] = states[t]
        BY <1>1, <2>2 DEF IsActive
      <3>2. ~Asked(wire, t) => \A j : ~Mentions(inbox, t, j, 1)
        BY <1>2, <2>2, OwedNow, NotHeard
      <3>3. AddedAnew(t)' /\ ResetAlone(t)'
        BY <2>1, <2>2, <3>1 DEF AddedAnew, ResetAlone
      <3>4. ~Asked(wire, t) => After(inbox, t, Known(states[t], keys[t]), 1) = Known(states[t], keys[t])
        BY <3>2, KnownTyped, NotMentioned
      <3> QED
        BY <1>4, <2>1, <3>1, <3>3, <3>4 DEF HeardSoundly
    <2>3. CASE states[t].outstanding = 0 /\ t \notin m.updated \cup m.removed
      <3>1. states'[t] = states[t]
        BY <1>1, <2>3
      <3>2. \A j : ~Mentions(inbox, t, j, 1)
        BY <1>2, <2>3 DEF Mentions
      <3>3. AddedAnew(t)'
        BY <1>5, <1>6, <3>1 DEF LineSound, AddedAnew
      <3> QED
        BY <1>1, <1>4, <1>6, <2>1, <3>1, <3>2, <3>3, NotTold
    <2>4. CASE states[t].outstanding = 0 /\ t \in m.updated \cup m.removed
      <3> DEFINE s == states'[t]
                 K == Known(states[t], keys[t])
      <3>1. IsActive(t) /\ s = [states[t] EXCEPT !.changes[k] = told]
        BY <1>1, <1>6, <2>4 DEF IsActive
      <3>2. s.outstanding = 0 /\ s.changes = [states[t].changes EXCEPT ![k] = told]
        BY <1>5, <2>4, <3>1 DEF TargetState
      <3> HIDE DEF s
      <3>3. /\ s.changes[k] = told
            /\ \A j \in Keys \ {k} : s.changes[j] = states[t].changes[j]
        BY <1>3, <1>5, <3>2
      <3>4. /\ told = "added" => k \notin keys[t]
            /\ t \in m.updated => told # "removed" /\ (k \in keys[t] \/ told = "added")
            /\ t \notin m.updated => told # "added" /\ (k \in keys[t] => told = "removed")
        BY DEF told, AddedChange, RemovedChange
      <3>5. Changed(states[t], "added") \cap keys[t] = {}
        BY <1>6, <2>4 DEF LineSound, AddedAnew
      <3>6. Changed(s, "added") \cap keys[t] = {}
        BY <3>3, <3>4, <3>5 DEF Changed
      <3>7. AddedAnew(t)' /\ ResetAlone(t)'
        BY <1>5, <2>1, <3>6 DEF AddedAnew, ResetAlone, s
      <3>8. ~Asked(wire, t) => Late(inbox, t, 1)
        <4>1. \A i \in DOMAIN inbox : ~Answers(inbox, t, i)
          BY <2>4, OwedNow DEF Owed
        <4> QED
          BY <1>2, <4>1 DEF Late
      <3>9. ASSUME ~Asked(wire, t) PROVE Known(s, keys[t]) = After(inbox, t, K, 1)
        <4>1. \A j : Mentions(inbox, t, j, 1) <=> j = k
          BY <1>2, <2>4, <3>8, <3>9 DEF Mentions, k
        <4>2. \A j, l : LastMention(inbox, t, j, 1, l) <=> l = 1 /\ j = k
          <5>1. \A l : l \in 1..1 <=> l = 1
            OBVIOUS
          <5> QED
            BY <4>1, <5>1 DEF LastMention
        <4>3. \A j \in Keys : j \in After(inbox, t, K, 1) <=> IF j = k THEN t \in m.updated ELSE j \in K
          <5>1. \A l : l \in 1..1 <=> l = 1
            OBVIOUS
          <5> HIDE DEF K
          <5> QED
            BY <1>2, <4>1, <4>2, <5>1 DEF After
        <4>4. K = Pending(states[t], keys[t]) /\ Known(s, keys[t]) = Pending(s, keys[t])
          BY <2>4, <3>2 DEF Known
        <4>5. \A j \in Keys : /\ j \in Pending(s, keys[t]) <=>
                                     (j \in keys[t] /\ s.changes[j] # "removed") \/ s.changes[j] = "added"
                              /\ j \in Pending(states[t], keys[t]) <=>
                                     (j \in keys[t] /\ states[t].changes[j] # "removed")
                                         \/ states[t].changes[j] = "added"
          BY DEF Pending, Changed
        <4>6. \A j \in Keys : j \in Pending(s, keys[t]) <=> IF j = k THEN t \in m.updated ELSE j \in K
          <5> HIDE DEF K
          <5>1. k \in Pending(s, keys[t]) <=> t \in m.updated
            BY <1>3, <3>3, <3>4, <4>5
          <5>2. ASSUME NEW j \in Keys \ {k} PROVE j \in Pending(s, keys[t]) <=> j \in K
            BY <3>3, <4>4, <4>5
          <5> QED
            BY <5>1, <5>2
        <4>7. Pending(s, keys[t]) \in SUBSET Keys /\ After(inbox, t, K, 1) \in SUBSET Keys
          BY <1>5 DEF Pending, Changed, After
        <4> QED
          BY <4>3, <4>4, <4>6, <4>7
      <3> QED
        BY <1>4, <2>1, <3>7, <3>9 DEF HeardSoundly, s
    <2> QED
      BY <2>2, <2>3, <2>4
  <1> QED
    BY <1>1, <1>6, HeardExact

LEMMA DisjointSizes ==
    ASSUME NEW S, NEW T, IsFiniteSet(S), IsFiniteSet(T), S \cap T = {}
    PROVE  Cardinality(S \cup T) = Cardinality(S) + Cardinality(T)
  <1>1. Cardinality(S \cup T) = Cardinality(S) + Cardinality(T) - Cardinality(S \cap T)
    BY FS_Union
  <1>2. Cardinality(S \cap T) = 0 /\ Cardinality(S) \in Nat /\ Cardinality(T) \in Nat
    BY FS_EmptySet, FS_CardinalityType
  <1> DEFINE I == Cardinality(S \cap T)
  <1> HIDE DEF I
  <1> QED
    BY <1>1, <1>2

\* The client counts the documents that it will have.
LEMMA CountSound ==
    ASSUME WatchInv, NEW t \in Targets, IsActive(t), AddedAnew(t)
    PROVE  Count(t) = Cardinality(Known(states[t], keys[t]))
  <1> DEFINE A == Changed(states[t], "added")
             R == Changed(states[t], "removed")
             K == keys[t]
  <1>1. /\ A \in SUBSET Keys /\ R \in SUBSET Keys /\ K \in SUBSET Keys /\ A \cap K = {} /\ R \subseteq K
        /\ Known(states[t], keys[t]) = (K \ R) \cup A
        /\ Count(t) = Cardinality(K) + Cardinality(A) - Cardinality(R)
    BY DEF WatchInv, TypeOK, AssertionsHold, ChangesAsserted, IsActive, AddedAnew, Known, Pending, Changed, Count
  <1> HIDE DEF A, R, K
  <1> DEFINE B == K \ R
  <1>2. /\ IsFiniteSet(A) /\ IsFiniteSet(R) /\ IsFiniteSet(B)
        /\ B \cup R = K /\ B \cap R = {} /\ B \cap A = {} /\ Known(states[t], keys[t]) = B \cup A
    <2>1. B \in SUBSET Keys
      BY <1>1
    <2> QED
      BY <1>1, <2>1, FiniteAssumption, FS_Subset
  <1> HIDE DEF B
  <1>3. Cardinality(K) = Cardinality(B) + Cardinality(R)
    BY <1>2, DisjointSizes
  <1>4. Cardinality(B \cup A) = Cardinality(B) + Cardinality(A)
    BY <1>2, DisjointSizes
  <1>5. Cardinality(A) \in Nat /\ Cardinality(R) \in Nat /\ Cardinality(B) \in Nat
    BY <1>2, FS_CardinalityType
  <1>6. Count(t) = Cardinality(K) + Cardinality(A) - Cardinality(R)
    BY <1>1
  <1>7. Cardinality(Known(states[t], keys[t])) = Cardinality(B) + Cardinality(A)
    BY <1>2, <1>4
  <1> QED
    BY <1>3, <1>5, <1>6, <1>7

LEMMA ReceiveFilterExact ==
    ASSUME WatchInv, BatchesSound(inbox), ReceiveFilter, NEW t \in Targets, TargetSound(t)
    PROVE  TargetSound(t)'
  <1> DEFINE u == Head(inbox).target
             mismatch == IsActive(u) /\ Count(u) # Head(inbox).count
  <1>1. Received("Filter") /\ UNCHANGED <<wire, disk, token, current, stream, outlived>>
        /\ states' = (IF mismatch THEN [states EXCEPT ![u] = Reset(u)] ELSE states)
        /\ resets' = (IF mismatch THEN resets \cup {u} ELSE resets)
    BY DEF ReceiveFilter
  <1>2. inbox \in Seq(Message) /\ 1 \in DOMAIN inbox /\ inbox[1] = Head(inbox) /\ inbox[1].type = "Filter"
        /\ inbox # << >>
    BY <1>1, HeadIs
  <1>3. (\A k : ~Mentions(inbox, t, k, 1)) /\ (FilterFor(inbox, t, 1) => t = u)
    BY <1>2 DEF Mentions, FilterFor
  <1>4. states \in [Targets -> TargetState] /\ keys[t] \in SUBSET Keys /\ keys' = keys /\ inbox' = Tail(inbox)
    BY <1>1 DEF WatchInv, TypeOK, disk, Received
  <1>5. mismatch <=> IsActive(u) /\ Count(u) # inbox[1].count
    BY <1>2
  <1> HIDE DEF u, mismatch
  <1>6. ASSUME LineSound(t), t \in listening PROVE HeardSoundly(t)
    <2>1. CASE t = u /\ mismatch
      <3> DEFINE s == Reset(t)
      <3>1. states'[t] = s /\ t \in resets'
        BY <1>1, <1>4, <2>1
      <3>2. /\ s.outstanding = 0
            /\ \A k \in Keys : s.changes[k] = IF k \in keys[t] THEN "removed" ELSE "none"
        BY DEF Reset, Blank, RemovedChange, NoChanges
      <3> HIDE DEF s
      <3>3. Changed(s, "added") = {} /\ Changed(s, "removed") = keys[t]
        BY <1>4, <3>2 DEF Changed
      <3>4. Known(s, keys[t]) = {}
        BY <3>2, <3>3 DEF Known, Pending
      <3>5. FiltersFrom(inbox', 1)
        BY <1>2, <1>4, BatchesTail
      <3>6. AddedAnew(t)' /\ ResetAlone(t)'
        BY <1>4, <3>1, <3>2, <3>3, <3>4, <3>5 DEF AddedAnew, ResetAlone
      <3> QED
        BY <3>1, <3>6 DEF HeardSoundly
    <2>2. CASE ~(t = u /\ mismatch)
      <3>1. states'[t] = states[t] /\ (t \in resets' <=> t \in resets)
        BY <1>1, <1>4, <2>2
      <3>2. AddedAnew(t)'
        BY <1>4, <1>6, <3>1 DEF LineSound, AddedAnew
      <3>3. CASE states[t].outstanding = 0
        <4>1. FilterFor(inbox, t, 1) => Cardinality(Known(states[t], keys[t])) = inbox[1].count
          <5>1. IsActive(t) /\ AddedAnew(t)
            BY <1>6, <3>3 DEF IsActive, LineSound
          <5>2. Count(t) = Cardinality(Known(states[t], keys[t]))
            BY <5>1, CountSound
          <5> QED
            BY <1>3, <1>5, <2>2, <5>1, <5>2
        <4> QED
          BY <1>1, <1>2, <1>3, <1>6, <3>1, <3>2, <4>1, NotTold
      <3>4. CASE states[t].outstanding # 0
        <4>1. t \notin resets /\ t \notin resets'
          BY <1>6, <3>1, <3>4 DEF LineSound, ResetAlone
        <4>2. ~Asked(wire, t) => ~FilterFor(inbox, t, 1)
          BY <1>2, <3>4, OwedNow, NotHeard
        <4>3. After(inbox, t, Known(states[t], keys[t]), 1) = Known(states[t], keys[t])
          BY <1>3, KnownTyped, NotMentioned
        <4>4. ResetAlone(t)'
          BY <4>1 DEF ResetAlone
        <4> QED
          BY <3>1, <3>2, <4>1, <4>2, <4>3, <4>4 DEF HeardSoundly
      <3> QED
        BY <3>3, <3>4
    <2> QED
      BY <2>1, <2>2
  <1> QED
    BY <1>1, <1>6, HeardExact

-----------------------------------------------------------------------------
(***************************************************************************)
(* Snapshots.                                                              *)
(***************************************************************************)
\* The last request for a target that is listened to again is its new listen.
LEMMA AgainAsked ==
    ASSUME NEW S \in SUBSET Targets, IsFiniteSet(S), NEW t \in Targets, NEW x,
           x = ListenedAgain(SetToSeq(S))
    PROVE  /\ x \in Seq(Request)
           /\ t \notin S => \A i \in DOMAIN x : x[i].target # t
           /\ t \in S => Asked(x, t) /\ \A i \in DOMAIN x : LastAsked(x, t, i) => x[i] = WatchRequest(t, 0)
  <1> DEFINE g == SetToSeq(S)
  <1>1. g \in Seq(S) /\ Len(g) \in Nat /\ DOMAIN g = 1..Len(g)
    BY SetToSeqSound
  <1>2. (\A y \in S : \E i \in DOMAIN g : g[i] = y) /\ \A i, j \in DOMAIN g : g[i] = g[j] => i = j
    BY SetToSeqSound
  <1>3. x = ListenedAgain(g)
    OBVIOUS
  <1> HIDE DEF g
  <1>4. DOMAIN x = 1..(2 * Len(g))
    BY <1>3 DEF ListenedAgain
  <1>5. ASSUME NEW i \in DOMAIN x
        PROVE  /\ (i + 1) \div 2 \in DOMAIN g
               /\ x[i].target = g[(i + 1) \div 2]
               /\ i % 2 # 1 => x[i] = WatchRequest(g[(i + 1) \div 2], 0)
    <2>1. (i + 1) \div 2 \in 1..Len(g)
      BY <1>1, <1>4, <1>5
    <2> QED
      BY <1>1, <2>1, <1>3, <1>4, <1>5 DEF ListenedAgain, UnwatchRequest, WatchRequest
  <1>6. x \in Seq(Request)
    BY <1>3, AgainTallied DEF g
  <1>7. ASSUME t \notin S PROVE \A i \in DOMAIN x : x[i].target # t
    <2>1. \A i \in DOMAIN x : g[(i + 1) \div 2] \in S
      BY <1>1, <1>5
    <2> QED
      BY <1>5, <1>7, <2>1
  <1>8. ASSUME t \in S
        PROVE  Asked(x, t) /\ \A i \in DOMAIN x : LastAsked(x, t, i) => x[i] = WatchRequest(t, 0)
    <2>1. PICK j \in DOMAIN g : g[j] = t
      BY <1>2, <1>8
    <2>2. /\ 2 * j \in DOMAIN x /\ (2 * j + 1) \div 2 = j /\ (2 * j) % 2 # 1
          /\ \A i \in DOMAIN x : (i + 1) \div 2 = j /\ i >= 2 * j => i = 2 * j
      BY SMTT(60), <1>1, <1>4, <2>1
    <2>3. x[2 * j].target = t /\ x[2 * j] = WatchRequest(t, 0)
      BY <1>5, <2>1, <2>2
    <2>4. ASSUME NEW i \in DOMAIN x, LastAsked(x, t, i) PROVE i = 2 * j
      <3>1. i >= 2 * j /\ x[i].target = t
        BY <1>1, <1>4, <2>1, <2>2, <2>3, <2>4 DEF LastAsked
      <3>2. (i + 1) \div 2 = j
        BY <1>2, <1>5, <2>1, <3>1
      <3> QED
        BY <2>2, <3>1, <3>2
    <2> QED
      BY <2>2, <2>3, <2>4 DEF Asked
  <1> QED
    BY <1>6, <1>7, <1>8

LEMMA AskedInTurn ==
    ASSUME NEW w \in Seq(Request), NEW x \in Seq(Request), NEW t, Asked(x, t)
    PROVE  /\ Asked(w \o x, t)
           /\ \A i \in DOMAIN (w \o x) : LastAsked(w \o x, t, i) =>
                  \E j \in DOMAIN x : LastAsked(x, t, j) /\ (w \o x)[i] = x[j]
  <1> DEFINE c == w \o x
             m == Len(w)
  <1>1. /\ m \in Nat /\ Len(x) \in Nat
        /\ DOMAIN c = 1..(m + Len(x)) /\ DOMAIN w = 1..m /\ DOMAIN x = 1..Len(x)
        /\ \A i \in DOMAIN x : m + i \in DOMAIN c /\ c[m + i] = x[i]
        /\ \A i \in DOMAIN c : i > m => i - m \in DOMAIN x /\ m + (i - m) = i
    OBVIOUS
  <1> HIDE DEF c, m
  <1>2. PICK k \in DOMAIN x : x[k].target = t
    BY DEF Asked
  <1>3. ASSUME NEW i \in DOMAIN c, LastAsked(c, t, i)
        PROVE  \E j \in DOMAIN x : LastAsked(x, t, j) /\ c[i] = x[j]
    <2>1. m + k <= i
      BY <1>1, <1>2, <1>3 DEF LastAsked
    <2>2. i - m \in DOMAIN x /\ c[i] = x[i - m]
      BY <1>1, <1>2, <2>1
    <2>3. ASSUME NEW j \in DOMAIN x, x[j].target = t PROVE j <= i - m
      <3>1. m + j <= i
        BY <1>1, <1>3, <2>3 DEF LastAsked
      <3> QED
        BY <1>1, <3>1
    <2>4. LastAsked(x, t, i - m)
      BY <1>3, <2>2, <2>3 DEF LastAsked
    <2> QED
      BY <2>2, <2>4
  <1>4. Asked(c, t)
    BY <1>1, <1>2 DEF Asked
  <1> QED
    BY <1>3, <1>4 DEF c

\* What a snapshot that is raised does to one target.
Taken(t, v) ==
    /\ keys'[t] = IF IsActive(t) THEN Pending(states[t], keys[t]) ELSE keys[t]
    /\ saved'[t] \in {v, saved[t]}
    /\ saved'[t] # saved[t] => IsActive(t)
    /\ IsActive(t) /\ saved'[t] # v => states[t].changes = NoChanges
    /\ token'[t] = [store |-> IF IsActive(t) THEN v ELSE token[t].store,
                    remote |-> IF t \in resets \cap listening THEN 0
                               ELSE IF IsActive(t) THEN v ELSE token[t].remote]
    /\ states'[t].changes = IF IsActive(t) THEN NoChanges ELSE states[t].changes
    /\ states'[t].outstanding = states[t].outstanding + (IF t \in resets \cap listening THEN 2 ELSE 0)
    /\ t \in current' => t \in current \/ IsActive(t)

LEMMA SnapshotTaken ==
    ASSUME WatchInv, NEW v, RaiseWatchSnapshot(v), NEW t \in Targets
    PROVE  Taken(t, v)
  <1> DEFINE told == {u \in Targets : IsActive(u)}
  <1>1. t \in told <=> IsActive(t)
    OBVIOUS
  <1>2. keys'[t] = IF IsActive(t) THEN Pending(states[t], keys[t]) ELSE keys[t]
    BY DEF RaiseWatchSnapshot, Pending
  <1>3. token'[t] = [store |-> IF IsActive(t) THEN v ELSE token[t].store,
                     remote |-> IF t \in resets \cap listening THEN 0
                                ELSE IF IsActive(t) THEN v ELSE token[t].remote]
    BY DEF RaiseWatchSnapshot
  <1>4. /\ saved'[t] \in {v, saved[t]}
        /\ saved'[t] # saved[t] => IsActive(t)
        /\ IsActive(t) /\ saved'[t] # v => states[t].changes = NoChanges
    BY DEF RaiseWatchSnapshot
  <1>5. t \in current' => t \in current \/ IsActive(t)
    BY DEF RaiseWatchSnapshot
  <1>6. /\ states'[t].changes = IF IsActive(t) THEN NoChanges ELSE states[t].changes
        /\ states'[t].outstanding = states[t].outstanding + (IF t \in resets \cap listening THEN 2 ELSE 0)
    <2> DEFINE s == IF IsActive(t) THEN [states[t] EXCEPT !.changes = NoChanges] ELSE states[t]
               n == IF t \in resets \cap listening THEN 2 ELSE 0
    <2>1. states'[t] = Requested(s, n)
      BY DEF RaiseWatchSnapshot
    <2>2. states[t] \in TargetState
      BY DEF WatchInv, TypeOK
    <2>3. /\ s \in TargetState /\ s.outstanding = states[t].outstanding
          /\ s.changes = IF IsActive(t) THEN NoChanges ELSE states[t].changes
      BY <2>2 DEF TargetState, NoChanges, ChangeType
    <2>4. n \in Int
      OBVIOUS
    <2> HIDE DEF s, n
    <2>5. Requested(s, n).outstanding = s.outstanding + n /\ Requested(s, n).changes = s.changes
      BY <2>3, <2>4, RequestedSound
    <2> QED
      BY <2>1, <2>3, <2>5 DEF n
  <1> QED
    BY <1>2, <1>3, <1>4, <1>5, <1>6 DEF Taken

\* A target whose news are heard is at the version of the snapshot.
LEMMA SnapshotRight ==
    ASSUME WatchInv, BatchesSound(inbox), NEW v, Received("Snapshot"), Head(inbox).version = v,
           NEW t \in Targets, IsActive(t), t \notin resets, LineSound(t)
    PROVE  /\ ~Asked(wire, t) /\ Known(states[t], keys[t]) = Pending(states[t], keys[t])
           /\ Pending(states[t], keys[t]) = results[v][t]
  <1> DEFINE E == Known(states[t], keys[t])
  <1>1. inbox \in Seq(Message) /\ inbox[1] = Head(inbox) /\ 1 \in DOMAIN inbox /\ inbox[1].type = "Snapshot"
    BY HeadIs
  <1>2. states[t].outstanding = 0
    BY DEF IsActive
  <1>3. ~Asked(wire, t) /\ \A i \in DOMAIN inbox : ~Answers(inbox, t, i)
    BY <1>2, OwedNow DEF Owed
  <1>4. NewsSound(inbox, t, E, serving[t], results)
    BY <1>3 DEF LineSound, ToldSoundly
  <1>5. E = Pending(states[t], keys[t]) /\ E \in SUBSET Keys
    BY <1>2, KnownTyped DEF Known
  <1> HIDE DEF E
  <1>6. SnapshotFor(inbox, t, 1)
    BY <1>1, <1>3 DEF SnapshotFor, Late
  <1>7. ~serving[t].first
    BY <1>1, <1>4, <1>6 DEF NewsSound, Fresh, SnapshotFor
  <1>8. Matches(inbox, t, E)
    <2>1. ASSUME NEW i \in DOMAIN inbox, FilterFor(inbox, t, i) PROVE FALSE
      <3>1. i < 1 /\ i \in 1..Len(inbox)
        BY <1>1, <1>4, <1>6, <2>1 DEF NewsSound
      <3> QED
        BY <3>1
    <2> QED
      BY <2>1 DEF Matches
  <1>9. After(inbox, t, E, 1) = results[v][t]
    BY <1>1, <1>4, <1>6, <1>7, <1>8 DEF NewsSound, Right
  <1>10. \A k : ~Mentions(inbox, t, k, 1)
    BY <1>1 DEF Mentions
  <1>11. E = results[v][t]
    BY <1>5, <1>9, <1>10, NotMentioned
  <1> QED
    BY <1>3, <1>5, <1>11 DEF E

LEMMA RaisedExact ==
    ASSUME WatchInv, BatchesSound(inbox), NEW v, Received("Snapshot"), Head(inbox).version = v,
           RaiseWatchSnapshot(v), stream' = stream, NEW t \in Targets, TargetSound(t)
    PROVE  TargetSound(t)'
  <1> DEFINE K == keys[t]
             P == Pending(states[t], keys[t])
             S == resets \cap listening
             x == ListenedAgain(SetToSeq(S))
  <1>1. /\ inbox \in Seq(Message) /\ inbox # << >> /\ inbox[1] = Head(inbox) /\ 1 \in DOMAIN inbox
        /\ inbox[1].type = "Snapshot"
    BY HeadIs
  <1>2. v > 0 /\ v \in Nat
    BY <1>1, BatchesTail DEF Message, WatchInv, SnapshotsSound
  <1>3. /\ UNCHANGED <<results, serving, listening>> /\ inbox' = Tail(inbox)
        /\ wire' = wire \o x /\ resets' = {}
    BY DEF Received, RaiseWatchSnapshot
  <1>4. /\ wire \in Seq(Request) /\ IsFiniteSet(S) /\ S \in SUBSET Targets /\ stream.state = "Open"
        /\ states[t] \in TargetState /\ token[t] \in [store : 0..Len(results), remote : 0..Len(results)]
        /\ t \in current => t \in listening
    <2>1. S \in SUBSET Targets
      BY DEF WatchInv, TypeOK
    <2>2. IsFiniteSet(S)
      BY <2>1, FiniteAssumption, FS_Subset
    <2> QED
      BY <1>1, <2>1, <2>2 DEF WatchInv, TypeOK, StreamQuiet
  <1>5. Taken(t, v)
    BY SnapshotTaken
  <1>6. /\ x \in Seq(Request)
        /\ t \notin S => \A i \in DOMAIN x : x[i].target # t
        /\ t \in S => Asked(x, t) /\ \A i \in DOMAIN x : LastAsked(x, t, i) => x[i] = WatchRequest(t, 0)
    <2>1. x = ListenedAgain(SetToSeq(S))
      OBVIOUS
    <2> HIDE DEF x, S
    <2> QED
      BY <1>4, <2>1, AgainAsked
  <1> HIDE DEF x
  <1>7. t \in listening => LineSound(t)
    BY <1>4 DEF TargetSound
  <1>8. (\A k : ~Mentions(inbox, t, k, 1)) /\ ~FilterFor(inbox, t, 1)
    BY <1>1 DEF Mentions, FilterFor
  <1>9. ASSUME t \notin S
        PROVE  /\ Asked(wire', t) <=> Asked(wire, t)
               /\ \A i \in DOMAIN wire' : LastAsked(wire', t, i) =>
                      LastAsked(wire, t, i) /\ wire'[i] = wire[i]
    <2>1. \A i \in DOMAIN x : x[i].target # t
      BY <1>6, <1>9
    <2>2. /\ Asked(wire \o x, t) <=> Asked(wire, t)
          /\ \A i \in DOMAIN (wire \o x) : LastAsked(wire \o x, t, i) =>
                 LastAsked(wire, t, i) /\ (wire \o x)[i] = wire[i]
      BY <1>4, <1>6, <2>1, WireJoined
    <2> QED
      BY <1>3, <2>2
  \* The news after the snapshot are as sound as before.
  <1>10. ASSUME t \in listening, t \notin S, t \notin resets,
                Known(states'[t], keys'[t]) = Known(states[t], keys[t])
         PROVE  ToldSoundly(t)'
    <2>1. SUFFICES ASSUME ~Asked(wire, t)
                   PROVE  NewsSound(inbox', t, Known(states'[t], keys'[t]), serving[t], results)
      BY <1>3, <1>9, <1>10 DEF ToldSoundly
    <2> DEFINE E == Known(states[t], keys[t])
    <2>2. NewsSound(inbox, t, E, serving[t], results) /\ E \in SUBSET Keys
      BY <1>7, <1>10, <2>1, KnownTyped DEF LineSound, ToldSoundly
    <2> HIDE DEF E
    <2>3. NewsSound(Tail(inbox), t, After(inbox, t, E, 1), serving[t], results)
      <3>1. results \in Seq([Targets -> SUBSET Keys])
        BY DEF WatchInv, TypeOK
      <3> QED
        BY <1>1, <1>8, <2>2, <3>1, NewsTail
    <2>4. After(inbox, t, E, 1) = E
      BY <1>8, <2>2, NotMentioned
    <2> QED
      BY <1>3, <1>10, <2>3, <2>4 DEF E
  <1>11. CASE t \notin listening
    <2>1. ~IsActive(t) /\ t \notin current
      BY <1>4, <1>11 DEF IsActive
    <2>2. keys'[t] = keys[t] /\ saved'[t] = saved[t] /\ t \notin current' /\ t \notin listening'
      BY <1>3, <1>5, <1>11, <2>1 DEF Taken
    <2> QED
      BY <1>3, <1>11, <2>2, DiskKept DEF TargetSound
  <1>12. CASE t \in listening /\ ~IsActive(t)
    <2>1. states[t].outstanding # 0
      BY <1>12 DEF IsActive
    <2>2. t \notin resets
      BY <1>7, <1>12, <2>1 DEF LineSound, ResetAlone
    <2>3. /\ keys'[t] = keys[t] /\ saved'[t] = saved[t] /\ states'[t].changes = states[t].changes
          /\ states'[t].outstanding = states[t].outstanding
          /\ token'[t].store = token[t].store /\ token'[t].remote = token[t].remote
          /\ t \in current' => t \in current
      BY <1>4, <1>5, <1>12, <2>2 DEF Taken, TargetState
    <2>4. DiskSound(t)'
      BY <1>3, <1>12, <2>3 DEF TargetSound, DiskSound, Exact
    <2>5. AddedAnew(t)' /\ ResetAlone(t)'
      BY <1>3, <2>1, <2>3 DEF AddedAnew, ResetAlone
    <2>6. AskedFromToken(t)'
      BY <1>7, <1>9, <1>12, <2>2, <2>3 DEF LineSound, AskedFromToken, LastAsked
    <2>7. Known(states'[t], keys'[t]) = Known(states[t], keys[t])
      BY <2>1, <2>3 DEF Known
    <2>8. ToldSoundly(t)'
      BY <1>10, <1>12, <2>2, <2>7
    <2> QED
      BY <2>4, <2>5, <2>6, <2>8 DEF TargetSound, LineSound
  <1>13. CASE IsActive(t) /\ t \notin resets
    <2>1. t \in listening /\ states[t].outstanding = 0 /\ t \notin S
      BY <1>13 DEF IsActive
    <2>2. ~Asked(wire, t) /\ Known(states[t], keys[t]) = P /\ P = results[v][t]
      BY <1>7, <1>13, <2>1, SnapshotRight
    <2>3. keys'[t] = P /\ token'[t].store = v /\ token'[t].remote = v /\ saved'[t] \in {v, saved[t]}
      BY <1>5, <1>13, <2>1 DEF Taken
    <2>4. states'[t].changes = NoChanges /\ states'[t].outstanding = 0
      BY <1>5, <1>13, <2>1 DEF Taken
    <2>5. \A s : s.changes = NoChanges => Changed(s, "added") = {} /\ Changed(s, "removed") = {}
      BY DEF Changed, NoChanges
    <2>6. keys'[t] = Base(results, t, v)
      BY <1>2, <2>2, <2>3 DEF Base
    <2>7. keys'[t] \in {{}, Base(results, t, saved'[t])}
      <3>1. CASE saved'[t] = v
        BY <2>6, <3>1
      <3>2. CASE saved'[t] # v
        <4>1. states[t].changes = NoChanges /\ saved'[t] = saved[t]
          BY <1>5, <1>13, <2>3, <3>2 DEF Taken
        <4>2. P = keys[t]
          BY <2>5, <4>1 DEF Pending
        <4> QED
          BY <2>3, <4>1, <4>2 DEF TargetSound, DiskSound
      <3> QED
        BY <3>1, <3>2
    <2>8. DiskSound(t)'
      BY <1>3, <2>2, <2>3, <2>6, <2>7 DEF DiskSound, Exact
    <2>9. Known(states'[t], keys'[t]) = keys'[t]
      BY <2>4, <2>5 DEF Known, Pending
    <2>10. ToldSoundly(t)'
      BY <1>10, <1>13, <2>1, <2>2, <2>3, <2>9
    <2>11. AddedAnew(t)' /\ ResetAlone(t)'
      BY <1>3, <2>4, <2>5 DEF AddedAnew, ResetAlone
    <2>12. AskedFromToken(t)'
      BY <1>9, <2>1, <2>2 DEF AskedFromToken, LastAsked, Asked
    <2> QED
      BY <2>8, <2>10, <2>11, <2>12 DEF TargetSound, LineSound
  <1>14. CASE IsActive(t) /\ t \in resets
    <2>1. t \in listening /\ t \in S /\ states[t].outstanding = 0
      BY <1>14 DEF IsActive
    <2>2. P = {}
      BY <1>7, <1>14, <2>1 DEF LineSound, ResetAlone, Known
    <2>3. keys'[t] = {} /\ token'[t].remote = 0 /\ states'[t].outstanding = 2
      BY <1>5, <1>14, <2>1, <2>2 DEF Taken
    <2>4. DiskSound(t)'
      BY <2>3 DEF DiskSound
    <2>5. /\ Asked(wire', t)
          /\ \A i \in DOMAIN wire' : LastAsked(wire', t, i) => wire'[i] = WatchRequest(t, 0)
      BY <1>3, <1>4, <1>6, <2>1, AskedInTurn
    <2>6. AddedAnew(t)' /\ ResetAlone(t)' /\ ToldSoundly(t)'
      BY <1>3, <2>3, <2>5 DEF AddedAnew, ResetAlone, ToldSoundly
    <2>7. AskedFromToken(t)'
      BY <2>3, <2>5 DEF AskedFromToken
    <2> QED
      BY <2>4, <2>6, <2>7 DEF TargetSound, LineSound
  <1> QED
    BY <1>11, <1>12, <1>13, <1>14

LEMMA ReceiveSnapshotExact ==
    ASSUME WatchInv, BatchesSound(inbox), ReceiveSnapshot, NEW t \in Targets \ outlived', TargetSound(t)
    PROVE  TargetSound(t)'
  <1> DEFINE v == Head(inbox).version
  <1>1. Received("Snapshot") /\ stream' = stream
    BY DEF ReceiveSnapshot
  <1>2. CASE v >= snapshot
    BY <1>1, <1>2, RaisedExact DEF ReceiveSnapshot
  <1>3. CASE ~(v >= snapshot)
    <2>1. UNCHANGED <<wire, disk, token, current, states, resets>> /\ t \notin resets \cap listening
      BY <1>3 DEF ReceiveSnapshot
    <2>2. inbox[1].type = "Snapshot"
      BY <1>1, HeadIs
    <2>3. (\A k : ~Mentions(inbox, t, k, 1)) /\ ~FilterFor(inbox, t, 1)
      BY <2>2 DEF Mentions, FilterFor
    <2>4. ASSUME t \in listening, LineSound(t) PROVE HeardSoundly(t)
      <3>1. AddedAnew(t)'
        BY <2>1, <2>4 DEF LineSound, AddedAnew, disk
      <3> QED
        BY <1>1, <2>1, <2>3, <2>4, <3>1, NotTold
    <2> QED
      BY <1>1, <2>1, <2>4, HeardExact
  <1> QED
    BY <1>2, <1>3

-----------------------------------------------------------------------------
(***************************************************************************)
(* The backend.                                                            *)
(***************************************************************************)
LEMMA ResultsChangeExact ==
    ASSUME WatchInv, BatchesSound(inbox), ResultsChange, NEW t \in Targets, TargetSound(t)
    PROVE  TargetSound(t)'
  <1>1. PICK x \in [Targets -> SUBSET Keys] : results' = Append(results, x)
    BY DEF ResultsChange
  <1>2. UNCHANGED <<serving, wire, inbox, keys, saved, listening, token, current, stream, states, resets>>
    BY DEF ResultsChange, connection, disk, targets, aggregator
  <1>3. /\ results \in Seq([Targets -> SUBSET Keys]) /\ Len(results) \in Nat
        /\ \A n \in 1..Len(results) : results'[n] = results[n]
    BY <1>1 DEF WatchInv, TypeOK
  <1>4. /\ saved[t] \in 0..Len(results)
        /\ token[t].store \in 0..Len(results) /\ token[t].remote \in 0..Len(results)
    BY DEF WatchInv, TypeOK
  <1>5. \A n \in 0..Len(results) : Base(results', t, n) = Base(results, t, n)
    BY <1>3 DEF Base
  <1>6. token[t].remote = 0 \/ results'[token[t].remote] = results[token[t].remote]
    BY <1>3, <1>4
  <1>7. DiskSound(t)'
    BY <1>2, <1>4, <1>5, <1>6 DEF TargetSound, DiskSound, Exact
  <1>8. ASSUME stream.state = "Open", t \in listening PROVE LineSound(t)'
    <2>1. LineSound(t)
      BY <1>8 DEF TargetSound
    <2>2. AddedAnew(t)' /\ AskedFromToken(t)' /\ ResetAlone(t)'
      BY <1>2, <2>1 DEF LineSound, AddedAnew, AskedFromToken, LastAsked, ResetAlone
    <2>3. ToldSoundly(t)'
      <3> DEFINE E == Known(states[t], keys[t])
                 s == serving[t]
      <3>1. SUFFICES ASSUME t \notin resets, ~Asked(wire, t) PROVE NewsSound(inbox, t, E, s, results')
        BY <1>2 DEF ToldSoundly, Asked
      <3>2. NewsSound(inbox, t, E, s, results)
        BY <2>1, <3>1 DEF LineSound, ToldSoundly
      <3>3. inbox \in Seq(Message) /\ s.at \in Nat
        BY DEF WatchInv, TypeOK
      <3>4. \A i \in DOMAIN inbox : inbox[i].type = "Snapshot" =>
                inbox[i].version \in 0..Len(results) /\ inbox[i].version > 0
        BY DEF WatchInv, SnapshotsSound, BatchesSound
      <3> HIDE DEF E, s
      <3>5. NewsSound(inbox, t, E, s, Append(results, x))
        BY <1>3, <3>2, <3>3, <3>4, NewsOfLonger
      <3> QED
        BY <1>1, <3>5
    <2> QED
      BY <2>2, <2>3 DEF LineSound
  <1> QED
    BY <1>2, <1>7, <1>8 DEF TargetSound

\* The answer to a listen makes the news of its target start afresh.
ServedAnew(t, E, s, r) == s.on /\ s.first /\ s.at \in 0..Len(r) /\ E \in {{}, Base(r, t, s.at)}

LEMMA AnsweredFresh ==
    ASSUME NEW b \in Seq(Message), NEW e \in Message, NEW t, NEW E, NEW s, NEW r,
           e.type \in {"Added", "Removed"}, e.target = t,
           ServedAnew(t, E, s, r)
    PROVE  NewsSound(Append(b, e), t, E, s, r)
  <1> DEFINE c == Append(b, e)
             m == Len(b)
  <1>1. m \in Nat /\ DOMAIN c = 1..(m + 1) /\ m + 1 \in DOMAIN c /\ c[m + 1] = e
    OBVIOUS
  <1> HIDE DEF c, m
  <1>2. Answers(c, t, m + 1)
    BY <1>1 DEF Answers
  <1>3. \A i : ~Late(c, t, i)
    <2> SUFFICES ASSUME NEW i, Late(c, t, i) PROVE FALSE
      OBVIOUS
    <2>1. i \in 1..(m + 1) /\ m + 1 < i
      BY <1>1, <1>2 DEF Late
    <2> QED
      BY <1>1, <2>1
  <1>4. Fresh(c, t, E, s, r)
    BY <1>3 DEF Fresh, ServedAnew
  <1> QED
    BY <1>3, <1>4 DEF NewsSound, ServedAnew, SnapshotFor, FilterFor, c

LEMMA ServeRequestExact ==
    ASSUME WatchInv, BatchesSound(inbox), ServeRequest, NEW t \in Targets, TargetSound(t)
    PROVE  TargetSound(t)'
  <1> DEFINE r == Head(wire)
             e == [type |-> IF r.op = "watch" THEN "Added" ELSE "Removed", target |-> r.target]
             x == <<e>>
             K == Known(states[t], keys[t])
  <1>1. /\ UNCHANGED <<results, keys, saved, listening, token, current, stream, states, resets>>
        /\ wire # << >> /\ wire' = Tail(wire) /\ inbox' = Append(inbox, e)
    BY DEF ServeRequest, disk, targets, aggregator
  <1>2. /\ wire \in Seq(Request) /\ inbox \in Seq(Message) /\ states[t].outstanding \in Int
        /\ keys[t] \in SUBSET Keys
    BY DEF WatchInv, TypeOK, TargetState
  <1>3. r \in Request
    BY <1>1, <1>2
  <1>4. e \in Message /\ e.type \in {"Added", "Removed"} /\ e.target = r.target
    BY <1>3 DEF Request, Message
  <1>5. serving' = [serving EXCEPT ![r.target] =
                        IF r.op = "watch" THEN [on |-> TRUE, at |-> r.token, added |-> Len(results),
                                                current |-> FALSE, first |-> TRUE]
                        ELSE Off]
    BY DEF ServeRequest
  <1>6. DOMAIN serving = Targets /\ token[t].remote \in 0..Len(results)
    BY DEF WatchInv, TypeOK
  <1> HIDE DEF r, e, x
  <1>7. x \in Seq(Message) /\ inbox' = inbox \o x
    BY <1>1, <1>2, <1>4 DEF x
  <1>8. /\ r.target # t => (Asked(wire', t) <=> Asked(wire, t))
        /\ \A i \in DOMAIN wire' : LastAsked(wire', t, i) =>
               i + 1 \in DOMAIN wire /\ LastAsked(wire, t, i + 1) /\ wire'[i] = wire[i + 1]
        /\ r.target = t /\ ~Asked(wire', t) => LastAsked(wire, t, 1) /\ wire[1] = r
    <2>1. /\ r.target # t => (Asked(Tail(wire), t) <=> Asked(wire, t))
          /\ \A i \in DOMAIN Tail(wire) : LastAsked(Tail(wire), t, i) =>
                 i + 1 \in DOMAIN wire /\ LastAsked(wire, t, i + 1) /\ Tail(wire)[i] = wire[i + 1]
          /\ r.target = t /\ ~Asked(Tail(wire), t) => LastAsked(wire, t, 1) /\ wire[1] = r
      BY <1>1, <1>2, WireTail DEF r
    <2> QED
      BY <1>1, <2>1
  <1>9. DiskSound(t)'
    BY <1>1, DiskKept DEF TargetSound
  <1>10. ASSUME stream.state = "Open", t \in listening PROVE LineSound(t)'
    <2>1. LineSound(t)
      BY <1>10 DEF TargetSound
    <2>2. AddedAnew(t)'
      BY <1>1, <2>1 DEF LineSound, AddedAnew
    <2>3. AskedFromToken(t)'
      BY <1>1, <1>8, <2>1 DEF LineSound, AskedFromToken, LastAsked
    <2>4. ResetAlone(t)'
      <3>1. SUFFICES ASSUME t \in resets PROVE FiltersFrom(inbox', 1)
        BY <1>1, <2>1 DEF LineSound, ResetAlone
      <3>2. FiltersFrom(inbox, 1)
        BY <2>1, <3>1 DEF LineSound, ResetAlone
      <3>3. FiltersFrom(inbox \o x, 1)
        BY <1>2, <1>7, <3>2, FiltersJoined
      <3> QED
        BY <1>7, <3>3
    <2>5. ToldSoundly(t)'
      <3>1. SUFFICES ASSUME t \notin resets, ~Asked(wire', t) PROVE NewsSound(inbox', t, K, serving'[t], results)
        BY <1>1 DEF ToldSoundly
      <3>2. CASE r.target = t
        <4>1. LastAsked(wire, t, 1) /\ wire[1] = r
          BY <1>8, <3>1, <3>2
        <4>2. r = WatchRequest(t, token[t].remote)
          BY <2>1, <4>1 DEF LineSound, AskedFromToken, LastAsked
        <4>3. serving'[t] = [on |-> TRUE, at |-> token[t].remote, added |-> Len(results),
                             current |-> FALSE, first |-> TRUE]
          BY <1>5, <1>6, <3>2, <4>2 DEF WatchRequest
        <4> DEFINE s == serving'[t]
        <4>4. s.on /\ s.at = token[t].remote /\ s.first
          BY <4>3
        <4> HIDE DEF s
        <4>5. Asked(wire, t)
          BY <4>1 DEF LastAsked, Asked
        <4>6. states[t].outstanding # 0
          BY <4>5, OwedNow DEF Owed
        <4>7. ServedAnew(t, K, s, results)
          BY <1>6, <1>10, <4>4, <4>6 DEF Known, TargetSound, DiskSound, ServedAnew
        <4> HIDE DEF K
        <4>8. e \in Message /\ e.type \in {"Added", "Removed"} /\ e.target = t /\ inbox \in Seq(Message)
          BY <1>2, <1>4, <3>2
        <4>9. NewsSound(Append(inbox, e), t, K, s, results)
          BY <4>7, <4>8, AnsweredFresh
        <4> QED
          BY <1>1, <4>9 DEF s
      <3>3. CASE r.target # t
        <4>1. ~Asked(wire, t) /\ serving'[t] = serving[t]
          BY <1>5, <1>6, <1>8, <3>1, <3>3
        <4>2. NewsSound(inbox, t, K, serving[t], results)
          BY <2>1, <3>1, <4>1 DEF LineSound, ToldSoundly
        <4>3. K \in SUBSET Keys
          BY KnownTyped
        <4> HIDE DEF K
        <4>4. NewsSound(Append(inbox, e), t, K, serving[t], results)
          BY <1>2, <1>4, <3>3, <4>2, <4>3, AnswerJoined
        <4> QED
          BY <1>1, <4>1, <4>4
      <3> QED
        BY <3>2, <3>3
    <2> QED
      BY <2>2, <2>3, <2>4, <2>5 DEF LineSound
  <1> QED
    BY <1>1, <1>9, <1>10 DEF TargetSound

LEMMA ServerSendsExact ==
    ASSUME WatchInv, BatchesSound(inbox), NEW v \in 1..MaxVersions, ServerSends(v), NEW t \in Targets, TargetSound(t)
    PROVE  TargetSound(t)'
  <1> DEFINE K == Known(states[t], keys[t])
  <1>1. /\ UNCHANGED <<results, wire, keys, saved, listening, token, current, stream, states, resets>>
        /\ v \in 1..Len(results)
    BY DEF ServerSends, disk, targets, aggregator
  <1>2. /\ inbox \in Seq(Message) /\ results \in Seq([Targets -> SUBSET Keys])
        /\ serving[t] \in [on : BOOLEAN, at : Nat, added : Nat, current : BOOLEAN, first : BOOLEAN]
    BY SMTT(60) DEF WatchInv, TypeOK
  <1>3. serving[t].on => serving'[t].on /\ serving'[t].at = v /\ ~serving'[t].first
    BY <1>2 DEF ServerSends
  <1>4. PICK u \in Seq(Message) :
            /\ inbox' = inbox \o u
            /\ \A q \in Targets : serving[q].on =>
                   \E U, D \in SUBSET Keys : Batch(u, q, serving[q], results, v, U, D)
    BY ServerSendsBatch
  <1>5. DiskSound(t)'
    BY <1>1, DiskKept DEF TargetSound
  <1>6. ASSUME stream.state = "Open", t \in listening PROVE LineSound(t)'
    <2>1. LineSound(t)
      BY <1>6 DEF TargetSound
    <2>2. AddedAnew(t)' /\ AskedFromToken(t)'
      BY <1>1, <2>1 DEF LineSound, AddedAnew, AskedFromToken, LastAsked
    <2>3. ResetAlone(t)'
      <3>1. SUFFICES ASSUME t \in resets PROVE FiltersFrom(inbox', 1)
        BY <1>1, <2>1 DEF LineSound, ResetAlone
      <3>2. FiltersFrom(inbox, 1)
        BY <2>1, <3>1 DEF LineSound, ResetAlone
      <3>3. FiltersFrom(inbox \o u, 1)
        BY <1>2, <3>2, FiltersJoined
      <3> QED
        BY <1>4, <3>3
    <2>4. ToldSoundly(t)'
      <3>1. SUFFICES ASSUME t \notin resets, ~Asked(wire, t) PROVE NewsSound(inbox', t, K, serving'[t], results)
        BY <1>1 DEF ToldSoundly, Asked
      <3> DEFINE s == serving[t]
                 z == serving'[t]
      <3>2. NewsSound(inbox, t, K, s, results)
        BY <2>1, <3>1 DEF LineSound, ToldSoundly
      <3>3. s.on
        BY <3>2 DEF NewsSound
      <3>4. PICK U \in SUBSET Keys, D \in SUBSET Keys : Batch(u, t, s, results, v, U, D)
        BY <1>4, <3>3
      <3>5. z.on /\ z.at = v /\ ~z.first
        BY <1>3, <3>3
      <3>6. K \in SUBSET Keys
        BY KnownTyped
      <3> HIDE DEF K, s, z
      <3>7. NewsSound(inbox \o u, t, K, z, results)
        BY SMTT(60), <1>1, <1>2, <3>2, <3>4, <3>5, <3>6, NewsSent
      <3> QED
        BY <1>4, <3>7 DEF z
    <2> QED
      BY <2>2, <2>3, <2>4 DEF LineSound
  <1> QED
    BY SMTT(60), <1>1, <1>5, <1>6 DEF TargetSound

-----------------------------------------------------------------------------
(***************************************************************************)
(* Every step keeps the targets and the batches sound.                     *)
(***************************************************************************)
LEMMA InitExact == Init => ExactInv
  <1> SUFFICES ASSUME Init PROVE BatchesSound(inbox) /\ TargetsSound
    BY InitSound DEF ExactInv
  <1>1. BatchesSound(inbox)
    BY DEF Init, BatchesSound
  <1>2. ASSUME NEW t \in Targets PROVE TargetSound(t)
    BY DEF Init, TargetSound, DiskSound
  <1> QED
    BY <1>1, <1>2 DEF TargetsSound

LEMMA OutlivedStays == [Next]_vars => outlived \subseteq outlived'
  BY DEF Next, vars, counters, WorkerQueue, Receive, Trouble, Listen, StopListening, StreamOpens,
         ResultsChange, ServeRequest, ServerSends, BackoffElapses, OnlineTimeout, IdleTimeout, Start,
         ConnectionLost, ConnectivityChanges, Crash, ReceiveAdded, ReceiveRemoved, ReceiveCurrent,
         ReceiveDocument, ReceiveFilter, ReceiveSnapshot

\* A message taken is the first of its batch; one sent is the answer to a request, or
\* one of a batch.
LEMMA BatchesNext ==
    ASSUME WatchInv, BatchesSound(inbox), [Next]_vars
    PROVE  BatchesSound(inbox')
  <1>1. CASE inbox' = inbox
    BY <1>1
  <1>2. CASE inbox' = << >>
    BY <1>2 DEF BatchesSound
  <1>3. CASE inbox # << >> /\ inbox' = Tail(inbox)
    <2>1. inbox \in Seq(Message)
      BY DEF WatchInv, TypeOK
    <2> QED
      BY <1>3, <2>1, BatchesTail
  <1>4. CASE ServeRequest
    <2> DEFINE r == Head(wire)
               e == [type |-> IF r.op = "watch" THEN "Added" ELSE "Removed", target |-> r.target]
               x == <<e>>
    <2>1. inbox' = Append(inbox, e) /\ wire # << >>
      BY <1>4 DEF ServeRequest
    <2>2. inbox \in Seq(Message) /\ r \in Request
      BY <2>1 DEF WatchInv, TypeOK
    <2>3. e \in Message /\ e.type \in {"Added", "Removed"}
      BY <2>2 DEF Request, Message
    <2> HIDE DEF e
    <2>4. x \in Seq(Message) /\ inbox' = inbox \o x /\ DOMAIN x = {1} /\ x[1] = e
      BY <2>1, <2>2, <2>3
    <2> HIDE DEF x
    <2>5. BatchesSound(x)
      BY <2>3, <2>4 DEF BatchesSound
    <2> QED
      BY <2>2, <2>4, <2>5, BatchesJoined
  <1>5. ASSUME NEW v \in 1..MaxVersions, ServerSends(v) PROVE BatchesSound(inbox')
    <2>1. PICK u \in Seq(Message) :
              /\ inbox' = inbox \o u
              /\ \A t \in Targets : serving[t].on =>
                     \E U, D \in SUBSET Keys : Batch(u, t, serving[t], results, v, U, D)
      BY <1>5, ServerSendsBatch
    <2>2. PICK t \in Targets : serving[t].on
      BY <1>5 DEF ServerSends
    <2>3. PICK U \in SUBSET Keys, D \in SUBSET Keys : Batch(u, t, serving[t], results, v, U, D)
      BY <2>1, <2>2
    <2>4. v \in Nat /\ v > 0 /\ inbox \in Seq(Message)
      BY BoundsAssumption DEF WatchInv, TypeOK
    <2>5. BatchesSound(u)
      BY <2>3, <2>4, BatchIsSound
    <2> QED
      BY <2>1, <2>4, <2>5, BatchesJoined
  <1>6. CASE Receive
    BY <1>3, <1>6 DEF Receive, ReceiveAdded, ReceiveRemoved, ReceiveCurrent, ReceiveDocument,
                      ReceiveFilter, ReceiveSnapshot, Received
  <1>7. CASE ConnectionLost \/ IdleTimeout \/ ConnectivityChanges \/ Crash
    BY <1>2, <1>7 DEF ConnectionLost, IdleTimeout, ConnectivityChanges, Crash, Disconnected
  <1>8. CASE \/ \E t \in Targets : Listen(t) \/ StopListening(t)
             \/ BackoffElapses \/ OnlineTimeout \/ Start \/ StreamOpens \/ ResultsChange \/ UNCHANGED vars
    BY <1>1, <1>8 DEF Listen, StopListening, BackoffElapses, OnlineTimeout, Start, StreamOpens,
                      ResultsChange, vars, connection
  <1> QED
    BY <1>4, <1>5, <1>6, <1>7, <1>8 DEF Next, WorkerQueue, Trouble

LEMMA TargetNext ==
    ASSUME WatchInv, BatchesSound(inbox), [Next]_vars, NEW t \in Targets \ outlived', TargetSound(t)
    PROVE  TargetSound(t)'
  <1>1. WatchInv'
    BY NextSound
  <1>2. ASSUME NEW u \in Targets, Listen(u) \/ StopListening(u) PROVE TargetSound(t)'
    BY <1>1, <1>2, ListenExact, StopListeningExact
  <1>3. CASE Receive
    BY <1>3, ReceiveAnswerExact, ReceiveCurrentExact, ReceiveDocumentExact, ReceiveFilterExact,
       ReceiveSnapshotExact DEF Receive
  <1>4. CASE ConnectionLost \/ IdleTimeout \/ ConnectivityChanges \/ Crash \/ BackoffElapses
    BY <1>4, DisconnectionExact
  <1>5. CASE OnlineTimeout \/ Start \/ UNCHANGED vars
    BY <1>5, QuietStepExact
  <1>6. CASE StreamOpens
    BY <1>1, <1>6, StreamOpensExact
  <1>7. CASE ResultsChange
    BY <1>7, ResultsChangeExact
  <1>8. CASE ServeRequest
    BY <1>8, ServeRequestExact
  <1>9. ASSUME NEW v \in 1..MaxVersions, ServerSends(v) PROVE TargetSound(t)'
    BY <1>9, ServerSendsExact
  <1> QED
    BY <1>2, <1>3, <1>4, <1>5, <1>6, <1>7, <1>8, <1>9 DEF Next, WorkerQueue, Trouble

LEMMA NextExact == ExactInv /\ [Next]_vars => ExactInv'
  <1> SUFFICES ASSUME ExactInv, [Next]_vars PROVE ExactInv'
    OBVIOUS
  <1>1. WatchInv /\ BatchesSound(inbox) /\ TargetsSound
    BY DEF ExactInv
  <1>2. WatchInv'
    BY <1>1, NextSound
  <1>3. BatchesSound(inbox')
    BY <1>1, BatchesNext
  <1>4. ASSUME NEW t \in Targets \ outlived' PROVE TargetSound(t)'
    <2>1. t \in Targets \ outlived
      BY OutlivedStays
    <2> QED
      BY <1>1, <2>1, TargetNext DEF TargetsSound
  <1> QED
    BY <1>2, <1>3, <1>4 DEF ExactInv, TargetsSound, BatchesSound, FiltersFrom

\* What is kept of a target and what is on its way to it fit together in every state:
\* ExactInv is inductive.
THEOREM ExactInvariance == Spec => []ExactInv
  <1> QED
    BY InitExact, NextExact, PTL DEF Spec

\* A view in sync (View::current_) shows exactly what belonged to its query at the
\* version of its token, whatever was resumed, filtered, listened to again, stopped or
\* lost before; a target whose reset did not take effect alone is excepted.
THEOREM ViewsAreExact == Spec => []ViewsExact
  <1>1. ExactInv => ViewsExact
    <2> SUFFICES ASSUME ExactInv, NEW t \in current \ outlived PROVE token[t].remote = 0 \/ Exact(t)
      BY DEF ViewsExact
    <2>1. t \in listening /\ t \in Targets \ outlived
      BY DEF ExactInv, WatchInv, TypeOK
    <2> QED
      BY <2>1 DEF ExactInv, TargetsSound, TargetSound, DiskSound
  <1> QED
    BY <1>1, ExactInvariance, PTL
=============================================================================
