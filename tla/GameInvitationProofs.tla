------------------------ MODULE GameInvitationProofs ------------------------
(***************************************************************************)
(* Type correctness and Consent of GameInvitation, and that it implements  *)
(* Matchmaker, for any users, bounds and failures.                         *)
(***************************************************************************)
EXTENDS GameInvitation, FiniteSetTheorems, SequenceTheorems, WellFoundedInduction, TLAPS

(***************************************************************************)
(* What a step leaves alone keeps its part of the invariant.               *)
(***************************************************************************)
LEMMA StoreKept ==
    ASSUME ConsentInv, UNCHANGED <<requests, pushes, asked>>
    PROVE  NumberedApart'
  BY DEF ConsentInv, NumberedApart

LEMMA GamesKept ==
    ASSUME ConsentInv, UNCHANGED games, asked \subseteq asked'
    PROVE  Consent'
  BY DEF ConsentInv, Consent

\* A step of a game that has begun keeps who it is between, and what for.
LEMMA StateMoves ==
    ASSUME ConsentInv, UNCHANGED asked, NEW g \in GameId, games[g].state # "none",
           NEW s \in {"inprogress", "finished"}, games' = [games EXCEPT ![g].state = s]
    PROVE  games' \in [GameId -> GameDoc] /\ Consent'
  <1>1. games \in [GameId -> GameDoc]
    BY DEF ConsentInv, TypeOK
  <1>2. games'[g] = [games[g] EXCEPT !.state = s] /\ \A h \in GameId : h # g => games'[h] = games[h]
    BY <1>1
  <1>3. games'[g] \in GameDoc /\ games'[g].of = games[g].of /\ games'[g].requester = games[g].requester
        /\ games'[g].acceptor = games[g].acceptor
    BY <1>1, <1>2 DEF GameDoc
  <1>4. games' \in [GameId -> GameDoc]
    BY <1>1, <1>3
  <1>5. Consent'
    BY <1>2, <1>3 DEF ConsentInv, Consent
  <1> QED
    BY <1>4, <1>5

LEMMA HeldKept ==
    ASSUME ConsentInv, UNCHANGED <<banners, accepting>>, asked \subseteq asked'
    PROVE  HeldByInvited'
  <1>1. ASSUME NEW u \in Users PROVE Invited(u) \subseteq Invited(u)'
    BY DEF Invited
  <1>2. ASSUME NEW u \in Users PROVE banners[u] \in Seq(Invited(u)')
    <2>1. banners[u] \in Seq(Invited(u))
      BY DEF ConsentInv, HeldByInvited
    <2> QED
      BY <1>1, <2>1
  <1> QED
    BY <1>1, <1>2 DEF ConsentInv, HeldByInvited

\* The chains of one user change.
LEMMA AskingMoves ==
    ASSUME ConsentInv, NEW u \in Users, NEW D \in SUBSET Asking, UNCHANGED accepting,
           \A c \in D : c.to # u /\ (c.step = "stored" => c.id \in RequestId),
           \E c : asking' = [asking EXCEPT ![u] = (@ \ {c}) \cup D]
    PROVE  asking' \in [Users -> SUBSET Asking] /\ ChainsKnow'
  <1>1. asking \in [Users -> SUBSET Asking]
    BY DEF ConsentInv, TypeOK
  <1>2. asking' \in [Users -> SUBSET Asking] /\ asking'[u] \subseteq asking[u] \cup D
        /\ \A v \in Users : v # u => asking'[v] = asking[v]
    BY <1>1
  <1> QED
    BY <1>2 DEF ConsentInv, ChainsKnow

LEMMA AcceptingMoves ==
    ASSUME ConsentInv, NEW u \in Users, NEW D \in SUBSET Accepting, UNCHANGED <<asking, asked, banners>>,
           \A c \in D : IF c.step = "created" THEN c.game \in GameId ELSE c.game = Nothing,
           \A c \in D : c.request \in Invited(u),
           \E c : accepting' = [accepting EXCEPT ![u] = (@ \ {c}) \cup D]
    PROVE  accepting' \in [Users -> SUBSET Accepting] /\ ChainsKnow' /\ HeldByInvited'
  <1>1. accepting \in [Users -> SUBSET Accepting]
    BY DEF ConsentInv, TypeOK
  <1>2. accepting' \in [Users -> SUBSET Accepting] /\ accepting'[u] \subseteq accepting[u] \cup D
        /\ \A v \in Users : v # u => accepting'[v] = accepting[v]
    BY <1>1
  <1>3. ChainsKnow'
    BY <1>2 DEF ConsentInv, ChainsKnow
  <1>4. \A v \in Users : Invited(v)' = Invited(v)
    BY DEF Invited
  <1>5. HeldByInvited'
    BY <1>2, <1>4 DEF ConsentInv, HeldByInvited
  <1> QED
    BY <1>2, <1>3, <1>5

-----------------------------------------------------------------------------
(***************************************************************************)
(* Inviting.                                                               *)
(***************************************************************************)
LEMMA AskSound ==
    ASSUME ConsentInv, NEW u \in Users, NEW o \in Users \ {u}, Ask(u, o)
    PROVE  ConsentInv'
  <1> DEFINE c == [tap |-> asks + 1, to |-> o, step |-> "existing", id |-> Nothing]
  <1>1. /\ asks < MaxAsks /\ asks' = asks + 1
        /\ hidden' = [hidden EXCEPT ![u] = @ \cup {o}]
        /\ asking' = [asking EXCEPT ![u] = @ \cup {c}]
        /\ UNCHANGED <<store, loading, alert, playing, banners, accepting, asked, entered, through>>
    BY DEF Ask
  <1>2. asks \in Nat /\ asks + 1 \in 1..MaxAsks
    BY <1>1, LimitsAssumption DEF ConsentInv, TypeOK
  <1>3. c \in Asking /\ c.step # "stored" /\ c.to # u
    BY <1>2 DEF Asking
  <1> HIDE DEF c
  <1>4. asking' = [asking EXCEPT ![u] = (@ \ {c}) \cup {c}]
    <2>1. (asking[u] \ {c}) \cup {c} = asking[u] \cup {c}
      OBVIOUS
    <2> QED
      BY <1>1, <2>1
  <1>5. UNCHANGED accepting /\ {c} \in SUBSET Asking /\ \A x \in {c} : x.to # u /\ (x.step = "stored" => x.id \in RequestId)
    BY <1>1, <1>3
  <1>6. asking' \in [Users -> SUBSET Asking] /\ ChainsKnow'
    BY <1>4, <1>5, AskingMoves
  <1>7. hidden' \in [Users -> SUBSET Users] /\ asks' \in 0..MaxAsks
    BY <1>1, <1>2 DEF ConsentInv, TypeOK
  <1>8. TypeOK'
    BY <1>1, <1>6, <1>7 DEF ConsentInv, TypeOK, store
  <1>9. NumberedApart' /\ Consent' /\ HeldByInvited'
    BY <1>1, StoreKept, GamesKept, HeldKept DEF store
  <1> QED
    BY <1>6, <1>8, <1>9 DEF ConsentInv

LEMMA ExistingCheckedSound ==
    ASSUME ConsentInv, NEW u \in Users, NEW c \in asking[u], ExistingChecked(u, c)
    PROVE  ConsentInv'
  <1> DEFINE d == [c EXCEPT !.step = "ongoing"]
  <1>1. /\ IF Existing(u, c.to) THEN Drop(u, c) ELSE Step(u, c, d)
        /\ UNCHANGED <<store, screens, accepting, records>>
    BY DEF ExistingChecked
  <1>2. d \in Asking /\ d.step # "stored" /\ d.to # u
    <2>1. c \in Asking /\ c.to # u
      BY DEF ConsentInv, TypeOK, ChainsKnow
    <2> QED
      BY <2>1 DEF Asking
  <1> HIDE DEF d
  <1>3. PICK D \in {{}, {d}} : asking' = [asking EXCEPT ![u] = (@ \ {c}) \cup D]
    <2>1. CASE Existing(u, c.to)
      BY <1>1, <2>1 DEF Drop
    <2>2. CASE ~Existing(u, c.to)
      BY <1>1, <2>2 DEF Step
    <2> QED
      BY <2>1, <2>2
  <1>4. asking' \in [Users -> SUBSET Asking] /\ ChainsKnow'
    <2>1. D \in SUBSET Asking /\ UNCHANGED accepting /\ \A x \in D : x.to # u /\ (x.step = "stored" => x.id \in RequestId)
      BY <1>1, <1>2, <1>3
    <2> QED
      BY <1>3, <2>1, AskingMoves
  <1>5. TypeOK'
    BY <1>1, <1>4 DEF ConsentInv, TypeOK, store, screens, records
  <1>6. NumberedApart' /\ Consent' /\ HeldByInvited'
    BY <1>1, StoreKept, GamesKept, HeldKept DEF store, screens, records
  <1> QED
    BY <1>4, <1>5, <1>6 DEF ConsentInv

LEMMA OngoingCheckedSound ==
    ASSUME ConsentInv, NEW u \in Users, NEW c \in asking[u], OngoingChecked(u, c)
    PROVE  ConsentInv'
  <1> DEFINE d == [c EXCEPT !.step = "store"]
  <1>1. /\ \/ Step(u, c, d) /\ UNCHANGED alert
           \/ Drop(u, c) /\ alert' = [alert EXCEPT ![u] = @ \/ Free(u)]
        /\ UNCHANGED <<store, hidden, loading, playing, banners, accepting, records>>
    BY DEF OngoingChecked
  <1>2. d \in Asking /\ d.step # "stored" /\ d.to # u
    <2>1. c \in Asking /\ c.to # u
      BY DEF ConsentInv, TypeOK, ChainsKnow
    <2> QED
      BY <2>1 DEF Asking
  <1> HIDE DEF d
  <1>3. PICK D \in {{}, {d}} : asking' = [asking EXCEPT ![u] = (@ \ {c}) \cup D]
    BY <1>1 DEF Drop, Step
  <1>4. asking' \in [Users -> SUBSET Asking] /\ ChainsKnow'
    <2>1. D \in SUBSET Asking /\ UNCHANGED accepting /\ \A x \in D : x.to # u /\ (x.step = "stored" => x.id \in RequestId)
      BY <1>1, <1>2, <1>3
    <2> QED
      BY <1>3, <2>1, AskingMoves
  <1>5. alert' \in [Users -> BOOLEAN]
    <2>1. Free(u) \in BOOLEAN /\ alert \in [Users -> BOOLEAN]
      BY DEF Free, ConsentInv, TypeOK
    <2> QED
      BY <1>1, <2>1
  <1>6. TypeOK'
    BY <1>1, <1>4, <1>5 DEF ConsentInv, TypeOK, store, records
  <1>7. NumberedApart' /\ Consent' /\ HeldByInvited'
    BY <1>1, StoreKept, GamesKept, HeldKept DEF store, records
  <1> QED
    BY <1>4, <1>6, <1>7 DEF ConsentInv

LEMMA AskFailsSound ==
    ASSUME ConsentInv, NEW u \in Users, NEW c \in asking[u], AskFails(u, c)
    PROVE  ConsentInv'
  <1>1. asking' = [asking EXCEPT ![u] = (@ \ {c}) \cup {}] /\ UNCHANGED <<store, screens, accepting, records>>
    BY DEF AskFails, Drop
  <1>2. asking' \in [Users -> SUBSET Asking] /\ ChainsKnow'
    <2>1. {} \in SUBSET Asking /\ UNCHANGED accepting
      BY <1>1
    <2> QED
      BY <1>1, <2>1, AskingMoves
  <1>3. TypeOK'
    BY <1>1, <1>2 DEF ConsentInv, TypeOK, store, screens, records
  <1>4. NumberedApart' /\ Consent' /\ HeldByInvited'
    BY <1>1, StoreKept, GamesKept, HeldKept DEF store, screens, records
  <1> QED
    BY <1>2, <1>3, <1>4 DEF ConsentInv

\* The new invitation has a number no other has.
LEMMA RequestStoredSound ==
    ASSUME ConsentInv, NEW u \in Users, NEW c \in asking[u], RequestStored(u, c)
    PROVE  ConsentInv'
  <1> DEFINE n == Cardinality(asked)
             r == [id |-> n + 1, from |-> u, to |-> c.to]
             d == [c EXCEPT !.step = "stored", !.id = n + 1]
  <1>1. /\ n < MaxRequests
        /\ requests' = requests \cup {r} /\ asked' = asked \cup {r} /\ pushes' = pushes \cup {r}
        /\ asking' = [asking EXCEPT ![u] = (@ \ {c}) \cup {d}]
        /\ UNCHANGED <<games, writes, screens, accepting, asks, entered, through>>
    BY DEF RequestStored, Step
  <1>2. n \in Nat /\ n + 1 \in RequestId
    <2>1. n \in Nat
      BY FS_CardinalityType DEF ConsentInv, NumberedApart
    <2> QED
      BY <1>1, <2>1, LimitsAssumption DEF RequestId
  <1>3. c \in Asking /\ c.to # u
    BY DEF ConsentInv, TypeOK, ChainsKnow
  <1>4. r \in GameRequest /\ r.id = n + 1 /\ r.from = u /\ r.to = c.to
    BY <1>2, <1>3 DEF GameRequest, Asking
  <1>5. d \in Asking /\ d.id \in RequestId /\ d.to # u
    BY <1>2, <1>3 DEF Asking
  <1>6. r \notin asked /\ \A q \in asked : q.id # r.id
    <2>1. \A q \in asked : q.id <= n
      BY DEF ConsentInv, NumberedApart
    <2>2. ASSUME NEW q \in asked, q.id = r.id PROVE FALSE
      BY <1>2, <1>4, <2>1, <2>2
    <2> QED
      BY <2>2
  <1>7. IsFiniteSet(asked') /\ Cardinality(asked') = n + 1
    BY <1>1, <1>6, FS_AddElement DEF ConsentInv, NumberedApart
  <1> HIDE DEF n, r, d
  <1>8. NumberedApart'
    <2>1. \A q \in asked' : q.id <= Cardinality(asked')
      <3>1. \A q \in asked : q.id <= n /\ q.id \in Nat
        BY DEF ConsentInv, NumberedApart, n, TypeOK, GameRequest, RequestId
      <3> QED
        BY <1>1, <1>2, <1>4, <1>7, <3>1
    <2>2. \A q, p \in asked' : q.id = p.id => q = p
      BY <1>1, <1>6 DEF ConsentInv, NumberedApart
    <2>3. requests' \subseteq asked' /\ pushes' \subseteq asked'
      BY <1>1 DEF ConsentInv, NumberedApart
    <2> QED
      BY <1>7, <2>1, <2>2, <2>3 DEF NumberedApart
  <1>9. asking' \in [Users -> SUBSET Asking] /\ ChainsKnow'
    <2>1. {d} \in SUBSET Asking /\ UNCHANGED accepting /\ \A x \in {d} : x.to # u /\ (x.step = "stored" => x.id \in RequestId)
      BY <1>1, <1>5
    <2> QED
      BY <1>1, <2>1, AskingMoves
  <1>10. TypeOK'
    <2>1. requests' \subseteq GameRequest /\ asked' \subseteq GameRequest /\ pushes' \subseteq GameRequest
      BY <1>1, <1>4 DEF ConsentInv, TypeOK
    <2> QED
      BY <1>1, <1>9, <2>1 DEF ConsentInv, TypeOK, screens
  <1>11. asked \subseteq asked'
    BY <1>1
  <1>12. Consent' /\ HeldByInvited'
    BY <1>1, <1>11, GamesKept, HeldKept DEF screens
  <1> QED
    BY <1>8, <1>9, <1>10, <1>12 DEF ConsentInv

-----------------------------------------------------------------------------
(***************************************************************************)
(* The loading views.                                                      *)
(***************************************************************************)
LEMMA ListenerRemoved ==
    ASSUME NEW l \in Loading
    PROVE  removeGameListener(l) \in Loading
  BY DEF Loading, removeGameListener, Nothing

\* A step of u's loading view.
LEMMA LoadingMoves ==
    ASSUME ConsentInv, NEW u \in Users, NEW l \in Loading, loading' = [loading EXCEPT ![u] = l]
    PROVE  loading' \in [Users -> Loading]
  BY DEF ConsentInv, TypeOK

LEMMA ShowLoadingSound ==
    ASSUME ConsentInv, NEW u \in Users, NEW c \in asking[u], ShowLoading(u, c)
    PROVE  ConsentInv'
  <1> DEFINE l == [view |-> c.id, visible |-> TRUE, counting |-> loading[u].counting \cup {c.id},
                   listening |-> loading[u].listening \cup {c.id}, gameListener |-> c.id]
  <1>1. /\ c.step = "stored"
        /\ asking' = [asking EXCEPT ![u] = (@ \ {c}) \cup {}]
        /\ loading' = [loading EXCEPT ![u] = l]
        /\ hidden' = [hidden EXCEPT ![u] = {}]
        /\ UNCHANGED <<store, alert, playing, banners, accepting, records>>
    BY DEF ShowLoading, Drop
  <1>2. c.id \in RequestId /\ loading[u] \in Loading
    BY <1>1 DEF ConsentInv, ChainsKnow, TypeOK
  <1>3. l \in Loading
    BY <1>2 DEF Loading
  <1> HIDE DEF l
  <1>4. loading' \in [Users -> Loading]
    BY <1>1, <1>3, LoadingMoves
  <1>5. asking' \in [Users -> SUBSET Asking] /\ ChainsKnow'
    <2>1. {} \in SUBSET Asking /\ UNCHANGED accepting
      BY <1>1
    <2> QED
      BY <1>1, <2>1, AskingMoves
  <1>6. TypeOK'
    BY <1>1, <1>4, <1>5 DEF ConsentInv, TypeOK, store, records
  <1>7. NumberedApart' /\ Consent' /\ HeldByInvited'
    BY <1>1, StoreKept, GamesKept, HeldKept DEF store, records
  <1> QED
    BY <1>5, <1>6, <1>7 DEF ConsentInv

LEMMA CloseSound ==
    ASSUME ConsentInv, NEW u \in Users, NEW v \in RequestId, Close(u, v)
    PROVE  ConsentInv'
  <1>1. /\ loading' = [loading EXCEPT ![u] = Closed(loading[u], v)]
        /\ requests' \subseteq requests
        /\ UNCHANGED <<games, pushes, writes, hidden, alert, playing, banners, chains, records>>
    BY DEF Close, Undeleted
  <1>2. loading[u] \in Loading
    BY DEF ConsentInv, TypeOK
  <1>3. Closed(loading[u], v) \in Loading
    BY <1>2 DEF Loading, Closed
  <1>4. loading' \in [Users -> Loading]
    BY <1>1, <1>3, LoadingMoves
  <1>5. TypeOK'
    BY <1>1, <1>4 DEF ConsentInv, TypeOK, chains, records
  <1>6. NumberedApart'
    BY <1>1 DEF ConsentInv, NumberedApart, records
  <1>7. Consent' /\ HeldByInvited' /\ ChainsKnow'
    BY <1>1, GamesKept, HeldKept DEF chains, records, ConsentInv, ChainsKnow
  <1> QED
    BY <1>5, <1>6, <1>7 DEF ConsentInv

\* Writes are queued.
LEMMA QueueMoves ==
    ASSUME ConsentInv, NEW u \in Users, NEW g \in GameId, NEW s \in {"inprogress", "finished"}, NEW n \in Nat,
           Queue(u, StateWrites(g, s, n))
    PROVE  writes' \in [Users -> Seq(StateWrite)]
  <1>1. [game |-> g, state |-> s] \in StateWrite
    BY DEF StateWrite
  <1>2. StateWrites(g, s, n) \in Seq(StateWrite)
    BY <1>1 DEF StateWrites
  <1>3. writes \in [Users -> Seq(StateWrite)]
    BY DEF ConsentInv, TypeOK
  <1> DEFINE ws == StateWrites(g, s, n)
  <1> HIDE DEF ws
  <1>4. writes' = [writes EXCEPT ![u] = writes[u] \o ws] /\ ws \in Seq(StateWrite)
    BY <1>2 DEF Queue, ws
  <1>5. writes[u] \o ws \in Seq(StateWrite)
    BY <1>3, <1>4
  <1> QED
    BY <1>3, <1>4, <1>5

\* Each listener that is called writes once.
LEMMA CalledCount ==
    ASSUME NEW l \in Loading
    PROVE  Called(l) \subseteq RequestId /\ Cardinality(Called(l)) \in Nat
  <1>1. Called(l) \subseteq RequestId
    BY DEF Called, Listeners, Loading
  <1>2. IsFiniteSet(RequestId)
    BY LimitsAssumption, FS_Interval DEF RequestId
  <1> QED
    BY <1>1, <1>2, FS_Subset, FS_CardinalityType

LEMMA GameFoundSound ==
    ASSUME ConsentInv, NEW u \in Users, GameFound(u)
    PROVE  ConsentInv'
  <1>1. PICK g \in GameId :
            /\ FirstStarting(u, g)
            /\ Queue(u, StateWrites(g, "inprogress", Cardinality(Called(loading[u]))))
            /\ Enter(u, g)
            /\ through' = through \cup (Called(loading[u]) \X {g})
    BY DEF GameFound
  <1>2. /\ loading' = [loading EXCEPT ![u] = TakenDown(loading[u])]
        /\ UNCHANGED <<requests, games, pushes, hidden, alert, banners, chains, asked, asks>>
    BY DEF GameFound
  <1>5. loading[u] \in Loading
    BY DEF ConsentInv, TypeOK
  <1>3. Called(loading[u]) \subseteq RequestId /\ Cardinality(Called(loading[u])) \in Nat
    BY <1>5, CalledCount
  <1>4. writes' \in [Users -> Seq(StateWrite)]
    BY <1>1, <1>3, QueueMoves
  <1>6. TakenDown(loading[u]) \in Loading
    <2>1. removeGameListener(loading[u]) \in Loading
      BY <1>5, ListenerRemoved
    <2> QED
      BY <1>5, <2>1 DEF TakenDown, Loading
  <1>7. loading' \in [Users -> Loading]
    BY <1>2, <1>6, LoadingMoves
  <1>8. through' \subseteq RequestId \X GameId
    BY <1>1, <1>3 DEF ConsentInv, TypeOK
  <1>9. playing' \in [Users -> GameId \cup {Nothing}] /\ entered' \in [Users -> SUBSET GameId]
    BY <1>1 DEF Enter, ConsentInv, TypeOK
  <1>10. TypeOK'
    BY <1>2, <1>4, <1>7, <1>8, <1>9 DEF ConsentInv, TypeOK, chains
  <1>11. NumberedApart' /\ HeldByInvited' /\ ChainsKnow' /\ Consent'
    BY <1>2, StoreKept, HeldKept, GamesKept DEF chains, ConsentInv, ChainsKnow
  <1> QED
    BY <1>10, <1>11 DEF ConsentInv

-----------------------------------------------------------------------------
(***************************************************************************)
(* Being invited.                                                          *)
(***************************************************************************)
\* The messages of one user change.
LEMMA BannersMove ==
    ASSUME ConsentInv, NEW u \in Users, NEW s \in Seq(Invited(u)), UNCHANGED <<asked, accepting>>,
           banners' = [banners EXCEPT ![u] = s]
    PROVE  banners' \in [Users -> Seq(GameRequest)] /\ HeldByInvited'
  <1>1. Invited(u) \subseteq GameRequest /\ banners \in [Users -> Seq(GameRequest)]
    BY DEF Invited, ConsentInv, TypeOK
  <1>2. s \in Seq(GameRequest)
    BY <1>1
  <1>3. \A v \in Users : Invited(v)' = Invited(v)
    BY DEF Invited
  <1>4. banners'[u] = s /\ \A v \in Users : v # u => banners'[v] = banners[v]
    BY <1>1
  <1>5. HeldByInvited'
    BY <1>3, <1>4 DEF ConsentInv, HeldByInvited
  <1> QED
    BY <1>1, <1>2, <1>5

LEMMA PushSound ==
    ASSUME ConsentInv, NEW r \in pushes, Push(r) \/ PushUnseen(r)
    PROVE  ConsentInv'
  <1>1. /\ pushes' \subseteq pushes
        /\ UNCHANGED <<requests, games, writes, hidden, loading, alert, playing, chains, records>>
    BY DEF Push, PushUnseen, screens
  <1>2. r \in GameRequest /\ r.to \in Users /\ r \in Invited(r.to)
    BY DEF ConsentInv, TypeOK, NumberedApart, Invited, GameRequest
  <1>3. UNCHANGED <<asked, accepting, asking>>
    BY <1>1 DEF chains, records
  <1>4. banners' \in [Users -> Seq(GameRequest)] /\ HeldByInvited'
    <2>1. CASE Push(r)
      <3>1. banners' = [banners EXCEPT ![r.to] = Append(banners[r.to], r)]
        BY <2>1 DEF Push
      <3>2. banners[r.to] \in Seq(Invited(r.to))
        BY <1>2 DEF ConsentInv, HeldByInvited
      <3>3. Append(banners[r.to], r) \in Seq(Invited(r.to))
        BY <1>2, <3>2
      <3> QED
        BY <1>2, <1>3, <3>1, <3>3, BannersMove
    <2>2. CASE PushUnseen(r)
      <3>1. UNCHANGED banners
        BY <2>2 DEF PushUnseen, screens
      <3> QED
        BY <1>3, <3>1, HeldKept DEF ConsentInv, TypeOK
    <2> QED
      BY <2>1, <2>2
  <1>5. TypeOK'
    BY <1>1, <1>4 DEF ConsentInv, TypeOK, chains, records
  <1>6. NumberedApart'
    BY <1>1, <1>3 DEF ConsentInv, NumberedApart
  <1>7. Consent' /\ ChainsKnow'
    BY <1>1, <1>3, GamesKept DEF ConsentInv, ChainsKnow
  <1> QED
    BY <1>4, <1>5, <1>6, <1>7 DEF ConsentInv

LEMMA SwipeSound ==
    ASSUME ConsentInv, NEW u \in Users, Swipe(u)
    PROVE  ConsentInv'
  <1>1. /\ banners[u] # << >> /\ banners' = [banners EXCEPT ![u] = Tail(banners[u])]
        /\ UNCHANGED <<store, hidden, loading, alert, playing, chains, records>>
    BY DEF Swipe
  <1>2. banners[u] \in Seq(Invited(u))
    BY DEF ConsentInv, HeldByInvited
  <1>3. Tail(banners[u]) \in Seq(Invited(u))
    BY <1>1, <1>2
  <1>4. UNCHANGED <<asked, accepting, asking>>
    BY <1>1 DEF chains, records
  <1>5. banners' \in [Users -> Seq(GameRequest)] /\ HeldByInvited'
    BY <1>1, <1>3, <1>4, BannersMove
  <1>6. TypeOK'
    BY <1>1, <1>5 DEF ConsentInv, TypeOK, store, chains, records
  <1>7. NumberedApart' /\ Consent' /\ ChainsKnow'
    BY <1>1, <1>4, StoreKept, GamesKept DEF store, ConsentInv, ChainsKnow
  <1> QED
    BY <1>5, <1>6, <1>7 DEF ConsentInv

\* Accept is tapped in a message of an invitation to this user.
LEMMA AcceptSound ==
    ASSUME ConsentInv, NEW u \in Users, Accept(u)
    PROVE  ConsentInv'
  <1>0. PICK n \in Tap : accepting' = [accepting EXCEPT ![u] = @ \cup
            {[tap |-> n, request |-> Head(banners[u]), step |-> "lookup", game |-> Nothing]}]
    BY DEF Accept
  <1> DEFINE c == [tap |-> n, request |-> Head(banners[u]), step |-> "lookup", game |-> Nothing]
  <1>1. /\ banners[u] # << >>
        /\ accepting' = [accepting EXCEPT ![u] = @ \cup {c}]
        /\ UNCHANGED <<store, screens, asking, records>>
    BY <1>0 DEF Accept
  <1>2. Head(banners[u]) \in Invited(u)
    <2>1. banners[u] \in Seq(Invited(u))
      BY DEF ConsentInv, HeldByInvited
    <2> QED
      BY <1>1, <2>1
  <1>3. c \in Accepting /\ c.step # "created" /\ c.game = Nothing /\ c.request \in Invited(u)
    <2>1. Invited(u) \subseteq GameRequest
      BY DEF Invited, ConsentInv, TypeOK
    <2> QED
      BY <1>2, <2>1 DEF Accepting, Nothing
  <1> HIDE DEF c
  <1>4. accepting' = [accepting EXCEPT ![u] = (@ \ {c}) \cup {c}]
    <2>1. (accepting[u] \ {c}) \cup {c} = accepting[u] \cup {c}
      OBVIOUS
    <2> QED
      BY <1>1, <2>1
  <1>5. accepting' \in [Users -> SUBSET Accepting] /\ ChainsKnow' /\ HeldByInvited'
    <2>1. /\ {c} \in SUBSET Accepting /\ UNCHANGED <<asking, asked, banners>>
          /\ \A x \in {c} : IF x.step = "created" THEN x.game \in GameId ELSE x.game = Nothing
          /\ \A x \in {c} : x.request \in Invited(u)
      BY <1>1, <1>3 DEF records, screens
    <2> QED
      BY <1>4, <2>1, AcceptingMoves
  <1>6. TypeOK'
    BY <1>1, <1>5 DEF ConsentInv, TypeOK, store, screens, records
  <1>7. NumberedApart' /\ Consent'
    BY <1>1, StoreKept, GamesKept DEF store, records
  <1> QED
    BY <1>5, <1>6, <1>7 DEF ConsentInv

LEMMA LookedUpSound ==
    ASSUME ConsentInv, NEW u \in Users, NEW c \in accepting[u], LookedUp(u, c)
    PROVE  ConsentInv'
  <1> DEFINE d == [c EXCEPT !.step = "create"]
  <1>1. PICK D \in {{}, {d}} : accepting' = [accepting EXCEPT ![u] = (@ \ {c}) \cup D]
    <2>1. CASE c.request \in requests
      BY <2>1 DEF LookedUp, Accepted
    <2>2. CASE c.request \notin requests
      BY <2>2 DEF LookedUp, Accepted
    <2> QED
      BY <2>1, <2>2
  <1>2. UNCHANGED <<store, screens, asking, records>>
    BY DEF LookedUp
  <1>3. d \in Accepting /\ d.step # "created" /\ d.game = Nothing /\ d.request \in Invited(u)
    <2>1. c \in Accepting /\ c.request \in Invited(u) /\ c.game = Nothing
      BY DEF ConsentInv, TypeOK, HeldByInvited, ChainsKnow, LookedUp
    <2> QED
      BY <2>1 DEF Accepting
  <1> HIDE DEF d
  <1>4. accepting' \in [Users -> SUBSET Accepting] /\ ChainsKnow' /\ HeldByInvited'
    <2>1. /\ D \in SUBSET Accepting /\ UNCHANGED <<asking, asked, banners>>
          /\ \A x \in D : IF x.step = "created" THEN x.game \in GameId ELSE x.game = Nothing
          /\ \A x \in D : x.request \in Invited(u)
      BY <1>1, <1>2, <1>3 DEF records, screens
    <2> QED
      BY <1>1, <2>1, AcceptingMoves
  <1>5. TypeOK'
    BY <1>2, <1>4 DEF ConsentInv, TypeOK, store, screens, records
  <1>6. NumberedApart' /\ Consent'
    BY <1>2, StoreKept, GamesKept DEF store, records
  <1> QED
    BY <1>4, <1>5, <1>6 DEF ConsentInv

\* The game is made from the invitation the chain has kept, which may be gone by now
\* but was stored: from the requester, to the user who accepts.
LEMMA GameCreatedSound ==
    ASSUME ConsentInv, NEW u \in Users, NEW c \in accepting[u], GameCreated(u, c)
    PROVE  ConsentInv'
  <1>1. PICK g \in GameId :
            /\ games' = [games EXCEPT ![g] = NewGame(u, c.request)]
            /\ accepting' = [accepting EXCEPT ![u] = (@ \ {c}) \cup {[c EXCEPT !.step = "created", !.game = g]}]
    BY DEF GameCreated, Accepted
  <1> DEFINE r == c.request
             d == [c EXCEPT !.step = "created", !.game = g]
  <1>2. UNCHANGED <<requests, pushes, writes, screens, asking, records>>
    BY DEF GameCreated
  <1>3. c \in Accepting /\ r \in Invited(u)
    BY DEF ConsentInv, TypeOK, HeldByInvited
  <1>4. d \in Accepting /\ d.step = "created" /\ d.game \in GameId /\ d.request \in Invited(u)
    BY <1>3 DEF Accepting
  <1>5. r \in asked /\ r.to = u /\ r \in GameRequest
    BY <1>3 DEF Invited, ConsentInv, TypeOK
  <1>6. /\ NewGame(u, r) \in GameDoc
        /\ NewGame(u, r).of = r.id /\ NewGame(u, r).requester = r.from /\ NewGame(u, r).acceptor = r.to
    BY <1>5 DEF NewGame, GameDoc, GameRequest
  <1>7. games' \in [GameId -> GameDoc] /\ games'[g] = NewGame(u, r)
        /\ \A h \in GameId : h # g => games'[h] = games[h]
    BY <1>1, <1>6 DEF ConsentInv, TypeOK
  <1>8. UNCHANGED <<asked, asking, banners>>
    BY <1>2 DEF records, screens
  <1>9. Consent'
    BY <1>5, <1>6, <1>7, <1>8 DEF ConsentInv, Consent
  <1> HIDE DEF d
  <1>10. accepting' \in [Users -> SUBSET Accepting] /\ ChainsKnow' /\ HeldByInvited'
    <2>1. /\ {d} \in SUBSET Accepting
          /\ \A x \in {d} : IF x.step = "created" THEN x.game \in GameId ELSE x.game = Nothing
          /\ \A x \in {d} : x.request \in Invited(u)
      BY <1>4
    <2>2. accepting' = [accepting EXCEPT ![u] = (@ \ {c}) \cup {d}]
      BY <1>1 DEF d
    <2> QED
      BY <1>8, <2>1, <2>2, AcceptingMoves
  <1>11. TypeOK'
    BY <1>2, <1>7, <1>10 DEF ConsentInv, TypeOK, screens, records
  <1>12. NumberedApart'
    BY <1>2, <1>8, StoreKept
  <1> QED
    BY <1>9, <1>10, <1>11, <1>12 DEF ConsentInv

\* Ending a chain of Accept.
LEMMA AcceptEnds ==
    ASSUME ConsentInv, NEW u \in Users, NEW c, Accepted(u, c, {}), UNCHANGED <<asking, asked>>,
           HeldByInvited => \A v \in Users : banners'[v] \in Seq(Invited(v))
    PROVE  accepting' \in [Users -> SUBSET Accepting] /\ ChainsKnow' /\ HeldByInvited'
  <1>1. accepting' = [accepting EXCEPT ![u] = accepting[u] \ {c}]
    BY DEF Accepted
  <1>2. accepting \in [Users -> SUBSET Accepting]
    BY DEF ConsentInv, TypeOK
  <1>3. accepting' \in [Users -> SUBSET Accepting] /\ \A v \in Users : accepting'[v] \subseteq accepting[v]
    BY <1>1, <1>2
  <1>4. ChainsKnow'
    BY <1>3 DEF ConsentInv, ChainsKnow
  <1>5. \A v \in Users : Invited(v)' = Invited(v)
    BY DEF Invited
  <1>6. HeldByInvited'
    BY <1>3, <1>5 DEF ConsentInv, HeldByInvited
  <1> QED
    BY <1>3, <1>4, <1>6

LEMMA EnterCreatedSound ==
    ASSUME ConsentInv, NEW u \in Users, NEW c \in accepting[u], EnterCreated(u, c)
    PROVE  ConsentInv'
  <1>1. /\ c.step = "created" /\ Accepted(u, c, {})
        /\ requests' \subseteq requests
        /\ loading' = [loading EXCEPT ![u] = removeGameListener(loading[u])]
        /\ Enter(u, c.game)
        /\ banners' = [banners EXCEPT ![u] = IF banners[u] = << >> THEN banners[u] ELSE Tail(banners[u])]
        /\ UNCHANGED <<games, pushes, writes, hidden, alert, asking, asked, asks, through>>
    BY DEF EnterCreated, Deleted, Undeleted
  <1>2. c.game \in GameId
    BY <1>1 DEF ConsentInv, ChainsKnow
  <1>3. loading' \in [Users -> Loading]
    <2>1. loading[u] \in Loading
      BY DEF ConsentInv, TypeOK
    <2> QED
      BY <1>1, <2>1, ListenerRemoved, LoadingMoves
  <1>4. playing' \in [Users -> GameId \cup {Nothing}] /\ entered' \in [Users -> SUBSET GameId]
    BY <1>1, <1>2 DEF Enter, ConsentInv, TypeOK
  <1>5. \A v \in Users : banners'[v] \in Seq(Invited(v))
    <2>1. \A v \in Users : banners[v] \in Seq(Invited(v))
      BY DEF ConsentInv, HeldByInvited
    <2>2. banners[u] # << >> => Tail(banners[u]) \in Seq(Invited(u))
      BY <2>1
    <2>3. banners'[u] = (IF banners[u] = << >> THEN banners[u] ELSE Tail(banners[u]))
          /\ \A v \in Users : v # u => banners'[v] = banners[v]
      BY <1>1 DEF ConsentInv, TypeOK
    <2> QED
      BY <2>1, <2>2, <2>3
  <1>6. accepting' \in [Users -> SUBSET Accepting] /\ ChainsKnow' /\ HeldByInvited'
    BY <1>1, <1>5, AcceptEnds
  <1>7. banners' \in [Users -> Seq(GameRequest)]
    <2>1. \A v \in Users : Invited(v) \subseteq GameRequest
      BY DEF Invited, ConsentInv, TypeOK
    <2>2. \A v \in Users : banners'[v] \in Seq(GameRequest)
      BY <1>5, <2>1
    <2>3. banners' = [v \in Users |-> banners'[v]]
      BY <1>1 DEF ConsentInv, TypeOK
    <2> QED
      BY <2>2, <2>3
  <1>8. TypeOK'
    BY <1>1, <1>3, <1>4, <1>6, <1>7 DEF ConsentInv, TypeOK
  <1>9. NumberedApart' /\ Consent'
    BY <1>1, GamesKept DEF ConsentInv, NumberedApart
  <1> QED
    BY <1>6, <1>8, <1>9 DEF ConsentInv

LEMMA AcceptFailsSound ==
    ASSUME ConsentInv, NEW u \in Users, NEW c \in accepting[u], AcceptFails(u, c)
    PROVE  ConsentInv'
  <1>1. Accepted(u, c, {}) /\ requests' \subseteq requests
        /\ UNCHANGED <<games, pushes, writes, screens, asking, records>>
    BY DEF AcceptFails, Deleted
  <1>2. UNCHANGED <<asked, asking, banners>>
    BY <1>1 DEF records, screens
  <1>3. accepting' \in [Users -> SUBSET Accepting] /\ ChainsKnow' /\ HeldByInvited'
    BY <1>1, <1>2, AcceptEnds DEF HeldByInvited
  <1>4. TypeOK'
    BY <1>1, <1>3 DEF ConsentInv, TypeOK, screens, records
  <1>5. NumberedApart' /\ Consent'
    BY <1>1, <1>2, GamesKept DEF ConsentInv, NumberedApart
  <1> QED
    BY <1>3, <1>4, <1>5 DEF ConsentInv

-----------------------------------------------------------------------------
(***************************************************************************)
(* The rest of the app.                                                    *)
(***************************************************************************)
\* What is written, and what is left, is a game that was created.
LEMMA PlayingBegun ==
    ASSUME ConsentInv, GamesBegun, NEW u \in Users, playing[u] # Nothing
    PROVE  playing[u] \in GameId /\ games[playing[u]].state # "none"
  BY DEF ConsentInv, TypeOK, GamesBegun

LEMMA OldestBegun ==
    ASSUME ConsentInv, GamesBegun, NEW u \in Users, writes[u] # << >>
    PROVE  /\ Head(writes[u]) \in StateWrite /\ games[Head(writes[u]).game].state # "none"
           /\ Tail(writes[u]) \in Seq(StateWrite)
  <1> DEFINE ws == writes[u]
  <1>1. ws \in Seq(StateWrite) /\ ws # << >> /\ \A i \in DOMAIN ws : games[ws[i].game].state # "none"
    BY DEF ConsentInv, TypeOK, GamesBegun
  <1> HIDE DEF ws
  <1>2. Head(ws) \in StateWrite /\ Tail(ws) \in Seq(StateWrite)
    BY <1>1, HeadTailProperties
  <1>3. 1 \in DOMAIN ws /\ Head(ws) = ws[1]
    BY <1>1, EmptySeq
  <1> QED
    BY <1>1, <1>2, <1>3 DEF ws

LEMMA CommittedSound ==
    ASSUME ConsentInv, GamesBegun, NEW u \in Users, Committed(u)
    PROVE  ConsentInv'
  <1> DEFINE w == Head(writes[u])
  <1>1. /\ writes[u] # << >>
        /\ games' = [games EXCEPT ![w.game].state = w.state]
        /\ writes' = [writes EXCEPT ![u] = Tail(writes[u])]
        /\ UNCHANGED <<requests, pushes, screens, chains, records>>
    BY DEF Committed
  <1>2. w \in StateWrite /\ games[w.game].state # "none" /\ Tail(writes[u]) \in Seq(StateWrite)
    BY <1>1, OldestBegun
  <1> HIDE DEF w
  <1>3. w.game \in GameId /\ w.state \in {"inprogress", "finished"}
    BY <1>2 DEF StateWrite
  <1>4. UNCHANGED <<asked, asking, accepting, banners>>
    BY <1>1 DEF screens, chains, records
  <1>5. games' \in [GameId -> GameDoc] /\ Consent'
    BY <1>1, <1>2, <1>3, <1>4, StateMoves
  <1>6. writes' \in [Users -> Seq(StateWrite)]
    BY <1>1, <1>2 DEF ConsentInv, TypeOK
  <1>7. TypeOK'
    BY <1>1, <1>5, <1>6 DEF ConsentInv, TypeOK, screens, chains, records
  <1>8. NumberedApart' /\ HeldByInvited' /\ ChainsKnow'
    BY <1>1, <1>4, StoreKept, HeldKept DEF ConsentInv, ChainsKnow
  <1> QED
    BY <1>5, <1>7, <1>8 DEF ConsentInv

LEMMA WriteRefusedSound ==
    ASSUME ConsentInv, GamesBegun, NEW u \in Users, WriteRefused(u)
    PROVE  ConsentInv'
  <1>1. /\ writes[u] # << >>
        /\ writes' = [writes EXCEPT ![u] = Tail(writes[u])]
        /\ UNCHANGED <<requests, games, pushes, screens, chains, records>>
    BY DEF WriteRefused
  <1>2. Tail(writes[u]) \in Seq(StateWrite)
    BY <1>1, OldestBegun
  <1>3. writes' \in [Users -> Seq(StateWrite)]
    BY <1>1, <1>2 DEF ConsentInv, TypeOK
  <1>4. TypeOK'
    BY <1>1, <1>3 DEF ConsentInv, TypeOK, screens, chains, records
  <1>5. NumberedApart' /\ Consent' /\ HeldByInvited' /\ ChainsKnow'
    BY <1>1, StoreKept, GamesKept, HeldKept DEF screens, chains, records, ConsentInv, ChainsKnow
  <1> QED
    BY <1>4, <1>5 DEF ConsentInv

\* The screen of a match: a write is queued or none, the listener for games may go,
\* and the device may be home again.
LEMMA MatchScreenSound ==
    ASSUME ConsentInv, NEW u \in Users,
           UNCHANGED <<requests, games, pushes, alert, banners, chains, records>>,
           writes' \in [Users -> Seq(StateWrite)],
           loading' = loading \/ loading' = [loading EXCEPT ![u] = removeGameListener(loading[u])],
           playing' = [playing EXCEPT ![u] = Nothing] \/ UNCHANGED playing,
           hidden' = [hidden EXCEPT ![u] = {}] \/ UNCHANGED hidden
    PROVE  ConsentInv'
  <1>1. loading' \in [Users -> Loading]
    <2>1. loading[u] \in Loading /\ loading \in [Users -> Loading]
      BY DEF ConsentInv, TypeOK
    <2>2. removeGameListener(loading[u]) \in Loading
      BY <2>1, ListenerRemoved
    <2> QED
      BY <2>1, <2>2
  <1>2. playing' \in [Users -> GameId \cup {Nothing}] /\ hidden' \in [Users -> SUBSET Users]
    BY DEF ConsentInv, TypeOK
  <1>4. TypeOK'
    BY <1>1, <1>2 DEF ConsentInv, TypeOK, chains, records
  <1>5. NumberedApart' /\ Consent' /\ HeldByInvited' /\ ChainsKnow'
    BY StoreKept, GamesKept, HeldKept DEF chains, records, ConsentInv, ChainsKnow
  <1> QED
    BY <1>4, <1>5 DEF ConsentInv

LEMMA MatchSound ==
    ASSUME ConsentInv, GamesBegun, NEW u \in Users, Pick(u) \/ Finish(u) \/ Exit(u) \/ LeaveResults(u)
    PROVE  ConsentInv'
  <1>1. playing[u] # Nothing
    BY DEF Pick, Finish, Exit, LeaveResults
  <1>2. playing[u] \in GameId
    BY <1>1, PlayingBegun
  <1>3. CASE Pick(u)
    <2>1. writes' \in [Users -> Seq(StateWrite)]
      BY <1>2, <1>3, QueueMoves DEF Pick
    <2> QED
      BY <1>3, <2>1, MatchScreenSound DEF Pick, screens
  <1>4. CASE Finish(u)
    <2>1. writes' \in [Users -> Seq(StateWrite)]
      BY <1>2, <1>4, QueueMoves DEF Finish
    <2> QED
      BY <1>4, <2>1, MatchScreenSound DEF Finish
  <1>5. CASE Exit(u)
    <2>1. writes' \in [Users -> Seq(StateWrite)]
      BY <1>2, <1>5, QueueMoves DEF Exit
    <2> QED
      BY <1>5, <2>1, MatchScreenSound DEF Exit, GoHome
  <1>6. CASE LeaveResults(u)
    <2>1. UNCHANGED <<requests, games, pushes, writes, alert, banners, chains, records>>
      BY <1>6 DEF LeaveResults, store
    <2>2. loading' = loading \/ loading' = [loading EXCEPT ![u] = removeGameListener(loading[u])]
      BY <1>6 DEF LeaveResults
    <2>3. playing' = [playing EXCEPT ![u] = Nothing] /\ hidden' = [hidden EXCEPT ![u] = {}]
      BY <1>6 DEF LeaveResults, GoHome
    <2>4. writes' \in [Users -> Seq(StateWrite)]
      BY <2>1 DEF ConsentInv, TypeOK
    <2> QED
      BY <2>1, <2>2, <2>3, <2>4, MatchScreenSound
  <1> QED
    BY <1>3, <1>4, <1>5, <1>6

LEMMA ScreenSound ==
    ASSUME ConsentInv, NEW u \in Users, DismissAlert(u) \/ ReloadTable(u)
    PROVE  ConsentInv'
  <1>1. /\ alert' = [alert EXCEPT ![u] = FALSE] \/ UNCHANGED alert
        /\ hidden' = [hidden EXCEPT ![u] = {}] \/ UNCHANGED hidden
        /\ UNCHANGED <<store, loading, playing, banners, chains, records>>
    BY DEF DismissAlert, ReloadTable
  <1>2. alert' \in [Users -> BOOLEAN] /\ hidden' \in [Users -> SUBSET Users]
    BY <1>1 DEF ConsentInv, TypeOK
  <1>3. TypeOK'
    BY <1>1, <1>2 DEF ConsentInv, TypeOK, store, chains, records
  <1>4. NumberedApart' /\ Consent' /\ HeldByInvited' /\ ChainsKnow'
    BY <1>1, StoreKept, GamesKept, HeldKept DEF store, chains, records, ConsentInv, ChainsKnow
  <1> QED
    BY <1>3, <1>4 DEF ConsentInv

LEMMA KillSound ==
    ASSUME ConsentInv, NEW u \in Users, Kill(u)
    PROVE  ConsentInv'
  <1>1. /\ hidden' = [hidden EXCEPT ![u] = {}] /\ loading' = [loading EXCEPT ![u] = NoLoading]
        /\ alert' = [alert EXCEPT ![u] = FALSE] /\ playing' = [playing EXCEPT ![u] = Nothing]
        /\ banners' = [banners EXCEPT ![u] = << >>]
        /\ asking' = [asking EXCEPT ![u] = {}] /\ accepting' = [accepting EXCEPT ![u] = {}]
        /\ UNCHANGED <<store, records>>
    BY DEF Kill
  <1>2. NoLoading \in Loading
    BY DEF NoLoading, Loading, Nothing
  <1>3. loading' \in [Users -> Loading]
    BY <1>1, <1>2, LoadingMoves
  <1>4. /\ hidden' \in [Users -> SUBSET Users] /\ alert' \in [Users -> BOOLEAN]
        /\ playing' \in [Users -> GameId \cup {Nothing}]
        /\ asking' \in [Users -> SUBSET Asking] /\ accepting' \in [Users -> SUBSET Accepting]
    BY <1>1 DEF ConsentInv, TypeOK
  <1>5. banners' \in [Users -> Seq(GameRequest)]
    BY <1>1 DEF ConsentInv, TypeOK
  <1>6. TypeOK'
    BY <1>1, <1>3, <1>4, <1>5 DEF ConsentInv, TypeOK, store, records
  <1>7. /\ \A v \in Users : banners'[v] = << >> \/ banners'[v] = banners[v]
        /\ \A v \in Users : accepting'[v] \subseteq accepting[v] /\ asking'[v] \subseteq asking[v]
    BY <1>1 DEF ConsentInv, TypeOK
  <1>8. \A v \in Users : Invited(v)' = Invited(v)
    BY <1>1 DEF Invited, records
  <1>9. HeldByInvited'
    <2>1. \A v \in Users : << >> \in Seq(Invited(v))
      OBVIOUS
    <2> QED
      BY <1>7, <1>8, <2>1 DEF ConsentInv, HeldByInvited
  <1>10. ChainsKnow'
    BY <1>7 DEF ConsentInv, ChainsKnow
  <1>11. NumberedApart' /\ Consent'
    BY <1>1, StoreKept, GamesKept DEF store, records
  <1> QED
    BY <1>6, <1>9, <1>10, <1>11 DEF ConsentInv

-----------------------------------------------------------------------------
(***************************************************************************)
(* Games that were created.                                                *)
(***************************************************************************)
\* Writes of games that were created.
OnBegun(ws) == \A i \in DOMAIN ws : ws[i].game \in GameId /\ games[ws[i].game].state # "none"

LEMMA WritesOnBegun ==
    ASSUME ConsentInv, GamesBegun, NEW u \in Users
    PROVE  OnBegun(writes[u])
  <1>1. writes[u] \in Seq(StateWrite) /\ \A i \in DOMAIN writes[u] : games[writes[u][i].game].state # "none"
    BY DEF ConsentInv, TypeOK, GamesBegun
  <1>2. ASSUME NEW i \in DOMAIN writes[u] PROVE writes[u][i].game \in GameId
    <2>1. writes[u][i] \in StateWrite
      BY <1>1, ElementOfSeq
    <2> QED
      BY <2>1 DEF StateWrite
  <1> QED
    BY <1>1, <1>2 DEF OnBegun

LEMMA QueueOnBegun ==
    ASSUME ConsentInv, GamesBegun, NEW u \in Users, NEW g \in GameId, games[g].state # "none",
           NEW s, NEW n \in Nat, Queue(u, StateWrites(g, s, n))
    PROVE  \A v \in Users : OnBegun(writes'[v])
  <1> DEFINE ws == StateWrites(g, s, n)
             W == [game : GameId, state : {s}]
             os == writes[u]
  <1>1. ws \in Seq(W) /\ \A i \in DOMAIN ws : ws[i].game = g
    BY DEF StateWrites
  <1>2. os \in Seq(StateWrite) /\ OnBegun(os)
    BY WritesOnBegun DEF ConsentInv, TypeOK
  <1>3. writes' = [writes EXCEPT ![u] = os \o ws]
    BY DEF Queue
  <1> HIDE DEF ws, W, os
  <1>4. os \in Seq(StateWrite \cup W) /\ ws \in Seq(StateWrite \cup W)
    BY <1>1, <1>2
  <1>5. ASSUME NEW i \in DOMAIN (os \o ws) PROVE (\E j \in DOMAIN os : (os \o ws)[i] = os[j])
                                               \/ (\E j \in DOMAIN ws : (os \o ws)[i] = ws[j])
    BY <1>4
  <1>6. OnBegun(os \o ws)
    BY <1>1, <1>2, <1>5 DEF OnBegun
  <1>7. ASSUME NEW v \in Users PROVE OnBegun(writes'[v])
    <2>1. writes \in [Users -> Seq(StateWrite)] /\ OnBegun(writes[v])
      BY WritesOnBegun DEF ConsentInv, TypeOK
    <2>2. writes'[v] = IF v = u THEN os \o ws ELSE writes[v]
      BY <1>3, <2>1
    <2> QED
      BY <1>6, <2>1, <2>2
  <1> QED
    BY <1>7

LEMMA RestOnBegun ==
    ASSUME ConsentInv, GamesBegun, NEW u \in Users, writes[u] # << >>,
           writes' = [writes EXCEPT ![u] = Tail(writes[u])]
    PROVE  \A v \in Users : OnBegun(writes'[v])
  <1> DEFINE os == writes[u]
  <1>1. os \in Seq(StateWrite) /\ os # << >> /\ OnBegun(os)
    BY WritesOnBegun DEF ConsentInv, TypeOK
  <1> HIDE DEF os
  <1>2. ASSUME NEW i \in DOMAIN Tail(os) PROVE i + 1 \in DOMAIN os /\ Tail(os)[i] = os[i + 1]
    BY <1>1
  <1>3. OnBegun(Tail(os))
    BY <1>1, <1>2 DEF OnBegun
  <1>4. ASSUME NEW v \in Users PROVE OnBegun(writes'[v])
    <2>1. writes \in [Users -> Seq(StateWrite)] /\ OnBegun(writes[v])
      BY WritesOnBegun DEF ConsentInv, TypeOK
    <2>2. writes'[v] = IF v = u THEN Tail(os) ELSE writes[v]
      BY <2>1 DEF os
    <2> QED
      BY <1>3, <2>1, <2>2
  <1> QED
    BY <1>4

\* A set of positions has a last one: the one closest to the end.
LEMMA LastOf ==
    ASSUME NEW n \in Nat, NEW I, I \subseteq 1..n, I # {}
    PROVE  \E i \in I : \A j \in I : j <= i
  <1> DEFINE R == {ss \in Nat \X Nat : ss[1] < ss[2]}
             T == {k \in Nat : k <= n /\ n - k \in I}
  <1>1. IsWellFoundedOn(R, Nat)
    BY NatLessThanWellFounded DEF OpToRel
  <1>2. T \subseteq Nat
    OBVIOUS
  <1>3. PICK e \in I : TRUE
    OBVIOUS
  <1>4. e \in Nat /\ e <= n /\ n - e \in Nat /\ n - (n - e) = e /\ n - e <= n
    BY <1>3
  <1>5. T # {}
    BY <1>3, <1>4
  <1> HIDE DEF R, T
  <1>6. \E x \in T : \A y \in T : ~(<<y, x>> \in R)
    BY <1>1, <1>2, <1>5, WFMin
  <1>7. PICK k \in T : \A y \in T : ~(<<y, k>> \in R)
    BY <1>6
  <1>8. k \in Nat /\ k <= n /\ n - k \in I
    BY <1>7 DEF T
  <1>9. ASSUME NEW j \in I PROVE j <= n - k
    <2>1. j \in Nat /\ j <= n /\ n - j \in Nat /\ n - (n - j) = j /\ n - j <= n
      BY <1>9
    <2>2. n - j \in T
      BY <2>1, <1>9 DEF T
    <2>3. ~(n - j < k)
      <3>1. ~(<<n - j, k>> \in R)
        BY <2>2, <1>7
      <3> QED
        BY <3>1, <2>1, <1>8 DEF R
    <2> QED
      BY <2>1, <2>3, <1>8
  <1> QED
    BY <1>8, <1>9

\* What a device sees as starting it has not written.
LEMMA SeenBegun ==
    ASSUME ConsentInv, GamesBegun, NEW u \in Users, NEW g \in GameId, SeenState(u, g) = "starting"
    PROVE  games[g].state = "starting"
  <1> DEFINE own == {i \in DOMAIN writes[u] : writes[u][i].game = g}
             last == CHOOSE i \in own : \A j \in own : j <= i
  <1>1. writes[u] \in Seq(StateWrite)
    BY DEF ConsentInv, TypeOK
  <1>2. CASE own = {}
    BY <1>2 DEF SeenState
  <1>3. CASE own # {}
    <2>1. SeenState(u, g) = writes[u][last].state
      BY <1>3 DEF SeenState
    <2>2. \E i \in own : \A j \in own : j <= i
      <3>1. own \subseteq 1..Len(writes[u]) /\ Len(writes[u]) \in Nat
        BY <1>1
      <3> HIDE DEF own
      <3> QED
        BY <1>3, <3>1, LastOf
    <2>3. last \in own
      BY <2>2
    <2> HIDE DEF last
    <2>4. writes[u][last] \in StateWrite
      BY <1>1, <2>3, ElementOfSeq
    <2>5. writes[u][last].state # "starting"
      BY <2>4 DEF StateWrite
    <2> QED
      BY <2>1, <2>5
  <1> QED
    BY <1>2, <1>3

\* A game once created is never "none" again; what is entered was created.
LEMMA BegunMoves ==
    ASSUME GamesBegun, TypeOK,
           \A g \in GameId : games[g].state # "none" => games'[g].state # "none",
           \A u \in Users : OnBegun(writes'[u]),
           \A u \in Users : \/ playing'[u] \in {playing[u], Nothing}
                            \/ games'[playing'[u]].state # "none",
           \A u \in Users : \A c \in accepting'[u] :
               \/ c \in accepting[u] /\ (c.step = "created" => c.game \in GameId)
               \/ c.step = "created" => games'[c.game].state # "none"
    PROVE  GamesBegun'
  <1>1. ASSUME NEW u \in Users, playing'[u] # Nothing PROVE games'[playing'[u]].state # "none"
    BY <1>1 DEF GamesBegun, TypeOK
  <1>2. ASSUME NEW u \in Users, NEW c \in accepting'[u], c.step = "created"
        PROVE  games'[c.game].state # "none"
    BY <1>2 DEF GamesBegun
  <1>3. ASSUME NEW u \in Users, NEW i \in DOMAIN writes'[u] PROVE games'[writes'[u][i].game].state # "none"
    BY DEF OnBegun
  <1> QED
    BY <1>1, <1>2, <1>3 DEF GamesBegun

\* The steps of Accept and of the listener, which create and enter games.
LEMMA BegunByChains ==
    ASSUME ConsentInv, GamesBegun, NEW u \in Users, NEW c \in accepting[u],
           LookedUp(u, c) \/ GameCreated(u, c) \/ EnterCreated(u, c) \/ AcceptFails(u, c)
    PROVE  GamesBegun'
  <1>1. TypeOK /\ ChainsKnow /\ accepting \in [Users -> SUBSET Accepting] /\ playing \in [Users -> GameId \cup {Nothing}]
        /\ games \in [GameId -> GameDoc]
    BY DEF ConsentInv, TypeOK
  <1>2. \A v \in Users : \A e \in accepting[v] : e.step = "created" => e.game \in GameId
    BY <1>1 DEF ChainsKnow
  <1>0. \A v \in Users : OnBegun(writes'[v])
    <2>1. UNCHANGED writes
      BY DEF LookedUp, GameCreated, EnterCreated, AcceptFails, store
    <2> QED
      BY <2>1, WritesOnBegun
  <1>3. CASE LookedUp(u, c)
    <2>1. UNCHANGED <<games, playing>>
      BY <1>3 DEF LookedUp, store, screens
    <2>2. \A v \in Users : \A e \in accepting'[v] : e \in accepting[v] \/ e = [c EXCEPT !.step = "create"]
      BY <1>1, <1>3 DEF LookedUp, Accepted
    <2>3. [c EXCEPT !.step = "create"].step # "created"
      BY <1>1 DEF Accepting
    <2>4. \A v \in Users : \A e \in accepting'[v] : e \in accepting[v] \/ e.step # "created"
      BY <2>2, <2>3
    <2> QED
      BY <1>0, <1>1, <1>2, <2>1, <2>4, BegunMoves
  <1>4. CASE GameCreated(u, c)
    <2>1. PICK g \in GameId :
              /\ games' = [games EXCEPT ![g] = NewGame(u, c.request)]
              /\ accepting' = [accepting EXCEPT ![u] = (@ \ {c}) \cup {[c EXCEPT !.step = "created", !.game = g]}]
      BY <1>4 DEF GameCreated, Accepted
    <2>2. UNCHANGED playing
      BY <1>4 DEF GameCreated, screens
    <2>3. games'[g].state = "starting" /\ \A h \in GameId : h # g => games'[h] = games[h]
      BY <1>1, <2>1 DEF NewGame
    <2>4. [c EXCEPT !.step = "created", !.game = g].game = g
      BY <1>1 DEF Accepting
    <2>5. \A v \in Users : \A e \in accepting'[v] : e \in accepting[v] \/ e.game = g
      BY <1>1, <2>1, <2>4
    <2>6. \A h \in GameId : games[h].state # "none" => games'[h].state # "none"
      BY <2>3
    <2>7. \A v \in Users : \A e \in accepting'[v] :
              \/ e \in accepting[v] /\ (e.step = "created" => e.game \in GameId)
              \/ e.step = "created" => games'[e.game].state # "none"
      BY <1>2, <2>3, <2>5
    <2> QED
      BY <1>0, <1>1, <2>2, <2>6, <2>7, BegunMoves
  <1>5. CASE EnterCreated(u, c)
    <2>1. UNCHANGED games /\ c.step = "created"
      BY <1>5 DEF EnterCreated
    <2>2. \A v \in Users : playing'[v] \in {playing[v], c.game}
      BY <1>1, <1>5 DEF EnterCreated, Enter
    <2>3. \A v \in Users : accepting'[v] \subseteq accepting[v]
      BY <1>1, <1>5 DEF EnterCreated, Accepted
    <2>4. games'[c.game].state # "none"
      BY <2>1 DEF GamesBegun
    <2>5. \A v \in Users : playing'[v] \in {playing[v], Nothing} \/ games'[playing'[v]].state # "none"
      BY <2>2, <2>4
    <2> QED
      BY <1>0, <1>1, <1>2, <2>1, <2>3, <2>5, BegunMoves
  <1>6. CASE AcceptFails(u, c)
    <2>1. UNCHANGED <<games, playing>>
      BY <1>6 DEF AcceptFails, screens
    <2>2. \A v \in Users : accepting'[v] \subseteq accepting[v]
      BY <1>1, <1>6 DEF AcceptFails, Accepted
    <2> QED
      BY <1>0, <1>1, <1>2, <2>1, <2>2, BegunMoves
  <1> QED
    BY <1>3, <1>4, <1>5, <1>6

\* A step that creates, enters or writes nothing.
LEMMA BegunKept ==
    ASSUME ConsentInv, GamesBegun, UNCHANGED <<games, playing, accepting, writes>>
    PROVE  GamesBegun'
  BY DEF GamesBegun

\* The oldest write of a device is applied or refused.
LEMMA BegunByCommits ==
    ASSUME ConsentInv, GamesBegun, NEW u \in Users, Committed(u) \/ WriteRefused(u)
    PROVE  GamesBegun'
  <1> DEFINE w == Head(writes[u])
  <1>1. /\ writes[u] # << >> /\ writes' = [writes EXCEPT ![u] = Tail(writes[u])]
        /\ UNCHANGED <<playing, accepting>>
        /\ UNCHANGED games \/ games' = [games EXCEPT ![w.game].state = w.state]
    BY DEF Committed, WriteRefused, screens, chains
  <1>2. w \in StateWrite /\ games \in [GameId -> GameDoc]
    BY <1>1, OldestBegun DEF ConsentInv, TypeOK
  <1> HIDE DEF w
  <1>3. w.game \in GameId /\ w.state # "none"
    BY <1>2 DEF StateWrite
  <1>4. ASSUME NEW g \in GameId, games[g].state # "none" PROVE games'[g].state # "none"
    <2>1. CASE UNCHANGED games
      BY <1>4, <2>1
    <2>2. CASE games' = [games EXCEPT ![w.game].state = w.state]
      <3>1. games'[w.game].state = w.state /\ \A h \in GameId : h # w.game => games'[h] = games[h]
        BY <1>2, <1>3, <2>2 DEF GameDoc
      <3> QED
        BY <1>3, <1>4, <3>1
    <2> QED
      BY <1>1, <2>1, <2>2
  <1>5. \A v \in Users : OnBegun(writes'[v])
    BY <1>1, RestOnBegun
  <1>6. /\ \A v \in Users : playing'[v] \in {playing[v], Nothing}
        /\ \A v \in Users : \A e \in accepting'[v] : e \in accepting[v] /\ (e.step = "created" => e.game \in GameId)
    BY <1>1 DEF ConsentInv, ChainsKnow
  <1> QED
    BY <1>4, <1>5, <1>6, BegunMoves DEF ConsentInv

\* Nothing is created; a game that was is entered, left or written.
LEMMA BegunByMatch ==
    ASSUME ConsentInv, GamesBegun, NEW u \in Users, UNCHANGED <<games, accepting>>,
           \A v \in Users : OnBegun(writes'[v]),
           \A v \in Users : playing'[v] \in {playing[v], Nothing} \/ games[playing'[v]].state # "none"
    PROVE  GamesBegun'
  <1>1. \A v \in Users : \A e \in accepting'[v] : e \in accepting[v] /\ (e.step = "created" => e.game \in GameId)
    BY DEF ConsentInv, ChainsKnow
  <1>2. \A g \in GameId : games[g].state # "none" => games'[g].state # "none"
    OBVIOUS
  <1> QED
    BY <1>1, <1>2, BegunMoves DEF ConsentInv

LEMMA BegunByScreens ==
    ASSUME ConsentInv, GamesBegun, NEW u \in Users,
           \/ GameFound(u) \/ Accept(u) \/ Kill(u)
           \/ Pick(u) \/ Finish(u) \/ Exit(u) \/ LeaveResults(u)
    PROVE  GamesBegun'
  <1>1. /\ TypeOK /\ ChainsKnow /\ accepting \in [Users -> SUBSET Accepting]
        /\ playing \in [Users -> GameId \cup {Nothing}] /\ loading[u] \in Loading
    BY DEF ConsentInv, TypeOK
  <1>2. \A v \in Users : \A e \in accepting[v] : e.step = "created" => e.game \in GameId
    BY <1>1 DEF ChainsKnow
  <1>3. \A v \in Users : OnBegun(writes[v])
    BY WritesOnBegun
  <1>4. CASE GameFound(u)
    <2>1. PICK g \in GameId :
              /\ FirstStarting(u, g) /\ Enter(u, g)
              /\ Queue(u, StateWrites(g, "inprogress", Cardinality(Called(loading[u]))))
      BY <1>4 DEF GameFound
    <2>2. UNCHANGED <<games, accepting>>
      BY <1>4 DEF GameFound, chains
    <2>3. games[g].state # "none"
      <3>1. SeenState(u, g) = "starting"
        BY <2>1 DEF FirstStarting, Starting
      <3> QED
        BY <3>1, SeenBegun
    <2>4. \A v \in Users : playing'[v] \in {playing[v], g}
      BY <1>1, <2>1 DEF Enter
    <2>5. \A v \in Users : OnBegun(writes'[v])
      BY <1>1, <2>1, <2>3, CalledCount, QueueOnBegun
    <2> QED
      BY <2>2, <2>3, <2>4, <2>5, BegunByMatch
  <1>5. CASE Accept(u)
    <2>1. UNCHANGED <<games, playing, writes>>
      BY <1>5 DEF Accept, store, screens
    <2>2. PICK n \in Tap : accepting' = [accepting EXCEPT ![u] = @ \cup
              {[tap |-> n, request |-> Head(banners[u]), step |-> "lookup", game |-> Nothing]}]
      BY <1>5 DEF Accept
    <2>3. \A v \in Users : \A e \in accepting'[v] : e \in accepting[v] \/ e.step = "lookup"
      BY <1>1, <2>2
    <2> QED
      BY <1>1, <1>2, <1>3, <2>1, <2>3, BegunMoves
  <1>6. CASE Kill(u)
    <2>1. UNCHANGED <<games, writes>>
      BY <1>6 DEF Kill, store
    <2>2. \A v \in Users : accepting'[v] \subseteq accepting[v] /\ playing'[v] \in {playing[v], Nothing}
      BY <1>1, <1>6 DEF Kill
    <2> QED
      BY <1>1, <1>2, <1>3, <2>1, <2>2, BegunMoves
  <1>7. CASE Pick(u) \/ Finish(u) \/ Exit(u)
    <2>1. playing[u] \in GameId /\ games[playing[u]].state # "none"
      BY <1>7, PlayingBegun DEF Pick, Finish, Exit
    <2>2. UNCHANGED <<games, accepting>>
      BY <1>7 DEF Pick, Finish, Exit, chains
    <2>3. \A v \in Users : OnBegun(writes'[v])
      BY <1>7, <2>1, QueueOnBegun DEF Pick, Finish, Exit
    <2>4. \A v \in Users : playing'[v] \in {playing[v], Nothing}
      BY <1>1, <1>7 DEF Pick, Finish, Exit, GoHome, screens
    <2> QED
      BY <2>2, <2>3, <2>4, BegunByMatch
  <1>8. CASE LeaveResults(u)
    <2>1. UNCHANGED <<games, accepting, writes>>
      BY <1>8 DEF LeaveResults, store, chains
    <2>2. \A v \in Users : playing'[v] \in {playing[v], Nothing}
      BY <1>1, <1>8 DEF LeaveResults, GoHome
    <2> QED
      BY <1>3, <2>1, <2>2, BegunByMatch
  <1> QED
    BY <1>4, <1>5, <1>6, <1>7, <1>8

-----------------------------------------------------------------------------
(***************************************************************************)
(* The taps on Accept.                                                     *)
(***************************************************************************)
\* Chains of u end, or go on with their taps.
LEMMA TapsMove ==
    ASSUME ConsentInv, TapsApart, NEW u \in Users, NEW c \in accepting[u], NEW d, d.tap = c.tap,
           NEW D \in {{}, {d}}, accepting' = [accepting EXCEPT ![u] = (@ \ {c}) \cup D]
    PROVE  TapsApart'
  <1>1. accepting \in [Users -> SUBSET Accepting]
    BY DEF ConsentInv, TypeOK
  <1>2. accepting'[u] = (accepting[u] \ {c}) \cup D /\ \A v \in Users : v # u => accepting'[v] = accepting[v]
    BY <1>1
  <1>3. \A e \in accepting'[u] : e = d \/ (e \in accepting[u] /\ e # c)
    BY <1>2
  <1> QED
    BY <1>2, <1>3 DEF TapsApart

LEMMA TapsWane ==
    ASSUME TapsApart, \A v \in Users : accepting'[v] \subseteq accepting[v]
    PROVE  TapsApart'
  BY DEF TapsApart

\* A tap takes a number that no chain under way has.
LEMMA TapsSound ==
    ASSUME ConsentInv, TapsApart, [Next]_vars
    PROVE  TapsApart'
  <1>1. accepting \in [Users -> SUBSET Accepting]
    BY DEF ConsentInv, TypeOK
  <1>2. ASSUME UNCHANGED accepting PROVE TapsApart'
    BY <1>2 DEF TapsApart
  <1>3. ASSUME NEW u \in Users, Accept(u) PROVE TapsApart'
    <2>1. PICK n \in Tap :
              /\ NextTap(u, n)
              /\ accepting' = [accepting EXCEPT ![u] = @ \cup
                     {[tap |-> n, request |-> Head(banners[u]), step |-> "lookup", game |-> Nothing]}]
      BY <1>3 DEF Accept
    <2> DEFINE d == [tap |-> n, request |-> Head(banners[u]), step |-> "lookup", game |-> Nothing]
    <2>2. d.tap = n /\ \A c \in accepting[u] : c.tap # n
      BY <2>1 DEF NextTap
    <2>3. accepting'[u] = accepting[u] \cup {d} /\ \A v \in Users : v # u => accepting'[v] = accepting[v]
      BY <1>1, <2>1
    <2> HIDE DEF d
    <2> QED
      BY <2>2, <2>3 DEF TapsApart
  <1>4. ASSUME NEW u \in Users, NEW c \in accepting[u], LookedUp(u, c) PROVE TapsApart'
    <2> DEFINE d == [c EXCEPT !.step = "create"]
    <2>1. d.tap = c.tap
      BY <1>1 DEF Accepting
    <2>2. PICK D \in {{}, {d}} : accepting' = [accepting EXCEPT ![u] = (@ \ {c}) \cup D]
      BY <1>4 DEF LookedUp, Accepted
    <2> HIDE DEF d
    <2> QED
      BY <2>1, <2>2, TapsMove
  <1>5. ASSUME NEW u \in Users, NEW c \in accepting[u], GameCreated(u, c) PROVE TapsApart'
    <2>1. PICK g \in GameId :
              accepting' = [accepting EXCEPT ![u] = (@ \ {c}) \cup {[c EXCEPT !.step = "created", !.game = g]}]
      BY <1>5 DEF GameCreated, Accepted
    <2> DEFINE d == [c EXCEPT !.step = "created", !.game = g]
    <2>2. d.tap = c.tap
      BY <1>1 DEF Accepting
    <2>3. accepting' = [accepting EXCEPT ![u] = (@ \ {c}) \cup {d}]
      BY <2>1
    <2> HIDE DEF d
    <2>4. {d} \in {{}, {d}}
      OBVIOUS
    <2> QED
      BY <2>2, <2>3, <2>4, TapsMove
  <1>6. ASSUME NEW u \in Users, NEW c \in accepting[u], EnterCreated(u, c) \/ AcceptFails(u, c) PROVE TapsApart'
    <2>1. accepting' = [accepting EXCEPT ![u] = accepting[u] \ {c}]
      BY <1>6 DEF EnterCreated, AcceptFails, Accepted
    <2>2. \A v \in Users : accepting'[v] \subseteq accepting[v]
      BY <1>1, <2>1
    <2> QED
      BY <2>2, TapsWane
  <1>7. ASSUME NEW u \in Users, Kill(u) PROVE TapsApart'
    <2>1. \A v \in Users : accepting'[v] \subseteq accepting[v]
      BY <1>1, <1>7 DEF Kill
    <2> QED
      BY <2>1, TapsWane
  <1>8. ASSUME NEW u \in Users, User(u) PROVE TapsApart'
    BY <1>2, <1>3, <1>7, <1>8
       DEF User, Ask, Swipe, DismissAlert, Pick, Finish, Exit, LeaveResults, chains
  <1>9. ASSUME NEW u \in Users, AskStep(u) PROVE TapsApart'
    BY <1>2, <1>9 DEF AskStep, ExistingChecked, OngoingChecked, RequestStored, ShowLoading
  <1>10. ASSUME NEW u \in Users, Fail(u) PROVE TapsApart'
    BY <1>2, <1>6, <1>10 DEF Fail, AskFails
  <1>11. ASSUME NEW u \in Users, GameFound(u) \/ ReloadTable(u) \/ Committed(u) \/ WriteRefused(u) PROVE TapsApart'
    BY <1>2, <1>11 DEF GameFound, ReloadTable, Committed, WriteRefused, chains
  <1>12. ASSUME NEW u \in Users, NEW v \in RequestId, Close(u, v) \/ AcceptStep(u, v) PROVE TapsApart'
    BY <1>2, <1>4, <1>5, <1>6, <1>12 DEF Close, AcceptStep, chains
  <1>13. ASSUME NEW r \in pushes, Push(r) \/ PushUnseen(r) PROVE TapsApart'
    BY <1>2, <1>13 DEF Push, PushUnseen, chains
  <1>14. CASE UNCHANGED vars
    BY <1>2, <1>14 DEF vars, chains
  <1> QED
    BY <1>8, <1>9, <1>10, <1>11, <1>12, <1>13, <1>14 DEF Next

-----------------------------------------------------------------------------
(***************************************************************************)
(* The theorems.                                                           *)
(***************************************************************************)
LEMMA InitSound == Init => InviteInv
  <1> SUFFICES ASSUME Init PROVE InviteInv
    OBVIOUS
  <1>1. NoGame \in GameDoc /\ NoGame.state = "none"
    BY UsersAssumption DEF NoGame, GameDoc, Nothing
  <1>2. NoLoading \in Loading
    BY DEF NoLoading, Loading, Nothing
  <1>3. 0 \in 0..MaxAsks
    BY LimitsAssumption
  <1>4. \A S : << >> \in Seq(S)
    OBVIOUS
  <1>5. TypeOK
    <2>1. banners \in [Users -> Seq(GameRequest)]
      BY <1>4 DEF Init
    <2>2. loading \in [Users -> Loading] /\ games \in [GameId -> GameDoc] /\ asks \in 0..MaxAsks
      BY <1>1, <1>2, <1>3 DEF Init
    <2>3. writes \in [Users -> Seq(StateWrite)]
      BY <1>4 DEF Init
    <2> QED
      BY <2>1, <2>2, <2>3 DEF Init, TypeOK
  <1>6. NumberedApart
    BY FS_EmptySet DEF Init, NumberedApart
  <1>7. HeldByInvited /\ ChainsKnow
    BY <1>4 DEF Init, HeldByInvited, ChainsKnow
  <1>8. Consent /\ GamesBegun /\ TapsApart
    BY <1>1 DEF Init, Consent, GamesBegun, TapsApart
  <1> QED
    BY <1>5, <1>6, <1>7, <1>8 DEF InviteInv, ConsentInv

\* Every step of every user, service and timer keeps the invariant.
LEMMA NextSound == InviteInv /\ [Next]_vars => InviteInv'
  <1> SUFFICES ASSUME ConsentInv, GamesBegun, TapsApart, [Next]_vars PROVE ConsentInv' /\ GamesBegun'
    BY TapsSound DEF InviteInv
  <1>1. CASE UNCHANGED vars
    <2>1. UNCHANGED <<requests, games, pushes, writes, hidden, loading, alert, playing, banners,
                      asking, accepting, asked, asks, entered, through>>
      BY <1>1 DEF vars, store, screens, chains, records
    <2>2. TypeOK' /\ ChainsKnow'
      BY <2>1 DEF ConsentInv, TypeOK, ChainsKnow
    <2> QED
      BY <2>1, <2>2, StoreKept, GamesKept, HeldKept, BegunKept DEF ConsentInv
  <1>2. ASSUME NEW u \in Users, User(u) PROVE ConsentInv' /\ GamesBegun'
    <2>1. CASE \E o \in Users \ {u} : Ask(u, o)
      BY <2>1, AskSound, BegunKept DEF Ask, store
    <2>2. CASE Swipe(u)
      BY <2>2, SwipeSound, BegunKept DEF Swipe, store, chains
    <2>3. CASE Accept(u)
      BY <2>3, AcceptSound, BegunByScreens
    <2>4. CASE DismissAlert(u)
      BY <2>4, ScreenSound, BegunKept DEF DismissAlert, store, chains
    <2>5. CASE Pick(u) \/ Finish(u) \/ Exit(u) \/ LeaveResults(u)
      BY <2>5, MatchSound, BegunByScreens
    <2>6. CASE Kill(u)
      BY <2>6, KillSound, BegunByScreens
    <2> QED
      BY <1>2, <2>1, <2>2, <2>3, <2>4, <2>5, <2>6 DEF User
  <1>3. ASSUME NEW u \in Users, AskStep(u) \/ Fail(u) PROVE ConsentInv' /\ GamesBegun'
    <2>1. ASSUME NEW c \in asking[u], ExistingChecked(u, c) \/ OngoingChecked(u, c) \/ AskFails(u, c)
          PROVE  ConsentInv' /\ GamesBegun'
      <3>1. UNCHANGED <<games, playing, accepting, writes>>
        BY <2>1 DEF ExistingChecked, OngoingChecked, AskFails, store, screens
      <3> QED
        BY <2>1, <3>1, ExistingCheckedSound, OngoingCheckedSound, AskFailsSound, BegunKept
    <2>2. ASSUME NEW c \in asking[u], RequestStored(u, c) \/ ShowLoading(u, c)
          PROVE  ConsentInv' /\ GamesBegun'
      <3>1. UNCHANGED <<games, playing, accepting, writes>>
        BY <2>2 DEF RequestStored, ShowLoading, store, screens
      <3> QED
        BY <2>2, <3>1, RequestStoredSound, ShowLoadingSound, BegunKept
    <2>3. ASSUME NEW c \in accepting[u], AcceptFails(u, c) PROVE ConsentInv' /\ GamesBegun'
      BY <2>3, AcceptFailsSound, BegunByChains
    <2> QED
      BY <1>3, <2>1, <2>2, <2>3 DEF AskStep, Fail
  <1>4. ASSUME NEW u \in Users, GameFound(u) \/ ReloadTable(u) \/ Committed(u) \/ WriteRefused(u)
        PROVE  ConsentInv' /\ GamesBegun'
    <2>1. CASE GameFound(u)
      BY <2>1, GameFoundSound, BegunByScreens
    <2>2. CASE ReloadTable(u)
      BY <2>2, ScreenSound, BegunKept DEF ReloadTable, store, chains
    <2>3. CASE Committed(u) \/ WriteRefused(u)
      BY <2>3, CommittedSound, WriteRefusedSound, BegunByCommits
    <2> QED
      BY <1>4, <2>1, <2>2, <2>3
  <1>5. ASSUME NEW u \in Users, NEW v \in RequestId, Close(u, v) \/ AcceptStep(u, v)
        PROVE  ConsentInv' /\ GamesBegun'
    <2>1. CASE Close(u, v)
      BY <2>1, CloseSound, BegunKept DEF Close, chains
    <2>2. CASE AcceptStep(u, v)
      BY <2>2, LookedUpSound, GameCreatedSound, EnterCreatedSound, BegunByChains DEF AcceptStep
    <2> QED
      BY <1>5, <2>1, <2>2
  <1>6. ASSUME NEW r \in pushes, Push(r) \/ PushUnseen(r) PROVE ConsentInv' /\ GamesBegun'
    <2>1. UNCHANGED <<games, playing, accepting, writes>>
      BY <1>6 DEF Push, PushUnseen, screens, chains
    <2> QED
      BY <1>6, <2>1, PushSound, BegunKept
  <1> QED
    BY <1>1, <1>2, <1>3, <1>4, <1>5, <1>6 DEF Next

\* InviteInv holds through every interleaving of invitations, answers, withdrawals,
\* failing calls, lost notifications and terminations, for any number of users.
THEOREM InviteInvariance == Spec => []InviteInv
  <1> QED
    BY InitSound, NextSound, PTL DEF Spec

\* Every variable keeps its type.
THEOREM InviteTypeCorrect == Spec => []TypeOK
  <1>1. InviteInv => TypeOK
    BY DEF InviteInv, ConsentInv
  <1> QED
    BY <1>1, InviteInvariance, PTL

\* Whatever is tapped twice, withdrawn, lost or restarted, a game is only ever created
\* between a user who invited and the user he invited.
THEOREM MatchesAreConsented == Spec => []Consent
  <1>1. InviteInv => Consent
    BY DEF InviteInv, ConsentInv
  <1> QED
    BY <1>1, InviteInvariance, PTL

-----------------------------------------------------------------------------
(***************************************************************************)
(* Every step is one of Matchmaker, or none.                               *)
(***************************************************************************)
LEMMA AnswersAre ==
    ASSUME ConsentInv, NEW n, NEW r
    PROVE  [tap |-> n, request |-> r] \in Answers <=>
               \E u \in Users : \E c \in accepting[u] : c.tap = n /\ c.request = r /\ c.step = "create"
  <1> DEFINE a == [tap |-> n, request |-> r]
  <1>1. ASSUME NEW u \in Users, NEW c \in accepting[u]
        PROVE  c.tap \in Tap /\ c.request \in asked /\ c.request.to = u
    <2>1. c \in Accepting
      BY DEF ConsentInv, TypeOK
    <2> QED
      BY <2>1 DEF Accepting, ConsentInv, HeldByInvited, Invited
  <1>2. a.tap = n /\ a.request = r
    OBVIOUS
  <1>3. ASSUME a \in Answers
        PROVE  \E u \in Users : \E c \in accepting[u] : c.tap = n /\ c.request = r /\ c.step = "create"
    <2>1. r \in asked /\ \E c \in accepting[r.to] : c.tap = n /\ c.request = r /\ c.step = "create"
      BY <1>2, <1>3 DEF Answers
    <2>2. r.to \in Users
      BY <2>1 DEF ConsentInv, TypeOK, GameRequest
    <2> QED
      BY <2>1, <2>2
  <1>4. ASSUME NEW u \in Users, NEW c \in accepting[u], c.tap = n, c.request = r, c.step = "create"
        PROVE  a \in Answers
    <2>1. a \in [tap : Tap, request : asked] /\ a.request.to = u
      BY <1>1, <1>4
    <2> HIDE DEF a
    <2> QED
      BY <1>2, <1>4, <2>1 DEF Answers
  <1> QED
    BY <1>3, <1>4

\* A step that makes no offer, answer or match: invitations and answers may go.
LEMMA LapseMaps ==
    ASSUME ConsentInv, UNCHANGED <<asked, games>>, requests' \subseteq requests,
           \A u \in Users : \A c \in accepting'[u] : c \in accepting[u] \/ c.step # "create"
    PROVE  Contract!Next
  <1>1. ASSUME NEW a \in Answers' PROVE a \in Answers
    <2>1. a \in [tap : Tap, request : asked] /\ a.request.to \in Users
      BY DEF Answers, ConsentInv, TypeOK, GameRequest
    <2> QED
      BY <2>1 DEF Answers
  <1>2. Contract!Lapse
    BY <1>1 DEF Contract!Lapse
  <1> QED
    BY <1>2 DEF Contract!Next

LEMMA OfferMaps ==
    ASSUME ConsentInv, NEW u \in Users, NEW c \in asking[u], RequestStored(u, c)
    PROVE  Contract!Next
  <1> DEFINE n == Cardinality(asked)
             r == [id |-> n + 1, from |-> u, to |-> c.to]
  <1>1. /\ n < MaxRequests
        /\ requests' = requests \cup {r} /\ asked' = asked \cup {r}
        /\ UNCHANGED <<games, accepting>>
    BY DEF RequestStored
  <1>2. n \in Nat /\ n + 1 \in RequestId
    <2>1. n \in Nat
      BY FS_CardinalityType DEF ConsentInv, NumberedApart
    <2> QED
      BY <1>1, <2>1, LimitsAssumption DEF RequestId
  <1>3. c \in Asking /\ c.to # u
    BY DEF ConsentInv, TypeOK, ChainsKnow
  <1>4. r \in Contract!Invitation /\ r.from # r.to
    BY <1>2, <1>3 DEF Contract!Invitation, Asking
  <1>5. \A q \in asked : q.id # r.id
    <2>1. \A q \in asked : q.id <= n
      BY DEF ConsentInv, NumberedApart
    <2>2. ASSUME NEW q \in asked, q.id = r.id PROVE FALSE
      BY <1>2, <2>1, <2>2
    <2> QED
      BY <2>2
  <1> HIDE DEF n, r
  <1>6. Answers' = Answers
    <2>1. \A v \in Users : \A e \in accepting[v] : e.request \in asked
      BY DEF ConsentInv, HeldByInvited, Invited
    <2>2. r.to \in Users
      BY <1>4 DEF Contract!Invitation
    <2>3. ASSUME NEW a \in Answers' PROVE a \in Answers
      <3>1. a \in [tap : Tap, request : asked'] /\ a.request \in asked' /\ a.request.to \in Users
        BY <1>1, <2>2 DEF Answers, ConsentInv, TypeOK, GameRequest
      <3>2. PICK e \in accepting[a.request.to] : e.tap = a.tap /\ e.request = a.request /\ e.step = "create"
        BY <1>1 DEF Answers
      <3>3. a \in [tap : Tap, request : asked]
        BY <2>1, <3>1, <3>2
      <3> QED
        BY <3>2, <3>3 DEF Answers
    <2>4. ASSUME NEW a \in Answers PROVE a \in Answers'
      BY <1>1 DEF Answers
    <2> QED
      BY <2>3, <2>4
  <1>7. Contract!Offer(r)
    BY <1>1, <1>4, <1>5, <1>6 DEF Contract!Offer
  <1> QED
    BY <1>4, <1>7 DEF Contract!Next

LEMMA AnswerMaps ==
    ASSUME ConsentInv, NEW u \in Users, NEW c \in accepting[u], LookedUp(u, c)
    PROVE  Contract!Next
  <1> DEFINE d == [c EXCEPT !.step = "create"]
  <1>1. UNCHANGED <<asked, games, requests>> /\ c.step = "lookup"
    BY DEF LookedUp, store, records
  <1>2. c \in Accepting /\ c.tap \in Tap /\ accepting \in [Users -> SUBSET Accepting]
    BY DEF ConsentInv, TypeOK, Accepting
  <1>3. CASE c.request \notin requests
    <2>1. accepting' = [accepting EXCEPT ![u] = (@ \ {c}) \cup {}]
      BY <1>3 DEF LookedUp, Accepted
    <2>2. \A v \in Users : \A e \in accepting'[v] : e \in accepting[v]
      BY <1>2, <2>1
    <2> QED
      BY <1>1, <2>2, LapseMaps
  <1>4. CASE c.request \in requests
    <2>1. accepting' = [accepting EXCEPT ![u] = (@ \ {c}) \cup {d}]
      BY <1>4 DEF LookedUp, Accepted
    <2>2. d.tap = c.tap /\ d.request = c.request /\ d.step = "create"
      BY <1>2 DEF Accepting
    <2> HIDE DEF d
    <2>3. accepting'[u] = (accepting[u] \ {c}) \cup {d} /\ \A v \in Users : v # u => accepting'[v] = accepting[v]
      BY <1>2, <2>1
    <2>4. c.request \in asked /\ c.request.to = u
      BY DEF ConsentInv, HeldByInvited, Invited
    <2> DEFINE b == [tap |-> c.tap, request |-> c.request]
    <2>5. b \in [tap : Tap, request : asked] /\ b.tap = c.tap /\ b.request = c.request
      BY <1>2, <2>4
    <2> HIDE DEF b
    <2>6. ASSUME NEW a \in [tap : Tap, request : asked] PROVE a \in Answers' <=> a \in Answers \/ a = b
      <3>1. a.request.to \in Users /\ (a = b <=> a.tap = c.tap /\ a.request = c.request)
        BY <2>5 DEF ConsentInv, TypeOK, GameRequest, b
      <3>2. a \in Answers' <=> \E e \in accepting'[a.request.to] :
                                  e.tap = a.tap /\ e.request = a.request /\ e.step = "create"
        BY <1>1 DEF Answers
      <3>3. a \in Answers <=> \E e \in accepting[a.request.to] :
                                 e.tap = a.tap /\ e.request = a.request /\ e.step = "create"
        BY DEF Answers
      <3>4. ASSUME a \in Answers PROVE a \in Answers'
        <4>1. PICK e \in accepting[a.request.to] : e.tap = a.tap /\ e.request = a.request /\ e.step = "create"
          BY <3>3, <3>4
        <4>2. e # c
          BY <1>1, <4>1
        <4>3. e \in accepting'[a.request.to]
          BY <2>3, <3>1, <4>1, <4>2
        <4> QED
          BY <3>2, <4>1, <4>3
      <3>5. ASSUME a = b PROVE a \in Answers'
        BY <2>2, <2>3, <2>4, <3>1, <3>2, <3>5
      <3>6. ASSUME a \in Answers' PROVE a \in Answers \/ a = b
        <4>1. PICK e \in accepting'[a.request.to] : e.tap = a.tap /\ e.request = a.request /\ e.step = "create"
          BY <3>2, <3>6
        <4>2. e \in accepting[a.request.to] \/ e = d
          BY <2>3, <3>1, <4>1
        <4> QED
          BY <2>2, <3>1, <3>3, <4>1, <4>2
      <3> QED
        BY <3>4, <3>5, <3>6
    <2>7. Answers' = Answers \cup {b}
      <3>1. Answers \subseteq [tap : Tap, request : asked] /\ Answers' \subseteq [tap : Tap, request : asked]
        BY <1>1 DEF Answers
      <3> QED
        BY <2>5, <2>6, <3>1
    <2>8. Contract!Answer(c.tap, c.request)
      BY <1>1, <2>7 DEF Contract!Answer, b
    <2> QED
      BY <1>2, <1>4, <2>8 DEF Contract!Next
  <1> QED
    BY <1>3, <1>4

\* The tap's own answer is used up, and no other: two taps on Accept may make two games
\* of one invitation, one tap makes one.
LEMMA MatchMaps ==
    ASSUME ConsentInv, TapsApart, NEW u \in Users, NEW c \in accepting[u], GameCreated(u, c)
    PROVE  Contract!Next
  <1>1. PICK g \in GameId :
            /\ games[g].state = "none"
            /\ games' = [games EXCEPT ![g] = NewGame(u, c.request)]
            /\ accepting' = [accepting EXCEPT ![u] = (@ \ {c}) \cup {[c EXCEPT !.step = "created", !.game = g]}]
    BY DEF GameCreated, Accepted
  <1> DEFINE d == [c EXCEPT !.step = "created", !.game = g]
             b == [tap |-> c.tap, request |-> c.request]
  <1>2. UNCHANGED <<asked, requests>> /\ c.step = "create"
    BY DEF GameCreated, records
  <1>3. c \in Accepting /\ accepting \in [Users -> SUBSET Accepting]
    BY DEF ConsentInv, TypeOK
  <1>4. d.step = "created"
    BY <1>3 DEF Accepting
  <1>5. accepting'[u] = (accepting[u] \ {c}) \cup {d} /\ \A v \in Users : v # u => accepting'[v] = accepting[v]
    BY <1>1, <1>3
  <1>6. c.request \in asked /\ c.request.to = u
    BY DEF ConsentInv, HeldByInvited, Invited
  <1>7. b \in Answers /\ b.tap = c.tap /\ b.request = c.request
    BY <1>2, AnswersAre
  <1> HIDE DEF d
  <1>8. ASSUME NEW a \in [tap : Tap, request : asked] PROVE a \in Answers' <=> a \in Answers /\ a # b
    <2>1. a.request.to \in Users /\ (a = b <=> a.tap = c.tap /\ a.request = c.request)
      BY DEF ConsentInv, TypeOK, GameRequest
    <2> HIDE DEF b
    <2>2. a \in Answers' <=> \E e \in accepting'[a.request.to] :
                                e.tap = a.tap /\ e.request = a.request /\ e.step = "create"
      BY <1>2 DEF Answers
    <2>3. a \in Answers <=> \E e \in accepting[a.request.to] :
                               e.tap = a.tap /\ e.request = a.request /\ e.step = "create"
      BY DEF Answers
    <2>4. ASSUME a \in Answers' PROVE a \in Answers /\ a # b
      <3>1. PICK e \in accepting'[a.request.to] : e.tap = a.tap /\ e.request = a.request /\ e.step = "create"
        BY <2>2, <2>4
      <3>2. e \in accepting[a.request.to] /\ (a.request.to = u => e # c)
        BY <1>4, <1>5, <2>1, <3>1
      <3>3. a # b
        BY <1>6, <2>1, <3>1, <3>2 DEF TapsApart
      <3> QED
        BY <2>3, <3>1, <3>2, <3>3
    <2>5. ASSUME a \in Answers, a # b PROVE a \in Answers'
      <3>1. PICK e \in accepting[a.request.to] : e.tap = a.tap /\ e.request = a.request /\ e.step = "create"
        BY <2>3, <2>5
      <3>2. e # c
        BY <2>1, <2>5, <3>1
      <3>3. e \in accepting'[a.request.to]
        BY <1>5, <2>1, <3>1, <3>2
      <3> QED
        BY <2>2, <3>1, <3>3
    <2> QED
      BY <2>4, <2>5
  <1>9. Answers' = Answers \ {b}
    <2>1. Answers \subseteq [tap : Tap, request : asked] /\ Answers' \subseteq [tap : Tap, request : asked]
      BY <1>2 DEF Answers
    <2> HIDE DEF b
    <2> QED
      BY <1>8, <2>1
  <1>10. Contract!Match(g, b)
    BY <1>1, <1>2, <1>6, <1>7, <1>9 DEF Contract!Match, NewGame
  <1> QED
    BY <1>7, <1>10 DEF Contract!Next

LEMMA GoesMaps ==
    ASSUME ConsentInv, GamesBegun, NEW u \in Users, Committed(u)
    PROVE  Contract!Next
  <1> DEFINE w == Head(writes[u])
  <1>1. /\ writes[u] # << >> /\ games' = [games EXCEPT ![w.game].state = w.state]
        /\ UNCHANGED <<asked, requests, accepting>>
    BY DEF Committed, chains, records
  <1>2. w \in StateWrite /\ games[w.game].state # "none"
    BY <1>1, OldestBegun
  <1> HIDE DEF w
  <1>3. w.game \in GameId /\ w.state \in {"inprogress", "finished"}
    BY <1>2 DEF StateWrite
  <1>4. Answers' = Answers
    BY <1>1 DEF Answers
  <1>5. Contract!Goes(w.game, w.state)
    BY <1>1, <1>2, <1>4 DEF Contract!Goes
  <1> QED
    BY <1>3, <1>5 DEF Contract!Next

\* All other steps let invitations and answers go, at most.
LEMMA OthersMap ==
    ASSUME ConsentInv, [Next]_vars,
           \A u \in Users : /\ \A c \in asking[u] : ~RequestStored(u, c)
                            /\ \A c \in accepting[u] : ~LookedUp(u, c) /\ ~GameCreated(u, c)
                            /\ ~Committed(u)
    PROVE  Contract!Next
  <1>1. accepting \in [Users -> SUBSET Accepting] /\ ChainsKnow
    BY DEF ConsentInv, TypeOK
  <1>2. CASE UNCHANGED vars
    BY <1>2, LapseMaps DEF vars, store, screens, chains, records
  <1>3. ASSUME NEW u \in Users,
               \/ \E o \in Users : Ask(u, o)
               \/ Swipe(u) \/ DismissAlert(u) \/ ReloadTable(u)
        PROVE  Contract!Next
    BY <1>3, LapseMaps DEF Ask, Swipe, DismissAlert, ReloadTable, store, chains, records
  <1>4. ASSUME NEW u \in Users, Accept(u) PROVE Contract!Next
    <2>1. PICK n \in Tap : accepting' = [accepting EXCEPT ![u] = @ \cup
              {[tap |-> n, request |-> Head(banners[u]), step |-> "lookup", game |-> Nothing]}]
      BY <1>4 DEF Accept
    <2>2. \A v \in Users : \A e \in accepting'[v] : e \in accepting[v] \/ e.step = "lookup"
      BY <1>1, <2>1
    <2>3. UNCHANGED <<asked, games, requests>>
      BY <1>4 DEF Accept, store, records
    <2> QED
      BY <2>2, <2>3, LapseMaps
  <1>5. ASSUME NEW u \in Users, Kill(u) PROVE Contract!Next
    <2>1. \A v \in Users : accepting'[v] \subseteq accepting[v]
      BY <1>1, <1>5 DEF Kill
    <2>2. UNCHANGED <<asked, games, requests>>
      BY <1>5 DEF Kill, store, records
    <2> QED
      BY <2>1, <2>2, LapseMaps
  <1>6. ASSUME NEW u \in Users, NEW c \in asking[u],
               ExistingChecked(u, c) \/ OngoingChecked(u, c) \/ AskFails(u, c) \/ ShowLoading(u, c)
        PROVE  Contract!Next
    <2>1. UNCHANGED <<asked, games, requests, accepting>>
      BY <1>6 DEF ExistingChecked, OngoingChecked, AskFails, ShowLoading, store, records
    <2> QED
      BY <2>1, LapseMaps
  <1>7. ASSUME NEW u \in Users, NEW c \in accepting[u], EnterCreated(u, c) \/ AcceptFails(u, c)
        PROVE  Contract!Next
    <2>1. \A v \in Users : accepting'[v] \subseteq accepting[v]
      BY <1>1, <1>7 DEF EnterCreated, AcceptFails, Accepted
    <2>2. UNCHANGED <<asked, games>> /\ requests' \subseteq requests
      BY <1>7 DEF EnterCreated, AcceptFails, Deleted, Undeleted, records
    <2> QED
      BY <2>1, <2>2, LapseMaps
  <1>8. ASSUME NEW u \in Users, NEW v \in RequestId, Close(u, v) PROVE Contract!Next
    <2>1. UNCHANGED <<asked, games, accepting>> /\ requests' \subseteq requests
      BY <1>8 DEF Close, Undeleted, chains, records
    <2> QED
      BY <2>1, LapseMaps
  <1>9. ASSUME NEW r \in pushes, Push(r) \/ PushUnseen(r) PROVE Contract!Next
    BY <1>9, LapseMaps DEF Push, PushUnseen, chains, records
  <1>10. ASSUME NEW u \in Users, GameFound(u) \/ WriteRefused(u) PROVE Contract!Next
    BY <1>10, LapseMaps DEF GameFound, WriteRefused, chains, records
  <1>11. ASSUME NEW u \in Users, Pick(u) \/ Finish(u) \/ Exit(u) \/ LeaveResults(u) PROVE Contract!Next
    BY <1>11, LapseMaps DEF Pick, Finish, Exit, LeaveResults, store, chains, records
  <1>12. ASSUME NEW u \in Users, User(u) PROVE Contract!Next
    BY <1>3, <1>4, <1>5, <1>11, <1>12 DEF User
  <1>13. ASSUME NEW u \in Users, AskStep(u) \/ Fail(u) PROVE Contract!Next
    BY <1>6, <1>7, <1>13 DEF AskStep, Fail
  <1>14. ASSUME NEW u \in Users, NEW v \in RequestId, Close(u, v) \/ AcceptStep(u, v)
         PROVE  Contract!Next
    BY <1>7, <1>8, <1>14 DEF AcceptStep
  <1> QED
    BY <1>2, <1>3, <1>9, <1>10, <1>12, <1>13, <1>14 DEF Next

LEMMA InitMaps == Init => Contract!Init
  BY DEF Init, Contract!Init, Answers

\* A tap on Accept that found its invitation makes at most one game, between its two
\* users; nothing else makes a game, and one that was made keeps its players and is not
\* starting again, whatever is written late: GameInvitation implements Matchmaker.
THEOREM InvitationsKeepContract == Spec => MatchmakerSpec
  <1>1. ASSUME ConsentInv, GamesBegun, TapsApart, [Next]_vars PROVE Contract!Next
    BY <1>1, OfferMaps, AnswerMaps, MatchMaps, GoesMaps, OthersMap
  <1>2. InviteInv /\ [Next]_vars => [Contract!Next]_<<asked, requests, Answers, games>>
    BY <1>1 DEF InviteInv
  <1> QED
    BY <1>2, InitMaps, InviteInvariance, PTL DEF Spec, MatchmakerSpec, Contract!Spec
=============================================================================
