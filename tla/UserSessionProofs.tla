-------------------------- MODULE UserSessionProofs --------------------------
(***************************************************************************)
(* The invariants of UserSession, for every number of devices, accounts,   *)
(* taps and starts of the app.                                             *)
(*                                                                         *)
(* Every step is one of a single device, and nothing of the invariant      *)
(* relates two devices: Sound(d) is what it says of device d.              *)
(***************************************************************************)
EXTENDS UserSession, TLAPS

Ids == 1..MaxSignIns

\* The types of what device d has.
Typed(d) ==
    /\ \A n \in Ids : users[<<d, n>>] \in AtMostOne(UserDoc)
    /\ account[d] \in 0..MaxSignIns /\ accounts[d] \in 0..MaxSignIns
    /\ localUser[d] \in AtMostOne(UserDoc)
    /\ screen[d] \in {"closed", "splash", "welcome", "home"}
    /\ reading[d] \in BOOLEAN
    /\ signups[d] \subseteq Signup
    /\ saves[d] \in Seq(Save)
    /\ asking[d] \in BOOLEAN
    /\ taps[d] \in 0..MaxTaps /\ launches[d] \in 0..MaxLaunches /\ refused[d] \in BOOLEAN

Stages(d) ==
    /\ reading[d] => screen[d] = "splash" /\ account[d] # Nobody
    /\ signups[d] # {} => screen[d] \in {"welcome", "home"}
    /\ \A s \in signups[d] : s.step = "save" => account[d] # Nobody
    /\ \A u \in localUser[d] : screen[d] = "home" /\ u.account = account[d]

\* Whatever d has saved, or is saving, is of the account it is signed in to.
Owned(d) ==
    /\ \A n \in Ids : users[<<d, n>>] # NoUser => account[d] = n
    /\ \A n \in Ids : \A u \in users[<<d, n>>] : u.account = n
    /\ \A i \in DOMAIN saves[d] : saves[d][i].user.account = account[d]

\* The queue ends with the user the app works with.
Shown(d) ==
    IF saves[d] = << >> THEN ~refused[d] => \A u \in localUser[d] : users[<<d, u.account>>] = {u}
    ELSE LET last == saves[d][Len(saves[d])]
         IN  last.tap > 0 \/ \A u \in localUser[d] : last.user = u

Sound(d) == Typed(d) /\ Stages(d) /\ Owned(d) /\ Shown(d)

\* The variables are functions of the devices.
Maps ==
    /\ users = [u \in Uid |-> users[u]]
    /\ account = [d \in Devices |-> account[d]] /\ accounts = [d \in Devices |-> accounts[d]]
    /\ localUser = [d \in Devices |-> localUser[d]] /\ screen = [d \in Devices |-> screen[d]]
    /\ reading = [d \in Devices |-> reading[d]] /\ signups = [d \in Devices |-> signups[d]]
    /\ saves = [d \in Devices |-> saves[d]] /\ asking = [d \in Devices |-> asking[d]]
    /\ taps = [d \in Devices |-> taps[d]] /\ launches = [d \in Devices |-> launches[d]]
    /\ refused = [d \in Devices |-> refused[d]]

\* Device e has what it had.
Kept(e) ==
    /\ \A n \in Ids : users'[<<e, n>>] = users[<<e, n>>]
    /\ account'[e] = account[e] /\ accounts'[e] = accounts[e] /\ localUser'[e] = localUser[e]
    /\ screen'[e] = screen[e] /\ reading'[e] = reading[e] /\ signups'[e] = signups[e]
    /\ saves'[e] = saves[e] /\ asking'[e] = asking[e] /\ taps'[e] = taps[e] /\ launches'[e] = launches[e]
    /\ refused'[e] = refused[e]

-----------------------------------------------------------------------------
(***************************************************************************)
(* The invariant, device by device.                                        *)
(***************************************************************************)
LEMMA MapsTyped ==
    TypeOK <=> Maps /\ \A d \in Devices : Typed(d)
  <1>1. ASSUME TypeOK PROVE Maps /\ \A d \in Devices : Typed(d)
    BY <1>1 DEF TypeOK, Maps, Typed, Uid, Ids
  <1>2. ASSUME Maps, \A d \in Devices : Typed(d) PROVE TypeOK
    <2>1. users \in [Uid -> AtMostOne(UserDoc)]
      <3>1. \A u \in Uid : users[u] \in AtMostOne(UserDoc)
        BY <1>2 DEF Typed, Uid, Ids
      <3> QED
        BY <1>2, <3>1 DEF Maps
    <2> QED
      BY <1>2, <2>1 DEF TypeOK, Maps, Typed
  <1> QED
    BY <1>1, <1>2

\* Writes of an account are those that say so.
LEMMA SavedByNone ==
    ASSUME NEW d \in Devices, NEW n \in Ids
    PROVE  SavedBy(d, n) # {} <=> \E i \in DOMAIN saves[d] : saves[d][i].user.account = n
  BY DEF SavedBy

LEMMA DeviceByDevice ==
    SessionInv <=> Maps /\ \A d \in Devices : Sound(d)
  <1>1. ASSUME SessionInv, NEW d \in Devices PROVE Sound(d)
    <2>1. Typed(d)
      BY <1>1, MapsTyped DEF SessionInv
    <2>2. Stages(d)
      BY <1>1 DEF SessionInv, StagesSound, Stages
    <2>3. Owned(d)
      <3>1. ASSUME NEW i \in DOMAIN saves[d] PROVE saves[d][i].user.account = account[d]
        <4>1. saves[d][i].user.account \in Ids
          <5>1. saves[d][i] \in Save
            BY <2>1, <3>1 DEF Typed
          <5> QED
            BY <5>1 DEF Save, UserDoc, Ids
        <4> QED
          BY <1>1, <4>1, SavedByNone DEF SessionInv, NamesKept, Ids
      <3> QED
        BY <1>1, <3>1 DEF SessionInv, NamesKept, AccountsOwn, Owned, Ids
    <2>4. Shown(d)
      BY <1>1 DEF SessionInv, SavedAsShown, ShownIsLast, Shown
    <2> QED
      BY <2>1, <2>2, <2>3, <2>4 DEF Sound
  <1>2. ASSUME Maps, \A d \in Devices : Sound(d) PROVE SessionInv
    <2>1. TypeOK
      BY <1>2, MapsTyped DEF Sound
    <2>2. NamesKept
      <3> SUFFICES ASSUME NEW d \in Devices, NEW n \in Ids, users[<<d, n>>] # NoUser \/ SavedBy(d, n) # {}
                   PROVE  account[d] = n
        BY DEF NamesKept, Ids
      <3> QED
        BY <1>2, SavedByNone DEF Sound, Owned
    <2>3. StagesSound
      BY <1>2 DEF StagesSound, Sound, Stages
    <2>4. AccountsOwn
      BY <1>2 DEF AccountsOwn, Sound, Owned, Ids
    <2>5. SavedAsShown /\ ShownIsLast
      BY <1>2 DEF SavedAsShown, ShownIsLast, Sound, Shown
    <2> QED
      BY <2>1, <2>2, <2>3, <2>4, <2>5 DEF SessionInv
  <1> QED
    BY <1>1, <1>2, MapsTyped DEF SessionInv

AllSound == \A d \in Devices : Sound(d)

LEMMA AllTogether ==
    SessionInv <=> Maps /\ AllSound
  BY DeviceByDevice DEF AllSound

\* A device that keeps what it has stays sound.
LEMMA KeptSound ==
    ASSUME NEW e \in Devices, Sound(e), Kept(e)
    PROVE  Sound(e)'
  <1>1. Typed(e)' /\ Stages(e)'
    BY DEF Sound, Typed, Stages, Kept
  <1>2. Owned(e)'
    BY DEF Sound, Owned, Kept
  <1>3. Shown(e)'
    <2>1. ASSUME NEW u \in localUser[e] PROVE users'[<<e, u.account>>] = users[<<e, u.account>>]
      <3>1. u.account \in Ids
        BY DEF Sound, Typed, AtMostOne, UserDoc, Ids
      <3> QED
        BY <3>1 DEF Kept
    <2> QED
      BY <2>1 DEF Sound, Shown, Kept
  <1> QED
    BY <1>1, <1>2, <1>3 DEF Sound

\* The user a device has is of one of its accounts.
LEMMA UserTyped ==
    ASSUME NEW d \in Devices, Typed(d), NEW u \in localUser[d]
    PROVE  u \in UserDoc /\ u.account \in Ids
  BY DEF Typed, AtMostOne, UserDoc, Ids

\* What a device reads of its account: its last write, or the document.
LEMMA ReadSound ==
    ASSUME NEW d \in Devices, Sound(d), account[d] # Nobody
    PROVE  /\ \A u \in Read(d, account[d]) : u \in UserDoc /\ u.account = account[d]
           /\ Read(d, account[d]) = NoUser => saves[d] = << >> /\ users[<<d, account[d]>>] = NoUser
  <1> DEFINE n == account[d]
             last == Len(saves[d])
  <1>1. n \in Ids /\ saves[d] \in Seq(Save) /\ users[<<d, n>>] \in AtMostOne(UserDoc)
    BY DEF Sound, Typed, Ids, Nobody
  <1>2. SavedBy(d, n) = DOMAIN saves[d]
    BY DEF Sound, Owned, SavedBy
  <1>3. CASE saves[d] = << >>
    <2>1. Read(d, n) = users[<<d, n>>]
      BY <1>2, <1>3 DEF Read
    <2> QED
      BY <1>1, <1>3, <2>1 DEF Sound, Owned, AtMostOne
  <1>4. CASE saves[d] # << >>
    <2>1. last \in DOMAIN saves[d] /\ \A j \in DOMAIN saves[d] : j <= last
      BY <1>1, <1>4
    <2>2. PICK i \in DOMAIN saves[d] : Read(d, n) = {saves[d][i].user}
      BY <1>2, <2>1 DEF Read
    <2>3. saves[d][i] \in Save /\ saves[d][i].user.account = n
      BY <1>1, <2>2 DEF Sound, Owned
    <2> QED
      BY <2>2, <2>3 DEF Save, NoUser
  <1> QED
    BY <1>3, <1>4

-----------------------------------------------------------------------------
(***************************************************************************)
(* The steps of a device d.                                                *)
(***************************************************************************)
\* A step of d is one of d only.
Alone(d) == Maps' /\ \A e \in Devices : e # d => Kept(e)

LEMMA OneDevice ==
    ASSUME SessionInv, NEW d \in Devices, Alone(d), Sound(d)'
    PROVE  SessionInv'
  <1>1. ASSUME NEW e \in Devices PROVE Sound(e)'
    BY KeptSound, DeviceByDevice DEF Alone
  <1>2. Maps' /\ AllSound'
    BY <1>1 DEF Alone, AllSound
  <1> QED
    BY <1>2, AllTogether, PTL

LEMMA LaunchSound ==
    ASSUME SessionInv, NEW d \in Devices, Launch(d)
    PROVE  SessionInv'
  <1>1. Maps /\ Sound(d)
    BY DeviceByDevice
  <1>2. Alone(d)
    BY <1>1 DEF Launch, Alone, Maps, Kept
  <1>3. /\ launches'[d] = launches[d] + 1 /\ launches[d] < MaxLaunches
        /\ screen'[d] = IF account[d] = Nobody THEN "welcome" ELSE "splash"
        /\ reading'[d] = (account[d] # Nobody)
        /\ signups[d] = {} /\ localUser[d] = {}
    <2>1. screen[d] = "closed"
      BY DEF Launch
    <2> QED
      BY <1>1, <2>1 DEF Launch, Maps, Sound, Stages, Typed, AtMostOne
  <1>4. Typed(d)'
    <2>1. launches'[d] \in 0..MaxLaunches
      BY <1>1, <1>3, SessionAssumption DEF Sound, Typed
    <2>2. screen'[d] \in {"closed", "splash", "welcome", "home"} /\ reading'[d] \in BOOLEAN
      BY <1>3
    <2> QED
      BY <1>1, <2>1, <2>2 DEF Launch, Sound, Typed
  <1>5. Stages(d)'
    BY <1>1, <1>3 DEF Launch, Sound, Stages
  <1>6. Owned(d)' /\ Shown(d)'
    BY <1>1, <1>3 DEF Launch, Sound, Owned, Shown
  <1> QED
    BY <1>2, <1>4, <1>5, <1>6, OneDevice DEF Sound

\* Setting localUser to a user of the account keeps what is shown at the end of the queue.
LEMMA DidSetSound ==
    ASSUME NEW d \in Devices, Maps, Sound(d), NEW u \in UserDoc, NEW queue \in Seq(Save), DidSet(d, u, queue)
    PROVE  /\ localUser'[d] = {u} /\ localUser'[d] \in AtMostOne(UserDoc)
           /\ asking'[d] \in BOOLEAN
           /\ saves'[d] \in Seq(Save) /\ saves'[d] # << >>
           /\ saves'[d][Len(saves'[d])].user = u
           /\ \A i \in DOMAIN saves'[d] :
                  saves'[d][i].user = u \/ \E j \in DOMAIN queue : saves'[d][i] = queue[j]
           /\ localUser' = [e \in Devices |-> localUser'[e]] /\ asking' = [e \in Devices |-> asking'[e]]
           /\ saves' = [e \in Devices |-> saves'[e]]
           /\ \A e \in Devices : e # d =>
                  localUser'[e] = localUser[e] /\ asking'[e] = asking[e] /\ saves'[e] = saves[e]
  <1> DEFINE w == [user |-> u, tap |-> 0]
  <1>1. w \in Save
    BY SessionAssumption DEF Save
  <1>2. /\ localUser' = [localUser EXCEPT ![d] = {u}]
        /\ asking' = [asking EXCEPT ![d] = @ \/ ~u.deviceToken]
        /\ saves' = [saves EXCEPT ![d] = Append(queue, w)]
    BY DEF DidSet
  <1>3. localUser'[d] = {u} /\ saves'[d] = Append(queue, w) /\ asking'[d] = (asking[d] \/ ~u.deviceToken)
    BY <1>2 DEF Maps
  <1>4. w.user = u
    OBVIOUS
  <1> HIDE DEF w
  <1>5. /\ Append(queue, w) \in Seq(Save) /\ Len(Append(queue, w)) = Len(queue) + 1
        /\ Append(queue, w)[Len(queue) + 1] = w
        /\ \A i \in 1..Len(queue) : Append(queue, w)[i] = queue[i]
    BY <1>1
  <1>6. ASSUME NEW i \in DOMAIN saves'[d]
        PROVE  saves'[d][i].user = u \/ \E j \in DOMAIN queue : saves'[d][i] = queue[j]
    <2>1. i \in 1..(Len(queue) + 1) /\ DOMAIN queue = 1..Len(queue) /\ Len(queue) \in Nat
      BY <1>3, <1>5
    <2>2. CASE i = Len(queue) + 1
      BY <1>3, <1>4, <1>5, <2>2
    <2>3. CASE i # Len(queue) + 1
      <3>1. i \in 1..Len(queue)
        BY <2>1, <2>3
      <3> QED
        BY <1>3, <1>5, <2>1, <3>1
    <2> QED
      BY <2>2, <2>3
  <1>7. /\ saves'[d] \in Seq(Save) /\ saves'[d] # << >> /\ saves'[d][Len(saves'[d])].user = u
    BY <1>3, <1>4, <1>5
  <1>8. asking'[d] \in BOOLEAN
    BY <1>3
  <1>9. localUser'[d] \in AtMostOne(UserDoc)
    BY <1>3 DEF AtMostOne
  <1>10. /\ localUser' = [e \in Devices |-> localUser'[e]] /\ asking' = [e \in Devices |-> asking'[e]]
         /\ saves' = [e \in Devices |-> saves'[e]]
         /\ \A e \in Devices : e # d =>
                localUser'[e] = localUser[e] /\ asking'[e] = asking[e] /\ saves'[e] = saves[e]
    BY <1>2 DEF Maps
  <1> QED
    BY <1>3, <1>6, <1>7, <1>8, <1>9, <1>10

LEMMA UserFoundSound ==
    ASSUME SessionInv, NEW d \in Devices, UserFound(d)
    PROVE  SessionInv'
  <1>1. Maps /\ Sound(d) /\ Typed(d)
    BY DeviceByDevice DEF Sound
  <1>2. reading[d] /\ account[d] # Nobody
    BY <1>1 DEF UserFound, Sound, Stages
  <1>3. PICK u \in Read(d, account[d]) : DidSet(d, u, saves[d])
    BY DEF UserFound
  <1>4. u \in UserDoc /\ u.account = account[d] /\ saves[d] \in Seq(Save)
    BY <1>1, <1>2, <1>3, ReadSound DEF Typed
  <1>5. /\ reading' = [reading EXCEPT ![d] = FALSE] /\ screen' = [screen EXCEPT ![d] = "home"]
        /\ UNCHANGED <<users, refused, account, accounts, signups, taps, launches>>
    BY DEF UserFound
  <1>6. reading'[d] = FALSE /\ screen'[d] = "home"
    BY <1>1, <1>5 DEF Maps
  <1>7. Alone(d)
    <2>1. /\ localUser' = [e \in Devices |-> localUser'[e]] /\ asking' = [e \in Devices |-> asking'[e]]
          /\ saves' = [e \in Devices |-> saves'[e]]
          /\ \A e \in Devices : e # d =>
                 localUser'[e] = localUser[e] /\ asking'[e] = asking[e] /\ saves'[e] = saves[e]
      BY <1>1, <1>3, <1>4, DidSetSound
    <2>2. Maps'
      BY <1>1, <1>5, <2>1 DEF Maps
    <2>3. ASSUME NEW e \in Devices, e # d PROVE Kept(e)
      BY <1>1, <1>5, <2>1, <2>3 DEF Maps, Kept
    <2> QED
      BY <2>2, <2>3 DEF Alone
  <1>8. Typed(d)'
    BY <1>1, <1>3, <1>4, <1>5, <1>6, DidSetSound DEF Typed
  <1>9. Stages(d)'
    BY <1>1, <1>3, <1>4, <1>5, <1>6, DidSetSound DEF Stages, Sound
  <1>10. Owned(d)'
    BY <1>1, <1>3, <1>4, <1>5, DidSetSound DEF Owned, Sound
  <1>11. Shown(d)'
    BY <1>1, <1>3, <1>4, DidSetSound DEF Shown
  <1> QED
    BY <1>7, <1>8, <1>9, <1>10, <1>11, OneDevice DEF Sound

\* The account is given up only when nothing was, or is being, saved under it.
LEMMA UserMissingSound ==
    ASSUME SessionInv, NEW d \in Devices, UserMissing(d)
    PROVE  SessionInv'
  <1>1. Maps /\ Sound(d) /\ Typed(d)
    BY DeviceByDevice DEF Sound
  <1>2. reading[d] /\ account[d] # Nobody /\ screen[d] = "splash"
    BY <1>1 DEF UserMissing, Sound, Stages
  <1>3. saves[d] = << >> /\ users[<<d, account[d]>>] = NoUser
    BY <1>1, <1>2, ReadSound DEF UserMissing
  <1>4. /\ reading' = [reading EXCEPT ![d] = FALSE] /\ account' = [account EXCEPT ![d] = Nobody]
        /\ UNCHANGED <<users, refused, accounts, localUser, screen, signups, saves, asking, taps, launches>>
    BY DEF UserMissing
  <1>5. reading'[d] = FALSE /\ account'[d] = Nobody
    BY <1>1, <1>4 DEF Maps
  <1>6. signups[d] = {} /\ localUser[d] = {}
    BY <1>1, <1>2 DEF Sound, Stages, Typed, AtMostOne
  <1>7. Alone(d)
    BY <1>1, <1>4 DEF Alone, Maps, Kept
  <1>8. Typed(d)'
    <2>1. 0 \in 0..MaxSignIns
      BY SessionAssumption
    <2>2. account'[d] \in 0..MaxSignIns
      BY <1>5, <2>1 DEF Nobody
    <2>3. reading'[d] \in BOOLEAN
      BY <1>5
    <2> QED
      BY <1>1, <1>4, <2>2, <2>3 DEF Typed
  <1>9. Stages(d)'
    BY <1>4, <1>5, <1>6 DEF Stages
  <1>10. Owned(d)'
    <2>1. ASSUME NEW n \in Ids PROVE users[<<d, n>>] = NoUser
      BY <1>1, <1>3 DEF Sound, Owned
    <2>2. DOMAIN saves'[d] = {}
      BY <1>3, <1>4
    <2> QED
      BY <1>4, <2>1, <2>2 DEF Owned, NoUser
  <1>11. Shown(d)'
    BY <1>3, <1>4, <1>6 DEF Shown
  <1> QED
    BY <1>7, <1>8, <1>9, <1>10, <1>11, OneDevice DEF Sound

\* The steps of a sign-up change its chain, and the account when there is none.
LEMMA ContinueSound ==
    ASSUME SessionInv, NEW d \in Devices, NEW name \in Names, Continue(d, name)
    PROVE  SessionInv'
  <1> DEFINE s == [tap |-> taps[d] + 1, name |-> name, step |-> "check"]
  <1>1. Maps /\ Sound(d) /\ Typed(d)
    BY DeviceByDevice DEF Sound
  <1>2. /\ screen[d] = "welcome" /\ taps[d] < MaxTaps
        /\ taps' = [taps EXCEPT ![d] = @ + 1]
        /\ signups' = [signups EXCEPT ![d] = @ \cup {s}]
        /\ UNCHANGED <<users, refused, account, accounts, localUser, screen, reading, saves, asking, launches>>
    BY DEF Continue
  <1>3. taps'[d] = taps[d] + 1 /\ signups'[d] = signups[d] \cup {s}
    BY <1>1, <1>2 DEF Maps
  <1>4. taps[d] + 1 \in 1..MaxTaps /\ taps'[d] \in 0..MaxTaps
    BY <1>1, <1>2, <1>3, SessionAssumption DEF Typed
  <1>5. s \in Signup /\ s.step # "save"
    BY <1>4 DEF Signup
  <1> HIDE DEF s
  <1>6. Alone(d)
    BY <1>1, <1>2 DEF Alone, Maps, Kept
  <1>7. Typed(d)'
    BY <1>1, <1>2, <1>3, <1>4, <1>5 DEF Typed
  <1>8. Stages(d)'
    BY <1>1, <1>2, <1>3, <1>5 DEF Sound, Stages
  <1>9. Owned(d)' /\ Shown(d)'
    BY <1>1, <1>2 DEF Sound, Owned, Shown
  <1> QED
    BY <1>6, <1>7, <1>8, <1>9, OneDevice DEF Sound

LEMMA NameCheckedSound ==
    ASSUME SessionInv, NEW d \in Devices, NEW s \in signups[d], NameChecked(d, s)
    PROVE  SessionInv'
  <1> DEFINE t == [s EXCEPT !.step = "signIn"]
  <1>1. Maps /\ Sound(d) /\ Typed(d)
    BY DeviceByDevice DEF Sound
  <1>2. /\ signups' = [signups EXCEPT ![d] = (@ \ {s}) \cup IF Taken(d, s.name) THEN {} ELSE {t}]
        /\ UNCHANGED <<users, refused, account, accounts, localUser, screen, reading, saves, asking, taps, launches>>
    BY DEF NameChecked
  <1>3. t \in Signup /\ t.step # "save"
    BY <1>1 DEF Typed, Signup
  <1> HIDE DEF t
  <1>4. signups'[d] \subseteq signups[d] \cup {t}
    BY <1>1, <1>2 DEF Maps
  <1>5. Alone(d)
    BY <1>1, <1>2 DEF Alone, Maps, Kept
  <1>6. Typed(d)'
    BY <1>1, <1>2, <1>3, <1>4 DEF Typed
  <1>7. Stages(d)'
    BY <1>1, <1>2, <1>3, <1>4 DEF Sound, Stages
  <1>8. Owned(d)' /\ Shown(d)'
    BY <1>1, <1>2 DEF Sound, Owned, Shown
  <1> QED
    BY <1>5, <1>6, <1>7, <1>8, OneDevice DEF Sound

LEMMA SignupFailsSound ==
    ASSUME SessionInv, NEW d \in Devices, NEW s \in signups[d], SignupFails(d, s)
    PROVE  SessionInv'
  <1>1. Maps /\ Sound(d) /\ Typed(d)
    BY DeviceByDevice DEF Sound
  <1>2. /\ signups' = [signups EXCEPT ![d] = @ \ {s}]
        /\ UNCHANGED <<users, refused, account, accounts, localUser, screen, reading, saves, asking, taps, launches>>
    BY DEF SignupFails
  <1>3. signups'[d] \subseteq signups[d]
    BY <1>1, <1>2 DEF Maps
  <1>4. Alone(d)
    BY <1>1, <1>2 DEF Alone, Maps, Kept
  <1>5. Typed(d)'
    BY <1>1, <1>2, <1>3 DEF Typed
  <1>6. Stages(d)'
    BY <1>1, <1>2, <1>3 DEF Sound, Stages
  <1>7. Owned(d)' /\ Shown(d)'
    BY <1>1, <1>2 DEF Sound, Owned, Shown
  <1> QED
    BY <1>4, <1>5, <1>6, <1>7, OneDevice DEF Sound

\* A new account has no document and no writes: everything saved is of the account there is.
LEMMA SignedInSound ==
    ASSUME SessionInv, NEW d \in Devices, NEW s \in signups[d], SignedIn(d, s)
    PROVE  SessionInv'
  <1> DEFINE t == [s EXCEPT !.step = "save"]
  <1>1. Maps /\ Sound(d) /\ Typed(d)
    BY DeviceByDevice DEF Sound
  <1>2. /\ signups' = [signups EXCEPT ![d] = (@ \ {s}) \cup {t}]
        /\ UNCHANGED <<users, refused, localUser, screen, reading, saves, asking, taps, launches>>
    BY DEF SignedIn
  <1>3. t \in Signup
    BY <1>1 DEF Typed, Signup
  <1> HIDE DEF t
  <1>4. signups'[d] \subseteq signups[d] \cup {t}
    BY <1>1, <1>2 DEF Maps
  <1>5. screen[d] \in {"welcome", "home"} /\ ~reading[d]
    BY <1>1 DEF Sound, Stages, Typed
  <1>6. Alone(d)
    <2>1. CASE UNCHANGED <<account, accounts>>
      BY <1>1, <1>2, <2>1 DEF Alone, Maps, Kept
    <2>2. CASE /\ accounts' = [accounts EXCEPT ![d] = @ + 1]
               /\ account' = [account EXCEPT ![d] = accounts[d] + 1]
      BY <1>1, <1>2, <2>2 DEF Alone, Maps, Kept
    <2> QED
      BY <2>1, <2>2 DEF SignedIn
  <1>7. \/ account[d] # Nobody /\ account'[d] = account[d] /\ accounts'[d] = accounts[d]
        \/ /\ account[d] = Nobody /\ accounts[d] < MaxSignIns
           /\ account'[d] = accounts[d] + 1 /\ accounts'[d] = accounts[d] + 1
    BY <1>1 DEF SignedIn, Maps
  <1>8. account'[d] \in Ids /\ account'[d] # Nobody /\ accounts'[d] \in 0..MaxSignIns
    BY <1>1, <1>7, SessionAssumption DEF Typed, Ids, Nobody
  <1>9. CASE account[d] # Nobody
    <2>1. account'[d] = account[d]
      BY <1>7, <1>9
    <2>2. Typed(d)'
      BY <1>1, <1>2, <1>3, <1>4, <1>8, <2>1 DEF Typed
    <2>3. Stages(d)'
      BY <1>1, <1>2, <1>4, <1>5, <1>8, <2>1 DEF Sound, Stages
    <2>4. Owned(d)' /\ Shown(d)'
      BY <1>1, <1>2, <2>1 DEF Sound, Owned, Shown
    <2> QED
      BY <1>6, <2>2, <2>3, <2>4, OneDevice DEF Sound
  <1>10. CASE account[d] = Nobody
    <2>1. localUser[d] = {}
      <3>1. ASSUME NEW u \in localUser[d] PROVE FALSE
        BY <1>1, <1>10, <3>1, UserTyped DEF Sound, Stages, Ids, Nobody
      <3> QED
        BY <3>1
    <2>2. \A n \in Ids : users[<<d, n>>] = NoUser
      BY <1>1, <1>10 DEF Sound, Owned, Ids, Nobody
    <2>3. saves[d] = << >>
      <3>1. SUFFICES ASSUME saves[d] # << >> PROVE FALSE
        OBVIOUS
      <3>2. 1 \in DOMAIN saves[d] /\ saves[d][1] \in Save
        BY <1>1, <3>1 DEF Typed
      <3>3. saves[d][1].user.account \in Ids
        BY <3>2 DEF Save, UserDoc, Ids
      <3> QED
        BY <1>1, <1>10, <3>2, <3>3 DEF Sound, Owned, Ids, Nobody
    <2>4. Typed(d)'
      <3>1. account'[d] \in 0..MaxSignIns
        BY <1>8 DEF Ids
      <3> QED
        BY <1>1, <1>2, <1>3, <1>4, <1>8, <3>1 DEF Typed
    <2>5. Stages(d)'
      BY <1>2, <1>4, <1>5, <1>8, <2>1 DEF Stages
    <2>6. Owned(d)'
      <3>1. DOMAIN saves'[d] = {}
        BY <1>2, <2>3
      <3> QED
        BY <1>2, <2>2, <3>1 DEF Owned, NoUser
    <2>7. Shown(d)'
      BY <1>2, <2>1, <2>3 DEF Shown
    <2> QED
      BY <1>6, <2>4, <2>5, <2>6, <2>7, OneDevice DEF Sound
  <1> QED
    BY <1>9, <1>10

\* The user is saved with the tap to go on with.
LEMMA GuestSound ==
    ASSUME SessionInv, NEW d \in Devices, NEW s \in signups[d], Guest(d, s)
    PROVE  SessionInv'
  <1> DEFINE w == [user |-> NewUser(d, s), tap |-> s.tap]
  <1>1. Maps /\ Sound(d) /\ Typed(d)
    BY DeviceByDevice DEF Sound
  <1>2. /\ saves' = [saves EXCEPT ![d] = Append(saves[d], w)]
        /\ signups' = [signups EXCEPT ![d] = @ \ {s}]
        /\ UNCHANGED <<users, refused, account, accounts, localUser, screen, reading, asking, taps, launches>>
    BY DEF Guest, saveUser
  <1>3. s \in Signup /\ account[d] \in Ids
    BY <1>1 DEF Guest, Sound, Stages, Typed, Ids, Nobody
  <1>4. w \in Save /\ w.tap > 0 /\ w.user.account = account[d]
    <2>1. s.tap \in 1..MaxTaps /\ s.name \in Names
      BY <1>3 DEF Signup
    <2>2. NewUser(d, s) \in UserDoc /\ NewUser(d, s).account = account[d]
      BY <1>3, <2>1 DEF NewUser, UserDoc, Ids
    <2> QED
      BY <2>1, <2>2, SessionAssumption DEF Save
  <1> HIDE DEF w
  <1>5. saves'[d] = Append(saves[d], w) /\ signups'[d] = signups[d] \ {s} /\ saves[d] \in Seq(Save)
    BY <1>1, <1>2 DEF Maps, Typed
  <1>6. /\ saves'[d] \in Seq(Save) /\ saves'[d] # << >> /\ saves'[d][Len(saves'[d])] = w
        /\ DOMAIN saves'[d] = 1..(Len(saves[d]) + 1)
        /\ saves'[d][Len(saves[d]) + 1] = w
        /\ \A i \in 1..Len(saves[d]) : saves'[d][i] = saves[d][i]
    BY <1>4, <1>5
  <1>7. Alone(d)
    BY <1>1, <1>2 DEF Alone, Maps, Kept
  <1>8. Typed(d)'
    BY <1>1, <1>2, <1>5, <1>6 DEF Typed
  <1>9. Stages(d)'
    BY <1>1, <1>2, <1>5 DEF Sound, Stages
  <1>10. Owned(d)'
    <2>1. ASSUME NEW i \in DOMAIN saves'[d] PROVE saves'[d][i].user.account = account[d]
      <3>1. CASE i \in 1..Len(saves[d])
        BY <1>1, <1>5, <1>6, <3>1 DEF Sound, Owned
      <3>2. CASE i \notin 1..Len(saves[d])
        <4>1. i = Len(saves[d]) + 1
          BY <1>5, <1>6, <2>1, <3>2
        <4> QED
          BY <1>4, <1>6, <4>1
      <3> QED
        BY <3>1, <3>2
    <2> QED
      BY <1>1, <1>2, <2>1 DEF Sound, Owned
  <1>11. Shown(d)'
    BY <1>4, <1>6 DEF Shown
  <1> QED
    BY <1>7, <1>8, <1>9, <1>10, <1>11, OneDevice DEF Sound

\* The first write is stored or refused; what is left is still owned.
LEMMA SaveAnsweredSound ==
    ASSUME SessionInv, NEW d \in Devices, SaveAnswered(d)
    PROVE  SessionInv'
  <1> DEFINE w == Head(saves[d])
             rest == Tail(saves[d])
  <1>1. Maps /\ Sound(d) /\ Typed(d)
    BY DeviceByDevice DEF Sound
  <1>2. /\ saves[d] # << >> /\ Completed(d)
        /\ \/ /\ users' = [users EXCEPT ![<<d, w.user.account>>] = {w.user}]
              /\ refused' = [refused EXCEPT ![d] = FALSE]
           \/ UNCHANGED users /\ refused' = [refused EXCEPT ![d] = TRUE]
        /\ UNCHANGED <<account, accounts, reading, signups, taps, launches>>
    BY DEF SaveAnswered, Saved, SaveRefused
  <1>3. saves[d] \in Seq(Save) /\ Len(saves[d]) \in Nat /\ Len(saves[d]) > 0 /\ w = saves[d][1]
    BY <1>1, <1>2 DEF Typed
  <1>4. /\ w \in Save /\ rest \in Seq(Save) /\ Len(rest) = Len(saves[d]) - 1
        /\ \A i \in DOMAIN rest : rest[i] = saves[d][i + 1] /\ i + 1 \in DOMAIN saves[d]
        /\ rest # << >> => rest[Len(rest)] = saves[d][Len(saves[d])]
        /\ rest = << >> => w = saves[d][Len(saves[d])]
    <2>1. w \in Save /\ rest \in Seq(Save) /\ Len(rest) = Len(saves[d]) - 1
      BY <1>2, <1>3
    <2>2. ASSUME NEW i \in DOMAIN rest PROVE rest[i] = saves[d][i + 1] /\ i + 1 \in DOMAIN saves[d]
      BY <1>2, <1>3
    <2>3. rest # << >> => Len(rest) \in DOMAIN rest /\ Len(rest) + 1 = Len(saves[d])
      <3> HIDE DEF rest
      <3> QED
        BY <1>3, <2>1
    <2>4. rest = << >> => Len(saves[d]) = 1
      <3> HIDE DEF rest
      <3>1. rest = << >> => Len(rest) = 0
        OBVIOUS
      <3> QED
        BY <1>3, <2>1, <3>1
    <2> QED
      BY <1>3, <2>1, <2>2, <2>3, <2>4
  <1> HIDE DEF w, rest
  <1>5. w.user \in UserDoc /\ w.user.account = account[d] /\ account[d] \in Ids
    <2>1. w.user.account = account[d]
      BY <1>1, <1>3 DEF Sound, Owned
    <2> QED
      BY <1>4, <2>1 DEF Save, UserDoc, Ids
  <1>6. /\ \/ users'[<<d, account[d]>>] = {w.user}
           \/ users'[<<d, account[d]>>] = users[<<d, account[d]>>] /\ refused'[d]
        /\ \A n \in Ids : n # account[d] => users'[<<d, n>>] = users[<<d, n>>]
        /\ users' = [u \in Uid |-> users'[u]]
        /\ \A e \in Devices, n \in Ids : e # d => users'[<<e, n>>] = users[<<e, n>>]
        /\ refused' = [e \in Devices |-> refused'[e]] /\ refused'[d] \in BOOLEAN
        /\ \A e \in Devices : e # d => refused'[e] = refused[e]
    <2>1. CASE /\ users' = [users EXCEPT ![<<d, w.user.account>>] = {w.user}]
               /\ refused' = [refused EXCEPT ![d] = FALSE]
      BY <1>1, <1>5, <2>1 DEF Maps, Uid, Ids
    <2>2. CASE UNCHANGED users /\ refused' = [refused EXCEPT ![d] = TRUE]
      BY <1>1, <1>5, <2>2 DEF Maps, Uid, Ids
    <2> QED
      BY <1>2, <2>1, <2>2
  <1>7. \A i \in DOMAIN rest : rest[i].user.account = account[d]
    BY <1>1, <1>4 DEF Sound, Owned
  <1>8. \A n \in Ids : users'[<<d, n>>] \in AtMostOne(UserDoc)
    <2>1. {w.user} \in AtMostOne(UserDoc)
      BY <1>5 DEF AtMostOne
    <2> QED
      BY <1>1, <1>6, <2>1 DEF Typed
  <1>9. /\ \A n \in Ids : users'[<<d, n>>] # NoUser => account[d] = n
        /\ \A n \in Ids : \A u \in users'[<<d, n>>] : u.account = n
    BY <1>1, <1>5, <1>6 DEF Sound, Owned
  <1>10. CASE w.tap > 0 /\ screen[d] \in {"welcome", "home"}
    <2>1. DidSet(d, w.user, rest) /\ screen' = [screen EXCEPT ![d] = "home"]
      BY <1>2, <1>10 DEF Completed, w, rest
    <2>2. screen'[d] = "home"
      BY <1>1, <2>1 DEF Maps
    <2>3. Alone(d)
      <3>1. /\ localUser' = [e \in Devices |-> localUser'[e]] /\ asking' = [e \in Devices |-> asking'[e]]
            /\ saves' = [e \in Devices |-> saves'[e]]
            /\ \A e \in Devices : e # d =>
                   localUser'[e] = localUser[e] /\ asking'[e] = asking[e] /\ saves'[e] = saves[e]
        BY <1>1, <1>4, <1>5, <2>1, DidSetSound
      <3>2. Maps'
        BY <1>1, <1>2, <1>6, <2>1, <3>1 DEF Maps
      <3>3. ASSUME NEW e \in Devices, e # d PROVE Kept(e)
        BY <1>1, <1>2, <1>6, <2>1, <3>1, <3>3 DEF Maps, Kept
      <3> QED
        BY <3>2, <3>3 DEF Alone
    <2>4. /\ localUser'[d] = {w.user} /\ localUser'[d] \in AtMostOne(UserDoc) /\ asking'[d] \in BOOLEAN
          /\ saves'[d] \in Seq(Save) /\ saves'[d] # << >>
          /\ saves'[d][Len(saves'[d])].user = w.user
          /\ \A i \in DOMAIN saves'[d] :
                 saves'[d][i].user = w.user \/ \E j \in DOMAIN rest : saves'[d][i] = rest[j]
      BY <1>1, <1>4, <1>5, <2>1, DidSetSound
    <2>5. Typed(d)'
      BY <1>1, <1>2, <1>6, <1>8, <2>2, <2>4 DEF Typed
    <2>6. Stages(d)'
      <3>1. screen[d] # "splash" /\ signups'[d] = signups[d] /\ reading'[d] = reading[d] /\ account'[d] = account[d]
        BY <1>2, <1>10
      <3> QED
        BY <1>1, <1>5, <2>2, <2>4, <3>1 DEF Sound, Stages
    <2>7. Owned(d)'
      <3>1. account'[d] = account[d]
        BY <1>2
      <3>2. \A i \in DOMAIN saves'[d] : saves'[d][i].user.account = account[d]
        BY <1>5, <1>7, <2>4
      <3> QED
        BY <1>9, <3>1, <3>2 DEF Owned
    <2>8. Shown(d)'
      BY <2>4 DEF Shown
    <2> QED
      BY <2>3, <2>5, <2>6, <2>7, <2>8, OneDevice DEF Sound
  <1>11. CASE ~(w.tap > 0 /\ screen[d] \in {"welcome", "home"})
    <2>1. saves' = [saves EXCEPT ![d] = rest] /\ UNCHANGED <<localUser, asking, screen>>
      BY <1>2, <1>11 DEF Completed, w, rest
    <2>2. saves'[d] = rest
      BY <1>1, <2>1 DEF Maps
    <2>3. Alone(d)
      <3>1. UNCHANGED <<account, accounts, localUser, screen, reading, signups, asking, taps, launches>>
        BY <1>2, <2>1
      <3>2. Maps'
        BY <1>1, <1>6, <2>1, <3>1 DEF Maps
      <3>3. ASSUME NEW e \in Devices, e # d PROVE Kept(e)
        <4>1. saves'[e] = saves[e]
          BY <1>1, <2>1, <3>3 DEF Maps
        <4> QED
          BY <1>6, <3>1, <3>3, <4>1 DEF Kept
      <3> QED
        BY <3>2, <3>3 DEF Alone
    <2>4. Typed(d)'
      BY <1>1, <1>2, <1>4, <1>6, <1>8, <2>1, <2>2 DEF Typed
    <2>5. Stages(d)'
      BY <1>1, <1>2, <2>1 DEF Sound, Stages
    <2>6. Owned(d)'
      BY <1>2, <1>7, <1>9, <2>2 DEF Owned
    <2>7. Shown(d)'
      <3>1. CASE rest = << >>
        <4>1. ASSUME NEW u \in localUser[d] PROVE u = w.user
          <5>1. screen[d] = "home"
            BY <1>1, <4>1 DEF Sound, Stages
          <5>2. ~(w.tap > 0)
            BY <1>11, <5>1
          <5> QED
            BY <1>1, <1>2, <1>4, <3>1, <4>1, <5>2 DEF Sound, Shown
        <4> QED
          BY <1>5, <1>6, <2>1, <2>2, <3>1, <4>1 DEF Shown
      <3>2. CASE rest # << >>
        BY <1>1, <1>2, <1>4, <2>1, <2>2, <3>2 DEF Sound, Shown
      <3> QED
        BY <3>1, <3>2
    <2> QED
      BY <2>3, <2>4, <2>5, <2>6, <2>7, OneDevice DEF Sound
  <1> QED
    BY <1>10, <1>11

\* The token is set on the user there is, and both saves are of that user.
LEMMA TokenSound ==
    ASSUME SessionInv, NEW d \in Devices, TokenArrives(d)
    PROVE  SessionInv'
  <1>1. Maps /\ Sound(d) /\ Typed(d)
    BY DeviceByDevice DEF Sound
  <1>2. PICK u \in localUser[d] :
            LET t == [u EXCEPT !.deviceToken = TRUE]
            IN  /\ localUser' = [localUser EXCEPT ![d] = {t}]
                /\ saves' = [saves EXCEPT ![d] = @ \o <<[user |-> t, tap |-> 0], [user |-> t, tap |-> 0]>>]
    BY DEF TokenArrives
  <1> DEFINE t == [u EXCEPT !.deviceToken = TRUE]
             w == [user |-> t, tap |-> 0]
  <1>3. /\ asking' = [asking EXCEPT ![d] = FALSE]
        /\ UNCHANGED <<users, refused, account, accounts, screen, reading, signups, taps, launches>>
    BY DEF TokenArrives
  <1>4. u \in UserDoc /\ u.account = account[d] /\ screen[d] = "home"
    BY <1>1, <1>2, UserTyped DEF Sound, Stages
  <1>5. t \in UserDoc /\ t.account = account[d]
    BY <1>4 DEF UserDoc
  <1> HIDE DEF t
  <1>6. w \in Save /\ w.user = t
    BY <1>5, SessionAssumption DEF Save
  <1>7. /\ localUser' = [localUser EXCEPT ![d] = {t}]
        /\ saves' = [saves EXCEPT ![d] = saves[d] \o <<w, w>>]
    BY <1>2 DEF t
  <1> HIDE DEF w
  <1>8. /\ localUser'[d] = {t} /\ saves'[d] = saves[d] \o <<w, w>> /\ asking'[d] = FALSE
        /\ saves[d] \in Seq(Save)
    BY <1>1, <1>3, <1>7 DEF Maps, Typed
  <1>9. /\ saves'[d] \in Seq(Save) /\ Len(saves'[d]) = Len(saves[d]) + 2
        /\ saves'[d] # << >> /\ saves'[d][Len(saves'[d])] = w
    BY <1>6, <1>8
  <1>10. ASSUME NEW i \in DOMAIN saves'[d]
         PROVE  saves'[d][i].user.account = account[d]
    <2>1. i \in 1..(Len(saves[d]) + 2) /\ Len(saves[d]) \in Nat
      BY <1>8, <1>9
    <2>2. CASE i \in 1..Len(saves[d])
      <3>1. saves'[d][i] = saves[d][i]
        BY <1>6, <1>8, <2>2
      <3> QED
        BY <1>1, <2>2, <3>1, <1>8 DEF Sound, Owned
    <2>3. CASE i \notin 1..Len(saves[d])
      <3>1. i = Len(saves[d]) + 1 \/ i = Len(saves[d]) + 2
        BY <2>1, <2>3
      <3>2. saves'[d][i] = w
        BY <1>6, <1>8, <2>1, <3>1
      <3> QED
        BY <1>5, <1>6, <3>2
    <2> QED
      BY <2>2, <2>3
  <1>11. Alone(d)
    BY <1>1, <1>3, <1>7 DEF Alone, Maps, Kept
  <1>12. Typed(d)'
    <2>1. localUser'[d] \in AtMostOne(UserDoc) /\ asking'[d] \in BOOLEAN
      BY <1>5, <1>8 DEF AtMostOne
    <2> QED
      BY <1>1, <1>3, <1>9, <2>1 DEF Typed
  <1>13. Stages(d)'
    BY <1>1, <1>3, <1>4, <1>5, <1>8 DEF Sound, Stages
  <1>14. Owned(d)'
    BY <1>1, <1>3, <1>10 DEF Sound, Owned
  <1>15. Shown(d)'
    BY <1>6, <1>8, <1>9 DEF Shown
  <1> QED
    BY <1>11, <1>12, <1>13, <1>14, <1>15, OneDevice DEF Sound

\* A termination keeps the writes and forgets what they would go on with.
LEMMA KillSound ==
    ASSUME SessionInv, NEW d \in Devices, Kill(d)
    PROVE  SessionInv'
  <1>1. Maps /\ Sound(d) /\ Typed(d)
    BY DeviceByDevice DEF Sound
  <1>2. /\ screen' = [screen EXCEPT ![d] = "closed"] /\ localUser' = [localUser EXCEPT ![d] = NoUser]
        /\ reading' = [reading EXCEPT ![d] = FALSE] /\ signups' = [signups EXCEPT ![d] = {}]
        /\ asking' = [asking EXCEPT ![d] = FALSE]
        /\ saves' = [saves EXCEPT ![d] = [i \in DOMAIN saves[d] |-> [saves[d][i] EXCEPT !.tap = 0]]]
        /\ UNCHANGED <<users, refused, account, accounts, taps, launches>>
    BY DEF Kill
  <1>3. /\ screen'[d] = "closed" /\ localUser'[d] = {} /\ reading'[d] = FALSE /\ signups'[d] = {}
        /\ asking'[d] = FALSE
        /\ saves'[d] = [i \in DOMAIN saves[d] |-> [saves[d][i] EXCEPT !.tap = 0]]
    BY <1>1, <1>2 DEF Maps, NoUser
  <1>4. saves[d] \in Seq(Save) /\ DOMAIN saves[d] = 1..Len(saves[d]) /\ Len(saves[d]) \in Nat
    BY <1>1 DEF Typed
  <1>5. ASSUME NEW i \in DOMAIN saves[d]
        PROVE  /\ [saves[d][i] EXCEPT !.tap = 0] \in Save
               /\ [saves[d][i] EXCEPT !.tap = 0].user = saves[d][i].user
    <2>1. saves[d][i] \in Save /\ 0 \in 0..MaxTaps
      BY <1>4, SessionAssumption
    <2> QED
      BY <2>1 DEF Save
  <1>6. saves'[d] \in Seq(Save)
    <2>1. \A i \in 1..Len(saves[d]) : saves'[d][i] \in Save
      BY <1>3, <1>4, <1>5
    <2>2. saves'[d] \in [1..Len(saves[d]) -> Save]
      BY <1>3, <1>4, <2>1
    <2> QED
      BY <1>4, <2>2
  <1>7. \A i \in DOMAIN saves'[d] : saves'[d][i].user.account = account[d]
    BY <1>1, <1>3, <1>5 DEF Sound, Owned
  <1>8. Alone(d)
    BY <1>1, <1>2 DEF Alone, Maps, Kept
  <1>9. Typed(d)'
    BY <1>1, <1>2, <1>3, <1>6 DEF Typed, AtMostOne
  <1>10. Stages(d)'
    BY <1>3 DEF Stages
  <1>11. Owned(d)'
    BY <1>1, <1>2, <1>7 DEF Sound, Owned
  <1>12. Shown(d)'
    BY <1>3 DEF Shown
  <1> QED
    BY <1>8, <1>9, <1>10, <1>11, <1>12, OneDevice DEF Sound

-----------------------------------------------------------------------------
(***************************************************************************)
(* The theorems.                                                           *)
(***************************************************************************)
LEMMA InitSound == Init => SessionInv
  <1> SUFFICES ASSUME Init PROVE SessionInv
    OBVIOUS
  <1>1. Maps
    BY DEF Init, Maps
  <1>2. ASSUME NEW d \in Devices PROVE Sound(d)
    <2>1. /\ \A n \in Ids : users[<<d, n>>] = {}
          /\ account[d] = 0 /\ accounts[d] = 0 /\ localUser[d] = {} /\ screen[d] = "closed"
          /\ reading[d] = FALSE /\ signups[d] = {} /\ saves[d] = << >> /\ asking[d] = FALSE
          /\ taps[d] = 0 /\ launches[d] = 0 /\ refused[d] = FALSE
      BY DEF Init, Uid, Ids, Nobody, NoUser
    <2>2. Typed(d)
      <3>1. 0 \in 0..MaxSignIns /\ 0 \in 0..MaxTaps /\ 0 \in 0..MaxLaunches
        BY SessionAssumption
      <3>2. {} \in AtMostOne(UserDoc) /\ << >> \in Seq(Save)
        BY DEF AtMostOne
      <3>3. /\ \A n \in Ids : users[<<d, n>>] \in AtMostOne(UserDoc)
            /\ localUser[d] \in AtMostOne(UserDoc) /\ saves[d] \in Seq(Save)
        BY <2>1, <3>2
      <3> QED
        BY <2>1, <3>1, <3>3 DEF Typed
    <2> QED
      BY <2>1, <2>2 DEF Sound, Stages, Owned, Shown, NoUser
  <1> QED
    BY <1>1, <1>2, DeviceByDevice

\* No step of any device ends the invariant.
LEMMA NextSound == SessionInv /\ [Next]_vars => SessionInv'
  <1> SUFFICES ASSUME SessionInv, [Next]_vars PROVE SessionInv'
    OBVIOUS
  <1>1. CASE UNCHANGED vars
    BY <1>1 DEF vars, SessionInv, TypeOK, NamesKept, SavedBy, SavedAsShown, StagesSound, AccountsOwn, ShownIsLast
  <1>2. CASE Next
    <2>1. PICK d \in Devices :
             \/ Launch(d) \/ Answer(d) \/ SignupStep(d) \/ SaveAnswered(d) \/ TokenArrives(d) \/ Kill(d)
             \/ \E name \in Names : Continue(d, name)
             \/ \E s \in signups[d] : SignupFails(d, s)
      BY <1>2 DEF Next
    <2>2. CASE Answer(d)
      BY <2>2, UserFoundSound, UserMissingSound DEF Answer
    <2>3. CASE SignupStep(d)
      BY <2>3, NameCheckedSound, SignedInSound, GuestSound DEF SignupStep
    <2>4. CASE \E name \in Names : Continue(d, name)
      BY <2>4, ContinueSound
    <2>5. CASE \E s \in signups[d] : SignupFails(d, s)
      BY <2>5, SignupFailsSound
    <2>6. CASE Launch(d) \/ SaveAnswered(d) \/ TokenArrives(d) \/ Kill(d)
      BY <2>6, LaunchSound, SaveAnsweredSound, TokenSound, KillSound
    <2> QED
      BY <2>1, <2>2, <2>3, <2>4, <2>5, <2>6
  <1> QED
    BY <1>1, <1>2

\* SessionInv holds through every order of starts, taps, answers, refused writes, tokens
\* and terminations, on any number of devices.
THEOREM SessionInvariance == Spec => []SessionInv
  <1> QED
    BY InitSound, NextSound, PTL DEF Spec

\* Every variable of the session keeps its type.
THEOREM SessionTypeCorrect == Spec => []TypeOK
  <1>1. SessionInv => TypeOK
    BY DEF SessionInv
  <1> QED
    BY <1>1, SessionInvariance, PTL

\* Once its writes are through and the last was not refused, the stored user is the one
\* the app works with, whatever completions have set DataStore.localUser in between, and
\* whichever writes before it were refused.
THEOREM StoredUserIsShown == Spec => []SavedAsShown
  <1>1. SessionInv => SavedAsShown
    BY DEF SessionInv
  <1> QED
    BY <1>1, SessionInvariance, PTL

\* No start of the app gives up an account whose user is, or will be, stored.
THEOREM NamesStayUsable == Spec => []NamesKept
  <1>1. SessionInv => NamesKept
    BY DEF SessionInv
  <1> QED
    BY <1>1, SessionInvariance, PTL
=============================================================================
