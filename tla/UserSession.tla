----------------------------- MODULE UserSession -----------------------------
(***************************************************************************)
(* Who is playing: from the start of the app to its home screen            *)
(* (SplashViewController, WelcomeViewController, DataStore.localUser).     *)
(*                                                                         *)
(* A user is a document users/<uid>; uid is the anonymous account the      *)
(* device is signed in to.  Setting DataStore.localUser saves it, always.  *)
(***************************************************************************)
EXTENDS Naturals, Sequences, FiniteSets

CONSTANTS
    Devices,
    Names,        \* usernames, in lower case
    MaxSignIns,   \* bound: accounts of one device
    MaxTaps,      \* bound: taps on Continue of one device
    MaxLaunches   \* bound: starts of the app on one device

ASSUME SessionAssumption == MaxSignIns \in Nat /\ MaxTaps \in Nat /\ MaxLaunches \in Nat

Nobody == 0   \* no account, and no user
Uid == Devices \X (1..MaxSignIns)

\* Of a user: the account (of the device that has it), the name, and whether
\* there is a token that notifications can be sent to.
UserDoc == [account: 1..MaxSignIns, username: Names, deviceToken: BOOLEAN]
NoUser == {}   \* localUser and documents are sets of at most one user
AtMostOne(S) == {{}} \cup {{x} : x \in S}

\* onContinue: check the name, sign in, save the user, wait until it is saved.
Signup == [tap: 1..MaxTaps, name: Names, step: {"check", "signIn", "save"}]
\* saveUser, and the tap on Continue its completion goes on with, if any.
Save == [user: UserDoc, tap: 0..MaxTaps]

VARIABLES
    users,      \* users[uid]: the document users/<uid>
    account,    \* account[d]: the account d is signed in to, kept by the system
    accounts,   \* accounts[d]: how many accounts d has had
    localUser,  \* localUser[d]: DataStore.localUser
    screen,     \* screen[d]: what d shows
    reading,    \* reading[d]: does checkForUser wait for the document?
    signups,    \* signups[d]: chains of calls begun by Continue
    saves,      \* saves[d]: writes of d that have not reached the backend
    asking,     \* asking[d]: does setPushToken wait for a token?
    taps, launches,
    refused     \* history: refused[d]: was the last write of d that was answered refused?

vars == <<users, account, accounts, localUser, screen, reading, signups, saves, asking, taps, launches,
          refused>>

TypeOK ==
    /\ users \in [Uid -> AtMostOne(UserDoc)]
    /\ account \in [Devices -> 0..MaxSignIns]
    /\ accounts \in [Devices -> 0..MaxSignIns]
    /\ localUser \in [Devices -> AtMostOne(UserDoc)]
    /\ screen \in [Devices -> {"closed", "splash", "welcome", "home"}]
    /\ reading \in [Devices -> BOOLEAN]
    /\ signups \in [Devices -> SUBSET Signup]
    /\ saves \in [Devices -> Seq(Save)]
    /\ asking \in [Devices -> BOOLEAN]
    /\ taps \in [Devices -> 0..MaxTaps]
    /\ launches \in [Devices -> 0..MaxLaunches]
    /\ refused \in [Devices -> BOOLEAN]

Init ==
    /\ users = [u \in Uid |-> NoUser]
    /\ account = [d \in Devices |-> Nobody]
    /\ accounts = [d \in Devices |-> 0]
    /\ localUser = [d \in Devices |-> NoUser]
    /\ screen = [d \in Devices |-> "closed"]
    /\ reading = [d \in Devices |-> FALSE]
    /\ signups = [d \in Devices |-> {}]
    /\ saves = [d \in Devices |-> << >>]
    /\ asking = [d \in Devices |-> FALSE]
    /\ taps = [d \in Devices |-> 0]
    /\ launches = [d \in Devices |-> 0]
    /\ refused = [d \in Devices |-> FALSE]

-----------------------------------------------------------------------------
\* The document of account n as d reads it: its own writes come first.
SavedBy(d, n) == {i \in DOMAIN saves[d] : saves[d][i].user.account = n}
Read_Backend(d, n) == users[<<d, n>>]   \* mutant: getDocument asks the backend only
Read(d, n) ==
    IF SavedBy(d, n) = {} THEN users[<<d, n>>]
    ELSE {saves[d][CHOOSE i \in SavedBy(d, n) : \A j \in SavedBy(d, n) : j <= i].user}

\* checkForExistingUsername, as d is answered.
Taken(d, name) ==
    \E e \in Devices, n \in 1..MaxSignIns :
        \E u \in IF e = d THEN Read(d, n) ELSE users[<<e, n>>] : u.username = name

saveUser(d, u, tap) == Append(saves[d], [user |-> u, tap |-> tap])

\* localUser is set to u: didSet.
DidSet_Unsaved(d, u, queue) ==   \* mutant: didSet does not save
    /\ localUser' = [localUser EXCEPT ![d] = {u}]
    /\ asking' = [asking EXCEPT ![d] = @ \/ ~u.deviceToken]
    /\ saves' = [saves EXCEPT ![d] = queue]
DidSet_NoToken(d, u, queue) ==   \* mutant: a token is asked for once only
    /\ localUser' = [localUser EXCEPT ![d] = {u}]
    /\ asking' = [asking EXCEPT ![d] = @ \/ (~u.deviceToken /\ localUser[d] = NoUser)]
    /\ saves' = [saves EXCEPT ![d] = Append(queue, [user |-> u, tap |-> 0])]
DidSet(d, u, queue) ==
    /\ localUser' = [localUser EXCEPT ![d] = {u}]
    /\ asking' = [asking EXCEPT ![d] = @ \/ ~u.deviceToken]
    /\ saves' = [saves EXCEPT ![d] = Append(queue, [user |-> u, tap |-> 0])]

-----------------------------------------------------------------------------
\* SplashViewController.checkForUser.
Launch(d) ==
    /\ screen[d] = "closed"
    /\ launches[d] < MaxLaunches
    /\ launches' = [launches EXCEPT ![d] = @ + 1]
    /\ screen' = [screen EXCEPT ![d] = IF account[d] = Nobody THEN "welcome" ELSE "splash"]
    /\ reading' = [reading EXCEPT ![d] = account[d] # Nobody]
    /\ UNCHANGED <<users, refused, account, accounts, localUser, signups, saves, asking, taps>>

\* The completion of getUserWith: there is a user, or the account is given up.
UserFound(d) ==
    /\ reading[d]
    /\ \E u \in Read(d, account[d]) : DidSet(d, u, saves[d])
    /\ reading' = [reading EXCEPT ![d] = FALSE]
    /\ screen' = [screen EXCEPT ![d] = "home"]
    /\ UNCHANGED <<users, refused, account, accounts, signups, taps, launches>>

UserMissing(d) ==
    /\ reading[d]
    /\ Read(d, account[d]) = NoUser
    /\ reading' = [reading EXCEPT ![d] = FALSE]
    /\ account' = [account EXCEPT ![d] = Nobody]
    /\ UNCHANGED <<users, refused, accounts, localUser, screen, signups, saves, asking, taps, launches>>

\* WelcomeViewController.onContinue.
Continue(d, name) ==
    /\ screen[d] = "welcome"
    /\ taps[d] < MaxTaps
    /\ taps' = [taps EXCEPT ![d] = @ + 1]
    /\ signups' = [signups EXCEPT ![d] = @ \cup {[tap |-> taps[d] + 1, name |-> name, step |-> "check"]}]
    /\ UNCHANGED <<users, refused, account, accounts, localUser, screen, reading, saves, asking, launches>>

NameChecked(d, s) ==
    /\ s.step = "check"
    /\ signups' = [signups EXCEPT ![d] =
           (@ \ {s}) \cup IF Taken(d, s.name) THEN {} ELSE {[s EXCEPT !.step = "signIn"]}]
    /\ UNCHANGED <<users, refused, account, accounts, localUser, screen, reading, saves, asking, taps, launches>>

\* signInAnonymously: a device that is signed in keeps its account.
SignedIn(d, s) ==
    /\ s.step = "signIn"
    /\ \/ account[d] # Nobody /\ UNCHANGED <<account, accounts>>
       \/ /\ account[d] = Nobody /\ accounts[d] < MaxSignIns
          /\ accounts' = [accounts EXCEPT ![d] = @ + 1]
          /\ account' = [account EXCEPT ![d] = accounts[d] + 1]
    /\ signups' = [signups EXCEPT ![d] = (@ \ {s}) \cup {[s EXCEPT !.step = "save"]}]
    /\ UNCHANGED <<users, refused, localUser, screen, reading, saves, asking, taps, launches>>

\* createUser, saveUser.
NewUser_Misread(d, s) == [account |-> accounts[d] + 1, username |-> s.name, deviceToken |-> FALSE]   \* mutant
NewUser(d, s) == [account |-> account[d], username |-> s.name, deviceToken |-> FALSE]

Guest(d, s) ==
    /\ s.step = "save"
    /\ saves' = [saves EXCEPT ![d] = saveUser(d, NewUser(d, s), s.tap)]
    /\ signups' = [signups EXCEPT ![d] = @ \ {s}]
    /\ UNCHANGED <<users, refused, account, accounts, localUser, screen, reading, asking, taps, launches>>

\* A check that fails counts as a name in use, a sign-in that fails is passed over.
SignupFails(d, s) ==
    /\ s.step \in {"check", "signIn"}
    /\ signups' = [signups EXCEPT ![d] = @ \ {s}]
    /\ UNCHANGED <<users, refused, account, accounts, localUser, screen, reading, saves, asking, taps, launches>>

\* The oldest write of d is answered.  When it was the one of a tap on Continue, and the
\* app still runs, its completion sets localUser and opens Home, whatever the answer is:
\* onContinue ignores the error.
Completed(d) ==
    LET w == Head(saves[d])
    IN  IF w.tap > 0 /\ screen[d] \in {"welcome", "home"}
        THEN DidSet(d, w.user, Tail(saves[d])) /\ screen' = [screen EXCEPT ![d] = "home"]
        ELSE saves' = [saves EXCEPT ![d] = Tail(@)] /\ UNCHANGED <<localUser, asking, screen>>

Saved(d) ==
    /\ saves[d] # << >>
    /\ LET w == Head(saves[d])
       IN  users' = [users EXCEPT ![<<d, w.user.account>>] = {w.user}]
    /\ refused' = [refused EXCEPT ![d] = FALSE]
    /\ Completed(d)
    /\ UNCHANGED <<account, accounts, reading, signups, taps, launches>>

\* setData ends with an error: nothing is stored, and the device reads what there was.
SaveRefused(d) ==
    /\ saves[d] # << >>
    /\ refused' = [refused EXCEPT ![d] = TRUE]
    /\ Completed(d)
    /\ UNCHANGED <<users, account, accounts, reading, signups, taps, launches>>

\* setPushToken's completion, and messaging(didReceiveRegistrationToken:): the
\* token is set, which saves the user, and the user is saved again.
TokenArrives(d) ==
    /\ asking[d]
    /\ asking' = [asking EXCEPT ![d] = FALSE]
    /\ \E u \in localUser[d] :
           LET t == [u EXCEPT !.deviceToken = TRUE]
           IN  /\ localUser' = [localUser EXCEPT ![d] = {t}]
               /\ saves' = [saves EXCEPT ![d] = @ \o <<[user |-> t, tap |-> 0], [user |-> t, tap |-> 0]>>]
    /\ UNCHANGED <<users, refused, account, accounts, screen, reading, signups, taps, launches>>

\* The app is terminated.  The account and the writes are kept on the device;
\* what the writes would have gone on with is lost.
Kill(d) ==
    /\ screen[d] # "closed"
    /\ screen' = [screen EXCEPT ![d] = "closed"]
    /\ localUser' = [localUser EXCEPT ![d] = NoUser]
    /\ reading' = [reading EXCEPT ![d] = FALSE]
    /\ signups' = [signups EXCEPT ![d] = {}]
    /\ asking' = [asking EXCEPT ![d] = FALSE]
    /\ saves' = [saves EXCEPT ![d] = [i \in DOMAIN saves[d] |-> [saves[d][i] EXCEPT !.tap = 0]]]
    /\ UNCHANGED <<users, refused, account, accounts, taps, launches>>

-----------------------------------------------------------------------------
SignupStep(d) == \E s \in signups[d] : NameChecked(d, s) \/ SignedIn(d, s) \/ Guest(d, s)
Answer(d) == UserFound(d) \/ UserMissing(d)
SaveAnswered(d) == Saved(d) \/ SaveRefused(d)

Next ==
    \E d \in Devices :
        \/ Launch(d) \/ Answer(d) \/ SignupStep(d) \/ SaveAnswered(d) \/ TokenArrives(d) \/ Kill(d)
        \/ \E name \in Names : Continue(d, name)
        \/ \E s \in signups[d] : SignupFails(d, s)

Spec == Init /\ [][Next]_vars

\* Firebase answers every call of an app that runs (with an error, maybe), and has a
\* token for it.
Fairness ==
    \A d \in Devices :
        WF_vars(Answer(d)) /\ WF_vars(SignupStep(d)) /\ WF_vars(SaveAnswered(d)) /\ WF_vars(TokenArrives(d))

FairSpec == Spec /\ Fairness

-----------------------------------------------------------------------------
(***************************************************************************)
(* Properties.                                                             *)
(***************************************************************************)
\* localUser is a copy of the user's document that is set from several
\* completions (Continue tapped twice, tokens, a start of the app).  Once the
\* writes are through and the last of them was not refused, the document others see
\* is the user the app works with: a save that was refused before is made up for.
SavedAsShown ==
    \A d \in Devices : saves[d] = << >> /\ ~refused[d] =>
        \A u \in localUser[d] : users[<<d, u.account>>] = {u}

\* A user who stays at Home, and whose writes are not refused for ever, can be
\* notified: his document gets a token for good.
TokenRegistered ==
    \A d \in Devices :
        <>[](screen[d] = "home" /\ ~refused[d]) =>
            <>[](\E u \in localUser[d] : \E v \in users[<<d, u.account>>] : v.deviceToken)

\* A name is taken by a document, for ever: only the device that is signed in to its
\* account can use it.  No start of the app gives up an account whose user was saved,
\* however the sign-up was cut off, so that no name is taken by nobody.
NamesKept ==
    \A d \in Devices, n \in 1..MaxSignIns :
        users[<<d, n>>] # NoUser \/ SavedBy(d, n) # {} => account[d] = n

\* What SavedAsShown and NamesKept rest on.  A splash that reads has an account, a
\* chain runs only where Continue can be tapped or was, and localUser is of the account
\* the device is signed in to.
StagesSound ==
    \A d \in Devices :
        /\ reading[d] => screen[d] = "splash" /\ account[d] # Nobody
        /\ signups[d] # {} => screen[d] \in {"welcome", "home"}
        /\ \A s \in signups[d] : s.step = "save" => account[d] # Nobody
        /\ \A u \in localUser[d] : screen[d] = "home" /\ u.account = account[d]

\* A document is of the account it is stored under.
AccountsOwn ==
    \A d \in Devices, n \in 1..MaxSignIns : \A u \in users[<<d, n>>] : u.account = n

\* The last write waiting is of the user the app works with, unless its completion is
\* going to set localUser again (Continue tapped twice).
ShownIsLast ==
    \A d \in Devices : saves[d] # << >> =>
        LET last == saves[d][Len(saves[d])]
        IN  last.tap > 0 \/ \A u \in localUser[d] : last.user = u

SessionInv == TypeOK /\ NamesKept /\ SavedAsShown /\ StagesSound /\ AccountsOwn /\ ShownIsLast

(***************************************************************************)
(* What a comment of the source promises and the code does not do.         *)
(***************************************************************************)
\* DataStore.swift:66, where the name is found free: "we don't have users with the
\* same username".
UsernamesUnique ==
    \A p, q \in Uid : \A u \in users[p], v \in users[q] : u.username = v.username => p = q
=============================================================================
