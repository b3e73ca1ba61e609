--------------------------- MODULE FirestoreWatch --------------------------
(***************************************************************************)
(* The listening half of the vendored Firestore client: RemoteStore's      *)
(* watch stream, the WatchChangeAggregator, the OnlineStateTracker, what   *)
(* LocalStore keeps of a target and what View takes from it.               *)
(*                                                                         *)
(* A target is a query the app listens to; the backend tells which         *)
(* documents belong to it, and a resume token lets it tell only what has   *)
(* changed.  Listens and their ends overtake the messages on their way, so *)
(* the client counts the answers it is due and ignores what comes before.  *)
(* Targets that the backend rejects, queries for one document and limbo    *)
(* resolutions are left out; what documents contain is in FirestoreClient. *)
(***************************************************************************)
EXTENDS Integers, Sequences, FiniteSets, SequencesExt

CONSTANTS
    Targets,        \* the queries
    Keys,           \* the documents
    MaxVersions,    \* bound: versions of the results
    MaxListens,     \* bound: listens of the app
    MaxCloses,      \* bound: streams closed other than for idleness
    MaxCrashes      \* bound: times the app is terminated

ASSUME BoundsAssumption ==
    MaxVersions \in Nat /\ MaxListens \in Nat /\ MaxCloses \in Nat /\ MaxCrashes \in Nat
ASSUME FiniteAssumption == IsFiniteSet(Targets) /\ IsFiniteSet(Keys)

VARIABLES
    results,    \* the backend: results[v][t] are the documents of target t at version v
    \* on the connection
    serving,    \* what the backend knows of each target on this stream
    wire,       \* requests it has not read
    inbox,      \* messages on their way
    \* on disk
    keys,       \* the documents of a target, as far as known (View::synced_documents_ too)
    saved,      \* resume tokens: the version, 0 for none
    snapshot,   \* last_remote_snapshot_version
    \* in memory
    running,
    listening,  \* listen_targets_
    token,      \* the tokens of LocalStore's and RemoteStore's TargetData
    current,    \* the targets whose view is current_
    stream,     \* watch_stream_
    states,     \* target_states_ of the aggregator; a target it does not have is Blank
    resets,     \* pending_target_resets_
    online,     \* OnlineStateTracker
    \* history
    outlived,   \* the targets whose reset was pending over a new listen or another snapshot
    listens, closes, crashes

connection == <<serving, wire, inbox>>
disk == <<keys, saved, snapshot>>
targets == <<listening, token, current>>
aggregator == <<states, resets>>
counters == <<outlived, listens, closes, crashes>>
vars == <<results, connection, disk, running, targets, stream, aggregator, online, counters>>

ChangeType == {"none", "added", "modified", "removed"}
NoChanges == [k \in Keys |-> "none"]
TargetState == [outstanding : Int, changes : [Keys -> ChangeType], current : BOOLEAN]
Blank == [outstanding |-> 0, changes |-> NoChanges, current |-> FALSE]
NoTargets == [t \in Targets |-> Blank]
NoToken == [store |-> 0, remote |-> 0]

StreamState == {"Initial", "Starting", "Open", "Error", "Backoff"}
NewStream == [state |-> "Initial", idle |-> FALSE]
OnlineState == {"Unknown", "Online", "Offline"}

\* The backend has not, or no longer, this target on the stream.
Off == [on |-> FALSE, at |-> 0, added |-> 0, current |-> FALSE, first |-> FALSE]

-----------------------------------------------------------------------------
(***************************************************************************)
(* stream.cc: as in FirestoreClient, without the token of the account.     *)
(***************************************************************************)
IsStarted(s) == s.state \in {"Starting", "Backoff", "Open"}
Started(s) == [state |-> IF s.state = "Error" THEN "Backoff" ELSE "Starting", idle |-> FALSE]

\* A closed stream takes what is on it with it; its aggregator goes as well.
Disconnected ==
    /\ serving' = [t \in Targets |-> Off]
    /\ wire' = << >>
    /\ inbox' = << >>
    /\ states' = NoTargets
    /\ resets' = {}

-----------------------------------------------------------------------------
(***************************************************************************)
(* online_state_tracker.cc.  failing is watch_stream_failures_ # 0, which  *)
(* is all the code asks of it (kMaxWatchStreamFailures is 1).              *)
(***************************************************************************)
Updated(state) == [state |-> state, failing |-> FALSE, timer |-> FALSE]

StreamStarted(o) == IF o.failing THEN o ELSE [o EXCEPT !.state = "Unknown", !.timer = TRUE]

StreamFailed_Uncleared(o) ==   \* mutant: the timer is not cleared
    IF o.state = "Online" THEN [o EXCEPT !.state = "Unknown"]
    ELSE [o EXCEPT !.state = "Offline", !.failing = TRUE]
StreamFailed(o) ==
    IF o.state = "Online" THEN [o EXCEPT !.state = "Unknown"]
    ELSE [state |-> "Offline", failing |-> TRUE, timer |-> FALSE]

\* View::ApplyOnlineStateChange.
Viewed(o, views) == IF o.state = "Offline" THEN {} ELSE views

-----------------------------------------------------------------------------
(***************************************************************************)
(* remote_event.cc, TargetState and WatchChangeAggregator.                 *)
(***************************************************************************)
Requested(s, n) == [s EXCEPT !.outstanding = @ + n]

\* TargetDataForActiveTarget.
IsActive(t) == t \in listening /\ states[t].outstanding = 0

Changed(s, type) == {k \in Keys : s.changes[k] = type}

\* GetCurrentDocumentCountForTarget.
Count(t) ==
    Cardinality(keys[t]) + Cardinality(Changed(states[t], "added"))
                         - Cardinality(Changed(states[t], "removed"))

\* Added: with the last answer, what was heard of an earlier listen is dropped.
Acknowledged_Kept(s) == Requested(s, -1)   \* mutant: without ClearPendingChanges
Acknowledged_Uncounted(s) == [s EXCEPT !.changes = NoChanges]   \* mutant: the answer is not counted
Acknowledged(s) ==
    LET left == Requested(s, -1)
    IN  IF left.outstanding = 0 THEN [left EXCEPT !.changes = NoChanges] ELSE left

\* Removed: with the last answer the target is forgotten.
Dropped(s) == LET left == Requested(s, -1) IN IF left.outstanding = 0 THEN Blank ELSE left

\* AddDocumentToTarget, RemoveDocumentFromTarget: what a document's message makes
\* of its entry in document_changes_.
AddedChange_Metadata(t, k) ==   \* mutant: a type that ToTargetChange does not know
    IF k \in keys[t] THEN "metadata" ELSE "added"
AddedChange(t, k) == IF k \in keys[t] THEN "modified" ELSE "added"
RemovedChange(t, k) == IF k \in keys[t] THEN "removed" ELSE "none"

\* ResetTarget: known documents are removed, unless they are sent again.
Reset(t) == [Blank EXCEPT !.changes = [k \in Keys |-> RemovedChange(t, k)]]

Init ==
    /\ results \in {<<r>> : r \in [Targets -> SUBSET Keys]}
    /\ serving = [t \in Targets |-> Off]
    /\ wire = << >> /\ inbox = << >>
    /\ keys = [t \in Targets |-> {}] /\ saved = [t \in Targets |-> 0] /\ snapshot = 0
    /\ running = TRUE
    /\ listening = {} /\ token = [t \in Targets |-> NoToken] /\ current = {}
    /\ stream = NewStream
    /\ states = NoTargets /\ resets = {}
    /\ online = Updated("Unknown")
    /\ outlived = {} /\ listens = 0 /\ closes = 0 /\ crashes = 0

-----------------------------------------------------------------------------
(***************************************************************************)
(* The app listens, and stops.                                             *)
(***************************************************************************)
WatchRequest(t, v) == [op |-> "watch", target |-> t, token |-> v]
UnwatchRequest(t) == [op |-> "unwatch", target |-> t, token |-> 0]

\* SyncEngine::Listen, RemoteStore::Listen.  A listen on a stream that is not open
\* yet is sent when it opens.
Listen(t) ==
    /\ running
    /\ t \notin listening
    /\ listens < MaxListens
    /\ listens' = listens + 1
    /\ outlived' = outlived \cup ({t} \cap resets)
    /\ listening' = listening \cup {t}
    /\ token' = [token EXCEPT ![t] = [store |-> saved[t], remote |-> saved[t]]]
    /\ stream' = IF IsStarted(stream) THEN [stream EXCEPT !.idle = FALSE] ELSE Started(stream)
    /\ online' = IF IsStarted(stream) THEN online ELSE StreamStarted(online)
    /\ IF stream.state = "Open"
       THEN /\ wire' = Append(wire, WatchRequest(t, saved[t]))
            /\ states' = [states EXCEPT ![t] = Requested(@, 1)]
       ELSE UNCHANGED <<wire, states>>
    /\ UNCHANGED <<results, serving, inbox, disk, running, current, resets, closes, crashes>>

\* LocalStore::ReleaseTarget saves the token; the end of the last listen makes an
\* open stream idle, and withdraws what is known of any other.
RequestedEnd_Uncounted(s) == s   \* mutant: SendUnwatchRequest counts no answer
RequestedEnd(s) == Requested(s, 1)

StopListening(t) ==
    /\ t \in listening
    /\ listening' = listening \ {t}
    /\ saved' = [saved EXCEPT ![t] = token[t].store]
    /\ token' = [token EXCEPT ![t] = NoToken]
    /\ current' = current \ {t}
    /\ IF stream.state = "Open"
       THEN /\ wire' = Append(wire, UnwatchRequest(t))
            /\ states' = [states EXCEPT ![t] = RequestedEnd(@)]
            /\ stream' = [stream EXCEPT !.idle = (listening' = {})]
            /\ online' = online
       ELSE /\ online' = IF listening' = {} THEN Updated("Unknown") ELSE online
            /\ UNCHANGED <<wire, states, stream>>
    /\ UNCHANGED <<results, serving, inbox, keys, snapshot, running, resets, counters>>

-----------------------------------------------------------------------------
(***************************************************************************)
(* The stream.                                                             *)
(***************************************************************************)
BackoffElapses ==
    /\ stream.state = "Backoff"
    /\ stream' = [stream EXCEPT !.state = "Starting"]
    /\ UNCHANGED <<results, connection, disk, running, targets, aggregator, online, counters>>

\* OnWatchStreamOpen sends all listens.
StreamOpens ==
    /\ stream.state = "Starting"
    /\ stream' = [stream EXCEPT !.state = "Open"]
    /\ LET open == SetToSeq(listening)
       IN  wire' = [i \in DOMAIN open |-> WatchRequest(open[i], token[open[i]].remote)]
    /\ states' = [t \in Targets |-> IF t \in listening THEN Requested(Blank, 1) ELSE Blank]
    /\ UNCHANGED <<results, serving, inbox, disk, running, targets, resets, online, counters>>

\* The stream ends with an error: it is started again if there are listens.
ConnectionLost ==
    /\ stream.state \in {"Starting", "Open"}
    /\ closes < MaxCloses
    /\ closes' = closes + 1
    /\ Disconnected
    /\ IF listening # {}
       THEN /\ stream' = [state |-> "Backoff", idle |-> FALSE]
            /\ online' = StreamStarted(StreamFailed(online))
       ELSE /\ stream' = [state |-> "Error", idle |-> FALSE]
            /\ online' = Updated("Unknown")
    /\ current' = Viewed(online', current)
    /\ UNCHANGED <<results, disk, running, listening, token, outlived, listens, crashes>>

\* Sixty seconds without a listen.
IdleTimeout ==
    /\ stream.idle
    /\ Disconnected
    /\ stream' = NewStream
    /\ online' = Updated("Unknown")
    /\ UNCHANGED <<results, disk, running, targets, counters>>

\* The device gets a network: RestartNetwork.
ConnectivityChanges ==
    /\ running
    /\ closes < MaxCloses
    /\ closes' = closes + 1
    /\ Disconnected
    /\ stream' = IF listening # {} THEN Started(NewStream) ELSE NewStream
    /\ online' = IF listening # {} THEN StreamStarted(Updated("Unknown")) ELSE Updated("Unknown")
    /\ UNCHANGED <<results, disk, running, targets, outlived, listens, crashes>>

\* Ten seconds after the start of a stream: the client gives up waiting for it.
OnlineTimeout ==
    /\ online.timer
    /\ online' = [online EXCEPT !.state = "Offline", !.timer = FALSE]
    /\ current' = Viewed(online', current)
    /\ UNCHANGED <<results, connection, disk, running, listening, token, stream, aggregator, counters>>

\* iOS terminates the app.
Crash ==
    /\ running
    /\ crashes < MaxCrashes
    /\ crashes' = crashes + 1
    /\ running' = FALSE
    /\ Disconnected
    /\ listening' = {} /\ token' = [t \in Targets |-> NoToken] /\ current' = {}
    /\ stream' = NewStream
    /\ online' = Updated("Unknown")
    /\ UNCHANGED <<results, disk, outlived, listens, closes>>

\* The app starts, and has no listens yet.
Start ==
    /\ ~running
    /\ running' = TRUE
    /\ UNCHANGED <<results, connection, disk, targets, stream, aggregator, online, counters>>

-----------------------------------------------------------------------------
(***************************************************************************)
(* OnWatchStreamChange.  Any message says that the client is online.       *)
(***************************************************************************)
Received(type) ==
    /\ inbox # << >> /\ Head(inbox).type = type
    /\ inbox' = Tail(inbox)
    /\ online' = Updated("Online")
    /\ UNCHANGED <<results, serving, running, listening, listens, closes, crashes>>

ReceiveAdded ==
    LET t == Head(inbox).target
    IN  /\ Received("Added")
        /\ states' = [states EXCEPT ![t] = Acknowledged(@)]
        /\ UNCHANGED <<wire, disk, token, current, stream, resets, outlived>>

ReceiveRemoved ==
    LET t == Head(inbox).target
    IN  /\ Received("Removed")
        /\ states' = [states EXCEPT ![t] = Dropped(@)]
        /\ UNCHANGED <<wire, disk, token, current, stream, resets, outlived>>

ReceiveCurrent ==
    LET t == Head(inbox).target
    IN  /\ Received("Current")
        /\ states' = IF IsActive(t) THEN [states EXCEPT ![t].current = TRUE] ELSE states
        /\ UNCHANGED <<wire, disk, token, current, stream, resets, outlived>>

\* HandleDocumentChange: a document has entered or left targets.
ReceiveDocument ==
    LET m == Head(inbox)
        k == m.key
    IN  /\ Received("Document")
        /\ states' = [t \in Targets |->
                         IF ~IsActive(t) \/ t \notin m.updated \cup m.removed THEN states[t]
                         ELSE [states[t] EXCEPT !.changes[k] =
                                  IF t \in m.updated THEN AddedChange(t, k) ELSE RemovedChange(t, k)]]
        /\ UNCHANGED <<wire, disk, token, current, stream, resets, outlived>>

\* HandleExistenceFilter: the target has another number of documents than it should.
ReceiveFilter ==
    LET t == Head(inbox).target
        mismatch == IsActive(t) /\ Count(t) # Head(inbox).count
    IN  /\ Received("Filter")
        /\ states' = IF mismatch THEN [states EXCEPT ![t] = Reset(t)] ELSE states
        /\ resets' = IF mismatch THEN resets \cup {t} ELSE resets
        /\ UNCHANGED <<wire, disk, token, current, stream, outlived>>

\* Mismatched targets are listened to again from nothing, one after the other: its
\* end and its new listen.
ListenedAgain(again) ==
    [i \in 1..(2 * Len(again)) |->
        LET t == again[(i + 1) \div 2]
        IN  IF i % 2 = 1 THEN UnwatchRequest(t) ELSE WatchRequest(t, 0)]

\* At version v, what is pending of the active targets takes effect.
RaiseWatchSnapshot(v) ==
    LET told == {t \in Targets : IsActive(t)}
        substantial(t) == token[t].store = 0 \/ states[t].changes # NoChanges
    IN  /\ keys' = [t \in Targets |->
                       IF t \in told THEN (keys[t] \ Changed(states[t], "removed"))
                                              \cup Changed(states[t], "added")
                       ELSE keys[t]]
        /\ current' = (current \ told) \cup {t \in told : states[t].current}
        \* ShouldPersistTargetData: a token alone is saved every five minutes.
        /\ \E aged \in BOOLEAN :
               saved' = [t \in Targets |-> IF t \in told /\ (aged \/ substantial(t)) THEN v
                                           ELSE saved[t]]
        /\ token' = [t \in Targets |->
                        [store |-> IF t \in told THEN v ELSE token[t].store,
                         remote |-> IF t \in resets \cap listening THEN 0
                                    ELSE IF t \in told THEN v ELSE token[t].remote]]
        /\ wire' = wire \o ListenedAgain(SetToSeq(resets \cap listening))
        /\ states' = [t \in Targets |->
                         Requested(IF t \in told THEN [states[t] EXCEPT !.changes = NoChanges]
                                   ELSE states[t],
                                   IF t \in resets \cap listening THEN 2 ELSE 0)]
        /\ resets' = {}
        /\ snapshot' = v

\* A snapshot older than one that was raised is waited out; what is pending goes on.
ReceiveSnapshot ==
    LET v == Head(inbox).version
    IN  /\ Received("Snapshot")
        /\ IF v >= snapshot
           THEN RaiseWatchSnapshot(v)
           ELSE UNCHANGED <<wire, disk, token, current, states, resets>>
        /\ outlived' = IF v >= snapshot THEN outlived ELSE outlived \cup (resets \cap listening)
        /\ UNCHANGED stream

-----------------------------------------------------------------------------
(***************************************************************************)
(* The backend.                                                            *)
(***************************************************************************)
ResultsChange ==
    /\ Len(results) < MaxVersions
    /\ \E r \in [Targets -> SUBSET Keys] \ {results[Len(results)]} : results' = Append(results, r)
    /\ UNCHANGED <<connection, disk, running, targets, stream, aggregator, online, counters>>

\* Requests are served in order.
ServeRequest ==
    LET r == Head(wire)
        watch == r.op = "watch"
    IN  /\ wire # << >>
        /\ wire' = Tail(wire)
        /\ serving' = [serving EXCEPT ![r.target] =
                          IF watch THEN [on |-> TRUE, at |-> r.token, added |-> Len(results),
                                         current |-> FALSE, first |-> TRUE]
                          ELSE Off]
        /\ inbox' = Append(inbox, [type |-> IF watch THEN "Added" ELSE "Removed",
                                   target |-> r.target])
        /\ UNCHANGED <<results, disk, running, targets, stream, aggregator, online, counters>>

\* The targets on the stream are brought to version v: the documents that entered
\* or left them, CURRENT once v is as late as the listen, and a snapshot.  A target
\* resumed with a token also gets an existence filter, and perhaps, instead of the
\* documents that left it, nothing else.  Any document may have been written to.
ServerSends(v) ==
    LET on == {t \in Targets : serving[t].on}
        resumed == {t \in on : serving[t].first /\ serving[t].at > 0}
        early == {t \in on : ~serving[t].current /\ v >= serving[t].added}
        known(t) == IF serving[t].at = 0 THEN {} ELSE results[serving[t].at][t]
    IN  /\ on # {}
        /\ v \in 1..Len(results) /\ \A t \in on : serving[t].at <= v
        /\ early # {} \/ \E t \in on : serving[t].first \/ serving[t].at < v
        /\ \E silent \in SUBSET resumed, written \in {{}, Keys} :
               LET news(k) == [type |-> "Document", key |-> k,
                               updated |-> {t \in on : k \in results[v][t] /\
                                                           (k \in written \/ k \notin known(t))},
                               removed |-> {t \in on \ silent : k \in known(t) \ results[v][t]}]
                   documents == SetToSeq({k \in Keys : news(k).updated \cup news(k).removed # {}})
                   currents == SetToSeq(early)
                   filters == SetToSeq(resumed)
               IN  inbox' = inbox
                       \o [i \in DOMAIN documents |-> news(documents[i])]
                       \o [i \in DOMAIN currents |-> [type |-> "Current", target |-> currents[i]]]
                       \o [i \in DOMAIN filters |-> [type |-> "Filter", target |-> filters[i],
                                                     count |-> Cardinality(results[v][filters[i]])]]
                       \o <<[type |-> "Snapshot", version |-> v]>>
        /\ serving' = [t \in Targets |->
                          IF t \in on THEN [serving[t] EXCEPT !.at = v, !.first = FALSE,
                                                              !.current = @ \/ t \in early]
                          ELSE serving[t]]
        /\ UNCHANGED <<results, wire, disk, running, targets, stream, aggregator, online, counters>>

-----------------------------------------------------------------------------
Receive ==
    \/ ReceiveAdded
    \/ ReceiveRemoved
    \/ ReceiveCurrent
    \/ ReceiveDocument
    \/ ReceiveFilter
    \/ ReceiveSnapshot

WorkerQueue ==
    \/ BackoffElapses
    \/ Receive
    \/ OnlineTimeout
    \/ IdleTimeout
    \/ Start

Trouble ==
    \/ ConnectionLost
    \/ ConnectivityChanges
    \/ Crash

Next ==
    \/ \E t \in Targets : Listen(t) \/ StopListening(t)
    \/ WorkerQueue
    \/ StreamOpens
    \/ Trouble
    \/ ResultsChange
    \/ ServeRequest
    \/ \E v \in 1..MaxVersions : ServerSends(v)

Spec == Init /\ [][Next]_vars

\* The worker queue goes on, and nothing else is promised.
QueueSpec == Spec /\ WF_vars(WorkerQueue)

\* A stream that starts comes up, and the backend serves it.
FairSpec ==
    /\ QueueSpec
    /\ WF_vars(StreamOpens)
    /\ WF_vars(ServeRequest)
    /\ WF_vars(\E v \in 1..MaxVersions : ServerSends(v))

-----------------------------------------------------------------------------
(***************************************************************************)
(* Properties.                                                             *)
(***************************************************************************)
Message ==
    [type : {"Added", "Removed", "Current"}, target : Targets]
        \cup [type : {"Document"}, key : Keys, updated : SUBSET Targets, removed : SUBSET Targets]
        \cup [type : {"Filter"}, target : Targets, count : Nat]
        \cup [type : {"Snapshot"}, version : Nat]
Request == [op : {"watch", "unwatch"}, target : Targets, token : Nat]

TypeOK ==
    /\ results \in Seq([Targets -> SUBSET Keys])
    /\ serving \in [Targets -> [on : BOOLEAN, at : Nat, added : Nat, current : BOOLEAN,
                                first : BOOLEAN]]
    /\ wire \in Seq(Request)
    /\ inbox \in Seq(Message)
    /\ keys \in [Targets -> SUBSET Keys]
    /\ saved \in [Targets -> 0..Len(results)] /\ snapshot \in 0..Len(results)
    /\ running \in BOOLEAN
    /\ listening \subseteq Targets /\ current \subseteq listening
    /\ token \in [Targets -> [store : 0..Len(results), remote : 0..Len(results)]]
    /\ stream \in [state : StreamState, idle : BOOLEAN]
    /\ states \in [Targets -> TargetState] /\ resets \subseteq Targets
    /\ outlived \subseteq Targets
    /\ online \in [state : OnlineState, failing : BOOLEAN, timer : BOOLEAN]

\* The client is due exactly as many answers of a target as it counts: it starts
\* to believe the messages of a target with the answer to its last request, never
\* earlier, and does not wait for ever (RecordPendingTargetRequest, IsPending).
Answering(t) ==
    Cardinality({i \in DOMAIN wire : wire[i].target = t}) +
        Cardinality({i \in DOMAIN inbox : inbox[i].type \in {"Added", "Removed"} /\
                                              inbox[i].target = t})
AnswersCounted ==
    \A t \in Targets : states[t].outstanding = Answering(t)

\* The assertions of the code: a stream that is stopped for idleness is not needed
\* (OnWatchStreamClose), the timer runs only while the state is unknown and is not
\* running when a stream is started (OnlineStateTracker), nor are failures counted
\* online; documents modified were there before (View::ApplyTargetChange).
StreamsAsserted ==
    /\ stream.idle => stream.state = "Open" /\ listening = {}
    /\ listening # {} => IsStarted(stream)
    /\ online.timer => online.state = "Unknown" /\ IsStarted(stream)
    /\ online.state = "Online" => ~online.failing /\ ~online.timer
ChangesAsserted ==
    \A t \in Targets : IsActive(t) =>
        Changed(states[t], "modified") \cup Changed(states[t], "removed") \subseteq keys[t]
AssertionsHold == StreamsAsserted /\ ChangesAsserted

\* What these rest on: nothing is on a stream that is not open, and a snapshot on
\* its way is of a version the backend has.
StreamQuiet ==
    stream.state # "Open" =>
        /\ serving = [t \in Targets |-> Off] /\ wire = << >> /\ inbox = << >>
        /\ states = NoTargets /\ resets = {}
SnapshotsSound ==
    \A i \in DOMAIN inbox : inbox[i].type = "Snapshot" => inbox[i].version \in 0..Len(results)

WatchInv == TypeOK /\ AnswersCounted /\ AssertionsHold /\ StreamQuiet /\ SnapshotsSound

\* A view that says it is in sync shows exactly what belonged to the target at the
\* version of its token (remote_event.h: "the target is consistent with the rest of
\* the watch stream"), whatever was resumed, reset, stopped or lost before.  The code
\* does not give this while a target is listened to again from nothing, nor, for
\* good, to a target whose reset does not take effect alone: listened to again
\* before the next snapshot its removals are dropped, and if that snapshot is
\* waited out they are mixed with later news; the full update that follows adds only.
Exact(t) == keys[t] = results[token[t].remote][t]
ViewsExact == \A t \in current \ outlived : token[t].remote = 0 \/ Exact(t)

\* Once the app, the network and the documents are left alone, every view comes to
\* be in sync with the last results.
Synced ==
    /\ listening = current
    /\ \A t \in listening \ outlived : keys[t] = results[Len(results)][t]
Converges == <>[]Synced

\* OnlineStateTracker: "we transition to Offline rather than waiting indefinitely".
\* A listener that has nothing to show waits for this (QueryListener,
\* ShouldRaiseInitialEvent).
StateDecided ==
    \A t \in Targets : t \in listening ~> (t \notin listening \/ online.state # "Unknown")
=============================================================================
