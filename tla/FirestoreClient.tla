--------------------------- MODULE FirestoreClient -------------------------
(***************************************************************************)
(* The write path of the vendored Firestore client: RemoteStore, its       *)
(* WriteStream and the LocalStore, on one device and for one document.     *)
(*                                                                         *)
(* A write is stored on disk, shown at once, and sent over a stream that   *)
(* may break at any moment; what the backend answers is matched to it by   *)
(* position alone.  Versions of the document arrive on another stream.     *)
(* All handlers run on one worker queue: each is one action.               *)
(***************************************************************************)
EXTENDS Naturals, Sequences, FiniteSets

CONSTANTS
    Fields, Values,       \* a document gives each field a value
    FirstDocuments,       \* what the document may be at first
    Patches,              \* the writes of this device
    ForeignPatches,       \* the writes of the others
    kMaxPendingWrites,    \* writes sent and not answered
    MaxWrites,            \* bound: writes of this device
    MaxForeign,           \* bound: writes of the others
    MaxCloses,            \* bound: streams closed in the life of one process
    MaxCrashes            \* bound: times the app is terminated

Documents == [Fields -> Values]
Patch == UNION {[F -> Values] : F \in SUBSET Fields}

ASSUME PatchesAssumption ==
    /\ Patches \subseteq Patch /\ ForeignPatches \subseteq Patch
    /\ FirstDocuments \subseteq Documents
ASSUME PipelineAssumption == kMaxPendingWrites \in Nat \ {0}
ASSUME BoundsAssumption ==
    MaxWrites \in Nat /\ MaxForeign \in Nat /\ MaxCloses \in Nat /\ MaxCrashes \in Nat

\* setData(merge: true) and updateData both become a PatchMutation.
Merge_PatchAlone(doc, patch) == patch   \* mutant: the document is replaced
Merge_Default(doc, patch) ==   \* mutant: fields outside the mask are set to a default
    [f \in Fields |-> IF f \in DOMAIN patch THEN patch[f] ELSE CHOOSE v \in Values : TRUE]
Merge(doc, patch) == [f \in Fields |-> IF f \in DOMAIN patch THEN patch[f] ELSE doc[f]]

-----------------------------------------------------------------------------
VARIABLES
    history,    \* the backend: all versions of the document, history[v] is version v
    orphans,    \* requests of the last closed stream, which the backend may still serve
    foreign,    \* how many writes of others were committed
    \* on disk
    queue,      \* mutation_queue_: the batches that are not acknowledged
    cached,     \* remote_document_cache_: the document, its version, is it a guess?
    snapshot,   \* the version up to which the watch stream has told
    \* in memory
    running,    \* does the process exist?
    nextBatchId, callbacks,   \* next_batch_id_, the keys of mutation_callbacks_
    pipeline,   \* write_pipeline_
    stream,     \* write_stream_
    tokens,     \* the close counts for which RequestCredentials awaits a token
    \* on the connection
    wire,       \* requests the backend has not served
    acks,       \* its responses on their way, each with the batch it stands for
    refused,    \* the batch for which it closes the stream, if any
    \* history
    issued, crashes,   \* how many writes, how many terminations
    sentBase,   \* the last version from the watch stream that was taken
    unseen      \* the writes applied to the cache on top of it, with their versions

backend == <<history, orphans, foreign>>
disk == <<queue, cached, snapshot, sentBase, unseen>>
memory == <<running, nextBatchId, callbacks, pipeline, stream, tokens>>
connection == <<wire, acks, refused>>
vars == <<backend, disk, memory, connection, issued, crashes>>

Batch == [id : Nat \ {0}, patch : Patches]
StreamState == {"Initial", "Starting", "Open", "Error", "Backoff"}
Stream == [state : StreamState, grpc : BOOLEAN, handshakeComplete : BOOLEAN,
           idle : BOOLEAN, closeCount : Nat]

NewStream == [state |-> "Initial", grpc |-> FALSE, handshakeComplete |-> FALSE,
              idle |-> FALSE, closeCount |-> 0]

Init ==
    /\ history \in {<<doc>> : doc \in FirstDocuments}
    /\ orphans = << >> /\ foreign = 0
    /\ queue = << >>
    /\ cached = [version |-> 1, doc |-> history[1], committed |-> FALSE]
    /\ snapshot = 1
    /\ running = TRUE
    /\ nextBatchId = 1 /\ callbacks = {}
    /\ pipeline = << >>
    /\ stream = NewStream
    /\ tokens = {}
    /\ wire = << >> /\ acks = << >> /\ refused = << >>
    /\ issued = 0 /\ crashes = 0
    /\ sentBase = 1 /\ unseen = << >>

-----------------------------------------------------------------------------
(***************************************************************************)
(* stream.cc.                                                              *)
(***************************************************************************)
IsStarted(s) == s.state \in {"Starting", "Backoff", "Open"}
Sending_Open(s) == s.state = "Open"   \* mutant: the handshake is not waited for
Sending(s) == s.state = "Open" /\ s.handshakeComplete

Started(s) == [s EXCEPT !.state = IF @ = "Error" THEN "Backoff" ELSE "Starting"]

\* Close: the idle timer and the backoff are cancelled, tokens under way go stale.
Closed(s, state) ==
    [s EXCEPT !.state = state, !.grpc = FALSE, !.handshakeComplete = FALSE, !.idle = FALSE,
              !.closeCount = @ + 1]
Stopped(s) == IF IsStarted(s) THEN Closed(s, "Initial") ELSE s
Backoff_Inhibited(s) == [s EXCEPT !.state = "Initial"]

\* A start out of Initial asks for a token; one out of Error waits first.
Asked(s, asked) == IF s.state = "Starting" THEN asked \cup {s.closeCount} ELSE asked

\* A closed stream takes its requests and responses with it.
Disconnected ==
    /\ orphans' = wire
    /\ acks' = << >>
    /\ refused' = << >>

-----------------------------------------------------------------------------
(***************************************************************************)
(* remote_store.cc, FillWritePipeline.                                     *)
(***************************************************************************)
\* The batches GetNextMutationBatch returns one after the other.
After_OrSame(q, id) ==   \* mutant: >= for > in NextMutationBatchAfterBatchId
    LET n == CHOOSE n \in 0..Len(q) : \A i \in DOMAIN q : q[i].id < id <=> i <= n
    IN  SubSeq(q, n + 1, Len(q))
After(q, id) ==
    LET n == CHOOSE n \in 0..Len(q) : \A i \in DOMAIN q : q[i].id <= id <=> i <= n
    IN  SubSeq(q, n + 1, Len(q))
NextBatches(p, q) ==
    LET rest == After(q, IF p = << >> THEN 0 ELSE p[Len(p)].id)
        room == kMaxPendingWrites - Len(p)
    IN  SubSeq(rest, 1, IF Len(rest) <= room THEN Len(rest) ELSE room)

\* The pipeline p is filled from the queue q; s is the stream, w what is on it.
FillWritePipeline_NoStart(p, q, s, w) ==   \* mutant: without ShouldStartWriteStream
    LET added == NextBatches(p, q)
    IN  /\ pipeline' = p \o added
        /\ wire' = IF Sending(s) THEN w \o added ELSE w
        /\ stream' = s
        /\ tokens' = tokens
FillWritePipeline(p, q, s, w) ==
    LET added == NextBatches(p, q)
        full == p \o added
        \* MarkIdle if there is nothing to send, CancelIdleCheck with every message.
        quiet == s.state = "Open" /\ (full = << >> \/ (s.idle /\ added = << >>))
        checked == [s EXCEPT !.idle = quiet]
        restarted == IF full # << >> /\ ~IsStarted(s) THEN Started(checked) ELSE checked
    IN  /\ pipeline' = full
        /\ wire' = IF Sending(s) THEN w \o added ELSE w
        /\ stream' = restarted
        /\ tokens' = IF IsStarted(s) THEN tokens ELSE Asked(restarted, tokens)

-----------------------------------------------------------------------------
(***************************************************************************)
(* SyncEngine::WriteMutations.                                             *)
(***************************************************************************)
Write(patch) ==
    LET batch == [id |-> nextBatchId, patch |-> patch]
    IN  /\ running
        /\ issued < MaxWrites
        /\ issued' = issued + 1
        /\ nextBatchId' = nextBatchId + 1
        /\ callbacks' = callbacks \cup {batch.id}
        /\ queue' = Append(queue, batch)
        /\ FillWritePipeline(pipeline, queue', stream, wire)
        /\ UNCHANGED <<backend, cached, snapshot, sentBase, unseen, running, acks, refused, crashes>>

(***************************************************************************)
(* The stream comes up.                                                    *)
(***************************************************************************)
\* The backoff ends: Start, from Initial.
BackoffElapses ==
    /\ stream.state = "Backoff"
    /\ stream' = [stream EXCEPT !.state = "Starting"]
    /\ tokens' = Asked(stream', tokens)
    /\ UNCHANGED <<backend, disk, running, nextBatchId, callbacks, pipeline, connection,
                   issued, crashes>>

\* RequestCredentials: a token that comes back after a close is ignored.
TokenIsCurrent_Always(c) == TRUE   \* mutant: close_count_ is not compared
TokenIsCurrent(c) == c = stream.closeCount

TokenArrives(c) ==
    /\ c \in tokens
    /\ tokens' = tokens \ {c}
    /\ stream' = IF TokenIsCurrent(c) THEN [stream EXCEPT !.grpc = TRUE] ELSE stream
    /\ UNCHANGED <<backend, disk, running, nextBatchId, callbacks, pipeline, connection,
                   issued, crashes>>

\* OnStreamStart; OnWriteStreamOpen sends the handshake.
StreamOpens ==
    /\ stream.state = "Starting" /\ stream.grpc
    /\ stream' = [stream EXCEPT !.state = "Open"]
    /\ UNCHANGED <<backend, disk, running, nextBatchId, callbacks, pipeline, tokens, connection,
                   issued, crashes>>

\* OnWriteStreamHandshakeComplete: the whole pipeline is sent again.
HandshakeCompletes ==
    /\ stream.state = "Open" /\ ~stream.handshakeComplete
    /\ stream' = [stream EXCEPT !.handshakeComplete = TRUE, !.idle = FALSE]
    /\ wire' = wire \o pipeline
    /\ UNCHANGED <<backend, disk, running, nextBatchId, callbacks, pipeline, tokens, acks, refused,
                   issued, crashes>>

-----------------------------------------------------------------------------
(***************************************************************************)
(* Answers.                                                                *)
(***************************************************************************)
Removed(q, id) ==
    LET i == CHOOSE i \in DOMAIN q : q[i].id = id
    IN  SubSeq(q, 1, i - 1) \o SubSeq(q, i + 1, Len(q))

\* ApplyBatchResult: the write goes into the cache unless that is as new.
IsNewer_OrSame(version) == cached.version <= version   \* mutant
IsNewer(version) == cached.version < version

\* OnWriteStreamMutationResult, HandleSuccessfulWrite, AcknowledgeBatch.
ReceiveResult ==
    LET batch == Head(pipeline)
        version == Head(acks).version
        left == Removed(queue, batch.id)
    IN  /\ acks # << >>
        /\ acks' = Tail(acks)
        /\ callbacks' = callbacks \ {batch.id}
        /\ queue' = left
        /\ IF IsNewer(version)
           THEN /\ cached' = [version |-> version, doc |-> Merge(cached.doc, batch.patch),
                              committed |-> TRUE]
                /\ unseen' = Append(unseen, [patch |-> batch.patch, version |-> version])
           ELSE UNCHANGED <<cached, unseen>>
        /\ FillWritePipeline(Tail(pipeline), left, stream, wire)
        /\ UNCHANGED <<backend, snapshot, sentBase, running, nextBatchId, refused, issued, crashes>>

\* The stream closes with an error that blames a write: HandleWriteError drops
\* the first of the pipeline.  Backoff is inhibited.
ReceiveRefusal ==
    LET batch == Head(pipeline)
        left == Removed(queue, batch.id)
    IN  /\ refused # << >> /\ acks = << >>
        /\ Disconnected
        /\ callbacks' = callbacks \ {batch.id}
        /\ queue' = left
        /\ FillWritePipeline(Tail(pipeline), left, Backoff_Inhibited(Closed(stream, "Error")), << >>)
        /\ UNCHANGED <<history, foreign, cached, snapshot, sentBase, unseen, running, nextBatchId,
                       issued, crashes>>

-----------------------------------------------------------------------------
(***************************************************************************)
(* The stream goes down.                                                   *)
(***************************************************************************)
\* Any other error: the pipeline is kept, and the stream started again if there
\* is something in it.  A stream that the backend ends without an error must
\* have nothing to send (HARD_ASSERT in OnWriteStreamClose).
ConnectionLost(ok) ==
    LET down == Closed(stream, IF ok THEN "Initial" ELSE "Error")
    IN  /\ stream.grpc \/ stream.closeCount \in tokens
        /\ ok => pipeline = << >>
        /\ stream.closeCount < MaxCloses
        /\ Disconnected
        /\ wire' = << >>
        /\ stream' = IF pipeline # << >> THEN Started(down) ELSE down
        /\ tokens' = tokens \ {stream.closeCount}
        /\ UNCHANGED <<history, foreign, disk, running, nextBatchId, callbacks, pipeline,
                       issued, crashes>>

\* Sixty seconds with nothing to send: Stop.
IdleTimeout ==
    /\ stream.idle
    /\ stream.closeCount < MaxCloses
    /\ Disconnected
    /\ wire' = << >>
    /\ stream' = Stopped(stream)
    /\ UNCHANGED <<history, foreign, disk, running, nextBatchId, callbacks, pipeline, tokens,
                   issued, crashes>>

\* The device gets a network: RestartNetwork.
ConnectivityChanges ==
    /\ running
    /\ stream.closeCount < MaxCloses
    /\ Disconnected
    /\ FillWritePipeline(<< >>, queue, Backoff_Inhibited(Stopped(stream)), << >>)
    /\ UNCHANGED <<history, foreign, disk, running, nextBatchId, callbacks, issued, crashes>>

\* iOS terminates the app.  What the watch stream last said is saved only now and then.
Crash ==
    /\ running
    /\ crashes < MaxCrashes
    /\ crashes' = crashes + 1
    /\ running' = FALSE
    /\ callbacks' = {} /\ pipeline' = << >> /\ stream' = NewStream /\ tokens' = {}
    /\ Disconnected
    /\ wire' = << >>
    /\ snapshot' \in 1..snapshot
    /\ UNCHANGED <<history, foreign, queue, cached, sentBase, unseen, nextBatchId, issued>>

\* The app starts: LoadNextBatchIdFromDb, EnableNetwork.
Start ==
    /\ ~running
    /\ running' = TRUE
    /\ nextBatchId' = IF queue = << >> THEN 1 ELSE queue[Len(queue)].id + 1
    /\ FillWritePipeline(<< >>, queue, stream, << >>)
    /\ UNCHANGED <<backend, disk, callbacks, acks, refused, issued, crashes>>

-----------------------------------------------------------------------------
(***************************************************************************)
(* The backend.                                                            *)
(***************************************************************************)
Current == history[Len(history)]
Committed(doc) == history' = IF doc = Current THEN history ELSE Append(history, doc)

\* A write that changes nothing is answered with the version there is.
ServerCommits ==
    /\ wire # << >>
    /\ refused = << >>
    /\ Committed(Merge(Current, Head(wire).patch))
    /\ wire' = Tail(wire)
    /\ acks' = Append(acks, [batch |-> Head(wire), version |-> Len(history')])
    /\ UNCHANGED <<orphans, foreign, disk, memory, refused, issued, crashes>>

ServerRefuses ==
    /\ wire # << >>
    /\ refused = << >>
    /\ refused' = <<Head(wire)>>
    /\ wire' = << >>
    /\ UNCHANGED <<backend, disk, memory, acks, issued, crashes>>

\* A request of a stream that is closed on this side already.
OrphanCommits ==
    /\ orphans # << >>
    /\ Committed(Merge(Current, Head(orphans).patch))
    /\ orphans' = Tail(orphans)
    /\ UNCHANGED <<foreign, disk, memory, connection, issued, crashes>>

ForeignCommits(patch) ==
    /\ foreign < MaxForeign
    /\ foreign' = foreign + 1
    /\ Committed(Merge(Current, patch))
    /\ UNCHANGED <<orphans, disk, memory, connection, issued, crashes>>

-----------------------------------------------------------------------------
\* LocalStore::ApplyRemoteEvent with version v of the document.
IsTaken_Always(v) == TRUE   \* mutant: no comparison with the cached version
IsTaken_OnlyNewer(v) == v > cached.version   \* mutant: a guess of the same version stays
IsTaken(v) == v > cached.version \/ (v = cached.version /\ cached.committed)

Watch(v) ==
    /\ running
    /\ v > snapshot
    /\ snapshot' = v
    /\ IF IsTaken(v)
       THEN /\ cached' = [version |-> v, doc |-> history[v], committed |-> FALSE]
            /\ sentBase' = v
            /\ unseen' = << >>
       ELSE UNCHANGED <<cached, sentBase, unseen>>
    /\ UNCHANGED <<backend, queue, memory, connection, issued, crashes>>

-----------------------------------------------------------------------------
Client ==
    \/ BackoffElapses
    \/ \E c \in tokens : TokenArrives(c)
    \/ StreamOpens
    \/ HandshakeCompletes
    \/ ReceiveResult
    \/ ReceiveRefusal
    \/ Start

Trouble ==
    \/ \E ok \in BOOLEAN : ConnectionLost(ok)
    \/ IdleTimeout
    \/ ConnectivityChanges
    \/ Crash
    \/ ServerRefuses
    \/ OrphanCommits

Next ==
    \/ \E patch \in Patches : Write(patch)
    \/ Client
    \/ ServerCommits
    \/ \E patch \in ForeignPatches : ForeignCommits(patch)
    \/ \E v \in 1..Len(history) : Watch(v)
    \/ Trouble

Spec == Init /\ [][Next]_vars

\* The worker queue, its timers, the token provider and a backend that is reached
\* go on.  Nothing is asked of users, others, or trouble.
FairSpec ==
    /\ Spec
    /\ WF_vars(Client)
    /\ WF_vars(ServerCommits)
    /\ WF_vars(\E v \in 1..Len(history) : Watch(v))

-----------------------------------------------------------------------------
(***************************************************************************)
(* Properties.                                                             *)
(***************************************************************************)
TypeOK ==
    /\ history \in Seq(Documents) \ {<< >>} /\ foreign \in 0..MaxForeign
    /\ orphans \in Seq(Batch)
    /\ queue \in Seq(Batch)
    /\ cached \in [version : Nat, doc : Documents, committed : BOOLEAN]
    /\ snapshot \in Nat /\ sentBase \in Nat
    /\ unseen \in Seq([patch : Patches, version : Nat])
    /\ running \in BOOLEAN
    /\ nextBatchId \in Nat \ {0} /\ callbacks \in SUBSET Nat
    /\ pipeline \in Seq(Batch)
    /\ stream \in Stream
    /\ tokens \in SUBSET Nat
    /\ wire \in Seq(Batch) /\ refused \in Seq(Batch)
    /\ acks \in Seq([batch : Batch, version : Nat])
    /\ issued \in 0..MaxWrites /\ crashes \in 0..MaxCrashes

\* The client matches what it is answered to its pipeline by position alone
\* (OnWriteStreamMutationResult, HandleWriteError).  Whatever was written, lost or
\* sent again in between, the responses on their way belong to the first batches of
\* the pipeline, a refusal to the next one and the requests not served to the rest.
CorrelatedAnswers ==
    stream.handshakeComplete =>
        /\ Len(acks) <= Len(pipeline)
        /\ \A i \in DOMAIN acks : acks[i].batch = pipeline[i]
        /\ refused # << >> =>
               Len(acks) < Len(pipeline) /\ refused = <<pipeline[Len(acks) + 1]>>
        /\ refused = << >> =>
               /\ Len(acks) + Len(wire) = Len(pipeline)
               /\ \A i \in DOMAIN wire : wire[i] = pipeline[Len(acks) + i]

\* What is sent is the head of the queue on disk, in its order and with no gap,
\* and as much of it as kMaxPendingWrites allows.
FirstBatches(q) == SubSeq(q, 1, IF Len(q) <= kMaxPendingWrites THEN Len(q) ELSE kMaxPendingWrites)
PipelineIsHead == running => pipeline = FirstBatches(queue)

\* The assertions of the code: a token meets a stream that waits for it
\* (ResumeStartWithCredentials), a stream that is stopped for idleness is not
\* needed (OnWriteStreamClose), a response meets a batch (OnWriteStreamMutationResult),
\* a batch to be removed exists (RejectBatch) and starting a stream works (Start).
AssertionsHold ==
    /\ stream.closeCount \in tokens => stream.state = "Starting" /\ ~stream.grpc
    /\ stream.idle => pipeline = << >>
    /\ acks # << >> => pipeline # << >> /\ stream.handshakeComplete
    /\ \A i \in DOMAIN pipeline : \E j \in DOMAIN queue : queue[j] = pipeline[i]
    /\ running /\ queue # << >> => pipeline # << >> /\ IsStarted(stream)

(***************************************************************************)
(* The inductive invariant behind the properties above.                    *)
(***************************************************************************)
\* LoadNextBatchIdFromDb reads the last identifier back: they never repeat.
Ordered(q) == \A i, j \in DOMAIN q : i < j => q[i].id < q[j].id
QueueOrdered ==
    /\ Ordered(queue)
    /\ running => \A i \in DOMAIN queue : queue[i].id < nextBatchId

\* Nothing is on a connection on which nothing may be sent.
ConnectionQuiet ==
    /\ stream.handshakeComplete => stream.state = "Open"
    /\ ~stream.handshakeComplete => wire = << >> /\ acks = << >> /\ refused = << >>

\* Tokens belong to this opening of the stream or to one that was closed.
StreamSound ==
    /\ \A c \in tokens : c <= stream.closeCount
    /\ stream.closeCount \in tokens => stream.state = "Starting" /\ ~stream.grpc
    /\ stream.grpc => stream.state \in {"Starting", "Open"}
    /\ stream.idle => stream.state = "Open" /\ pipeline = << >>
    /\ pipeline # << >> => IsStarted(stream)

NothingRuns == ~running => pipeline = << >> /\ stream = NewStream /\ tokens = {}

ClientInv ==
    /\ TypeOK
    /\ QueueOrdered
    /\ PipelineIsHead
    /\ CorrelatedAnswers
    /\ ConnectionQuiet
    /\ StreamSound
    /\ NothingRuns

\* Every write is answered, whatever happens to streams and processes.
QueueDrains == []<>(queue = << >>)

\* In the end the device shows the document as it is, although what it made of an
\* acknowledgement may lack a write of another device that it was never sent.
Converges == <>[](queue = << >> /\ cached.doc = Current)

\* What the app is shown: the cache under the queue.
IsLatest(f, ws, i) ==
    f \in DOMAIN ws[i].patch /\ \A j \in DOMAIN ws : f \in DOMAIN ws[j].patch => j <= i
Overlay(doc, ws) ==
    [f \in Fields |-> IF \E i \in DOMAIN ws : IsLatest(f, ws, i)
                      THEN ws[CHOOSE i \in DOMAIN ws : IsLatest(f, ws, i)].patch[f]
                      ELSE doc[f]]

\* It is the last version of the backend it was sent, under the writes that are
\* not in it, those acknowledged included.
ViewIsOverlay ==
    Overlay(cached.doc, queue) =
        Overlay(Overlay(history[sentBase], unseen), queue)

(***************************************************************************)
(* It implements DocumentSync.                                             *)
(***************************************************************************)
Ahead(b, version) == IF version <= b THEN 0 ELSE version - b
PatchesOf(ws) == [i \in DOMAIN ws |-> ws[i].patch]
AheadOf(b, ws) == [i \in DOMAIN ws |-> Ahead(b, ws[i].version)]

Feed == SubSeq(history, sentBase + 1, Len(history))
Own == PatchesOf(unseen) \o PatchesOf(queue)
At == AheadOf(sentBase, unseen) \o AheadOf(sentBase, acks)

Contract == INSTANCE DocumentSync WITH
    Docs <- Documents,
    Writes <- Patches,
    server <- Current,
    base <- history[sentBase],
    feed <- Feed,
    own <- Own,
    at <- At,
    acked <- Len(unseen)
ContractSpec == Contract!Spec

\* What the refinement needs besides ClientInv: the cache is at the version of the
\* last write applied to it, a version that was told is one that exists, and only
\* what is built from writes counts as a guess (IsNewer, IsTaken).
VersionsSound ==
    /\ sentBase \in 1..Len(history)
    /\ \A i \in DOMAIN unseen : unseen[i].version \in (sentBase + 1)..Len(history)
    /\ \A i \in DOMAIN acks : acks[i].version \in 1..Len(history)
    /\ cached.version = IF unseen = << >> THEN sentBase ELSE unseen[Len(unseen)].version
    /\ cached.committed <=> unseen # << >>

\* The cache is built from the version that was sent and nothing else (ApplyBatchResult).
CacheIsOverlay == cached.doc = Overlay(history[sentBase], unseen)

RefinementInv == ClientInv /\ VersionsSound /\ CacheIsOverlay
=============================================================================
