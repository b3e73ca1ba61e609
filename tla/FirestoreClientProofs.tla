----------------------- MODULE FirestoreClientProofs -----------------------
(***************************************************************************)
(* ClientInv is an invariant of FirestoreClient for every choice of its    *)
(* constants: whatever is written, answered, lost, sent again or forgotten *)
(* in a crash, answers stay matched to writes by position alone.           *)
(***************************************************************************)
EXTENDS FirestoreClient, SequenceTheorems, TLAPS

USE PatchesAssumption, PipelineAssumption, BoundsAssumption

(***************************************************************************)
(* Sequences of batches.                                                   *)
(***************************************************************************)
\* p is what is under way of the queue q.
IsHead(p, q) ==
    /\ Len(p) <= Len(q) /\ Len(p) <= kMaxPendingWrites
    /\ \A i \in 1..Len(p) : p[i] = q[i]

\* What FillWritePipeline aims at is under way of the queue.
LEMMA FirstBatchesHead ==
    ASSUME NEW q \in Seq(Batch)
    PROVE  FirstBatches(q) \in Seq(Batch) /\ IsHead(FirstBatches(q), q)
  <1> DEFINE n == IF Len(q) <= kMaxPendingWrites THEN Len(q) ELSE kMaxPendingWrites
  <1>1. n \in Nat /\ n <= Len(q) /\ n <= kMaxPendingWrites
    OBVIOUS
  <1>2. \A i \in 1..n : q[i] \in Batch
    BY <1>1
  <1>3. 1 \in Int /\ n \in Int
    BY <1>1
  <1> HIDE DEF n
  <1>4. /\ SubSeq(q, 1, n) \in Seq(Batch)
        /\ Len(SubSeq(q, 1, n)) = IF 1 <= n THEN n - 1 + 1 ELSE 0
        /\ \A i \in 1..(n - 1 + 1) : SubSeq(q, 1, n)[i] = q[1 + i - 1]
    BY <1>2, <1>3, SubSeqProperties
  <1>5. Len(SubSeq(q, 1, n)) = n /\ \A i \in 1..n : SubSeq(q, 1, n)[i] = q[i]
    BY <1>1, <1>4
  <1>6. FirstBatches(q) = SubSeq(q, 1, n)
    BY DEF FirstBatches, n
  <1> QED
    BY <1>1, <1>4, <1>5, <1>6 DEF IsHead

\* The batches after the last one under way are the next ones of the queue: identifiers
\* grow along it (GetNextMutationBatch asks for the next greater one).
LEMMA AfterHead ==
    ASSUME NEW p \in Seq(Batch), NEW q \in Seq(Batch), Ordered(q), IsHead(p, q)
    PROVE  After(q, IF p = << >> THEN 0 ELSE p[Len(p)].id) = SubSeq(q, Len(p) + 1, Len(q))
  <1> DEFINE id == IF p = << >> THEN 0 ELSE p[Len(p)].id
             Cut(n) == \A i \in DOMAIN q : q[i].id <= id <=> i <= n
  <1>1. /\ Len(p) \in Nat /\ Len(q) \in Nat /\ Len(p) <= Len(q) /\ DOMAIN q = 1..Len(q)
        /\ \A i \in DOMAIN q : q[i].id \in Nat \ {0}
    <2>1. \A b \in Batch : b.id \in Nat \ {0}
      BY DEF Batch
    <2>2. \A i \in DOMAIN q : q[i] \in Batch
      OBVIOUS
    <2> QED
      BY <2>1, <2>2 DEF IsHead
  <1>2. ASSUME NEW i \in DOMAIN q
        PROVE  q[i].id <= id <=> i <= Len(p)
    <2>1. CASE p = << >>
      BY <1>1, <2>1
    <2>2. CASE p # << >>
      <3>1. Len(p) \in 1..Len(p) /\ Len(p) \in DOMAIN q
        BY <1>1, <2>2
      <3>2. id = q[Len(p)].id
        BY <2>2, <3>1 DEF IsHead
      <3>3. i < Len(p) => q[i].id < q[Len(p)].id
        BY <3>1 DEF Ordered
      <3>4. Len(p) < i => q[Len(p)].id < q[i].id
        BY <3>1 DEF Ordered
      <3> QED
        BY <1>1, <3>1, <3>2, <3>3, <3>4
    <2> QED
      BY <2>1, <2>2
  <1>3. Len(p) \in 0..Len(q) /\ Cut(Len(p))
    BY <1>1, <1>2
  <1>4. ASSUME NEW n \in 0..Len(q), Cut(n)
        PROVE  n = Len(p)
    <2>1. n < Len(p) => n + 1 \in DOMAIN q /\ n + 1 <= Len(p)
      BY <1>1
    <2>2. Len(p) < n => n \in DOMAIN q
      BY <1>1
    <2> QED
      BY <1>1, <1>3, <1>4, <2>1, <2>2
  <1>5. (CHOOSE n \in 0..Len(q) : Cut(n)) = Len(p)
    <2> HIDE DEF Cut
    <2> QED
      BY <1>3, <1>4
  <1> QED
    BY <1>5 DEF After

\* FillWritePipeline makes of any head of the queue the longest that is allowed.
LEMMA FilledHead ==
    ASSUME NEW p \in Seq(Batch), NEW q \in Seq(Batch), Ordered(q), IsHead(p, q)
    PROVE  /\ NextBatches(p, q) \in Seq(Batch)
           /\ p \o NextBatches(p, q) = FirstBatches(q)
  <1> DEFINE rest == SubSeq(q, Len(p) + 1, Len(q))
             room == kMaxPendingWrites - Len(p)
             k == IF Len(rest) <= room THEN Len(rest) ELSE room
             n == IF Len(q) <= kMaxPendingWrites THEN Len(q) ELSE kMaxPendingWrites
             next == SubSeq(rest, 1, k)
  <1>1. NextBatches(p, q) = next
    BY AfterHead DEF NextBatches
  <1>2. /\ Len(p) \in Nat /\ Len(q) \in Nat /\ Len(p) <= Len(q) /\ room \in Nat
        /\ \A i \in 1..Len(q) : q[i] \in Batch
    BY DEF IsHead
  <1>3. /\ rest \in Seq(Batch) /\ Len(rest) = Len(q) - Len(p)
        /\ \A i \in 1..Len(rest) : rest[i] = q[Len(p) + i]
    <2>1. Len(p) + 1 \in Int /\ Len(q) \in Int /\ \A i \in (Len(p) + 1)..Len(q) : q[i] \in Batch
      BY <1>2
    <2>2. /\ rest \in Seq(Batch)
          /\ Len(rest) = IF Len(p) + 1 <= Len(q) THEN Len(q) - (Len(p) + 1) + 1 ELSE 0
          /\ \A i \in 1..(Len(q) - (Len(p) + 1) + 1) : rest[i] = q[Len(p) + 1 + i - 1]
      BY <2>1, SubSeqProperties
    <2> HIDE DEF rest
    <2> QED
      BY <1>2, <2>2
  <1> HIDE DEF rest
  <1>4. k \in Nat /\ k <= Len(rest) /\ Len(p) + k = n
    BY <1>2, <1>3
  <1>5. /\ next \in Seq(Batch) /\ Len(next) = k
        /\ \A i \in 1..k : next[i] = q[Len(p) + i]
    <2> HIDE DEF k
    <2>1. 1 \in Int /\ k \in Int /\ \A i \in 1..k : rest[i] \in Batch
      BY <1>3, <1>4
    <2>2. /\ next \in Seq(Batch) /\ Len(next) = IF 1 <= k THEN k - 1 + 1 ELSE 0
          /\ \A i \in 1..(k - 1 + 1) : next[i] = rest[1 + i - 1]
      BY <2>1, SubSeqProperties
    <2>3. Len(next) = k /\ \A i \in 1..k : next[i] = rest[i]
      BY <1>4, <2>2
    <2>4. \A i \in 1..k : rest[i] = q[Len(p) + i]
      BY <1>3, <1>4
    <2> QED
      BY <2>2, <2>3, <2>4
  <1> HIDE DEF next, k
  <1>6. /\ p \o next \in Seq(Batch) /\ Len(p \o next) = n
        /\ \A i \in 1..n : (p \o next)[i] = q[i]
    <2> HIDE DEF n
    <2>1. /\ p \o next \in Seq(Batch) /\ Len(p \o next) = n
          /\ \A i \in 1..n : (p \o next)[i] = IF i <= Len(p) THEN p[i] ELSE next[i - Len(p)]
      BY <1>4, <1>5, ConcatProperties
    <2>2. ASSUME NEW i \in 1..n
          PROVE  (p \o next)[i] = q[i]
      <3>1. CASE i <= Len(p)
        BY <1>2, <2>1, <3>1 DEF IsHead
      <3>2. CASE ~(i <= Len(p))
        <4>1. i - Len(p) \in 1..k /\ Len(p) + (i - Len(p)) = i
          BY <1>2, <1>4, <3>2
        <4>2. next[i - Len(p)] = q[i]
          BY <1>5, <4>1
        <4> QED
          BY <2>1, <3>2, <4>2
      <3> QED
        BY <3>1, <3>2
    <2> QED
      BY <2>1, <2>2
  <1>7. /\ FirstBatches(q) \in Seq(Batch) /\ Len(FirstBatches(q)) = n
        /\ \A i \in 1..n : FirstBatches(q)[i] = q[i]
    <2>1. n \in Nat /\ n <= Len(q)
      BY <1>2
    <2>2. 1 \in Int /\ n \in Int /\ \A i \in 1..n : q[i] \in Batch
      BY <1>2, <2>1
    <2>3. FirstBatches(q) = SubSeq(q, 1, n)
      BY DEF FirstBatches
    <2> HIDE DEF n
    <2>4. /\ SubSeq(q, 1, n) \in Seq(Batch) /\ Len(SubSeq(q, 1, n)) = IF 1 <= n THEN n - 1 + 1 ELSE 0
          /\ \A i \in 1..(n - 1 + 1) : SubSeq(q, 1, n)[i] = q[1 + i - 1]
      BY <2>2, SubSeqProperties
    <2> QED
      BY <2>1, <2>3, <2>4
  <1> HIDE DEF n
  <1> QED
    BY <1>1, <1>5, <1>6, <1>7, SeqEqual

\* The first batch of a queue is the one that is removed when it is named.
LEMMA RemovedFirst ==
    ASSUME NEW q \in Seq(Batch), Ordered(q), q # << >>
    PROVE  /\ Removed(q, q[1].id) = Tail(q)
           /\ Tail(q) \in Seq(Batch) /\ Len(Tail(q)) = Len(q) - 1
           /\ \A i \in DOMAIN Tail(q) : i + 1 \in DOMAIN q /\ Tail(q)[i] = q[i + 1]
           /\ Ordered(Tail(q))
  <1>1. /\ Len(q) \in Nat \ {0} /\ DOMAIN q = 1..Len(q) /\ 1 \in DOMAIN q
        /\ \A i \in DOMAIN q : q[i].id \in Nat
    <2>1. \A b \in Batch : b.id \in Nat
      BY DEF Batch
    <2>2. \A i \in DOMAIN q : q[i] \in Batch
      OBVIOUS
    <2> QED
      BY <2>1, <2>2
  <1>2. \A i \in DOMAIN q : q[i].id = q[1].id => i = 1
    BY <1>1 DEF Ordered
  <1> DEFINE n == CHOOSE i \in DOMAIN q : q[i].id = q[1].id
  <1>3. n = 1
    BY <1>1, <1>2
  <1>4. Removed(q, q[1].id) = SubSeq(q, 1, 0) \o SubSeq(q, 2, Len(q))
    <2>1. Removed(q, q[1].id) = SubSeq(q, 1, n - 1) \o SubSeq(q, n + 1, Len(q))
      BY DEF Removed
    <2> HIDE DEF n
    <2>2. n - 1 = 0 /\ n + 1 = 2
      BY <1>3
    <2> QED
      BY <2>1, <2>2
  <1>5. SubSeq(q, 1, 0) = << >> /\ SubSeq(q, 2, Len(q)) = Tail(q)
    <2>1. 1 \in Int /\ 0 \in Int /\ 0 < 1
      OBVIOUS
    <2>2. SubSeq(q, 1, 0) = << >>
      BY <2>1, SubSeqEmpty
    <2> QED
      BY <2>2, TailIsSubSeq
  <1>6. /\ Tail(q) \in Seq(Batch) /\ Len(Tail(q)) = Len(q) - 1
        /\ \A i \in 1..Len(Tail(q)) : Tail(q)[i] = q[i + 1]
    BY HeadTailProperties
  <1>7. << >> \o Tail(q) = Tail(q)
    BY <1>6, ConcatEmptySeq
  <1>8. \A i \in DOMAIN Tail(q) : i + 1 \in DOMAIN q /\ Tail(q)[i] = q[i + 1]
    BY <1>1, <1>6
  <1>9. Ordered(Tail(q))
    BY SMTT(60), <1>1, <1>6, <1>8 DEF Ordered
  <1> QED
    BY <1>4, <1>5, <1>6, <1>7, <1>8, <1>9

\* Popping the pipeline goes with popping the queue.
LEMMA PoppedHead ==
    ASSUME NEW p \in Seq(Batch), NEW q \in Seq(Batch), Ordered(q), IsHead(p, q), p # << >>
    PROVE  /\ q # << >> /\ Head(p) = q[1] /\ Head(p) \in Batch
           /\ Tail(p) \in Seq(Batch) /\ Len(Tail(p)) = Len(p) - 1
           /\ IsHead(Tail(p), Tail(q))
  <1>1. /\ Len(p) \in Nat \ {0} /\ Len(q) \in Nat /\ Len(p) <= Len(q) /\ 1 \in 1..Len(p)
        /\ Len(p) <= kMaxPendingWrites
    BY DEF IsHead
  <1>2. q # << >> /\ Head(p) = q[1]
    BY <1>1 DEF IsHead
  <1>3. /\ Head(p) \in Batch
        /\ Tail(p) \in Seq(Batch) /\ Len(Tail(p)) = Len(p) - 1
        /\ \A i \in 1..Len(Tail(p)) : Tail(p)[i] = p[i + 1]
    BY HeadTailProperties
  <1>4. /\ Len(Tail(q)) = Len(q) - 1
        /\ \A i \in 1..Len(Tail(q)) : Tail(q)[i] = q[i + 1]
    BY <1>2, HeadTailProperties
  <1>5. \A i \in 1..Len(Tail(p)) : Tail(p)[i] = Tail(q)[i]
    BY <1>1, <1>3, <1>4 DEF IsHead
  <1> QED
    BY <1>1, <1>2, <1>3, <1>4, <1>5 DEF IsHead

(***************************************************************************)
(* FillWritePipeline.                                                      *)
(***************************************************************************)
\* A stream that may stand beside the pipeline p and the tokens asked for.
StreamFits(s, p) ==
    /\ s \in Stream
    /\ tokens \in SUBSET Nat
    /\ \A c \in tokens : c <= s.closeCount
    /\ s.closeCount \in tokens => s.state = "Starting" /\ ~s.grpc
    /\ s.grpc => s.state \in {"Starting", "Open"}
    /\ s.idle => s.state = "Open" /\ p = << >>
    /\ s.handshakeComplete => s.state = "Open"

\* The pipeline becomes the head of the queue, what was added is sent if anything may be
\* sent, and the stream is started if it is needed.
LEMMA FillStep ==
    ASSUME NEW p \in Seq(Batch), NEW q \in Seq(Batch), NEW s, NEW w \in Seq(Batch),
           Ordered(q), IsHead(p, q), StreamFits(s, p), FillWritePipeline(p, q, s, w)
    PROVE  /\ pipeline' = FirstBatches(q) /\ pipeline' = p \o NextBatches(p, q)
           /\ pipeline' \in Seq(Batch) /\ NextBatches(p, q) \in Seq(Batch)
           /\ wire' = IF Sending(s) THEN w \o NextBatches(p, q) ELSE w
           /\ wire' \in Seq(Batch)
           /\ stream'.handshakeComplete = s.handshakeComplete
           /\ stream'.handshakeComplete => stream'.state = "Open"
           /\ stream' \in Stream /\ tokens' \in SUBSET Nat /\ StreamSound'
  <1> DEFINE added == NextBatches(p, q)
             full == p \o added
             quiet == s.state = "Open" /\ (full = << >> \/ (s.idle /\ added = << >>))
             checked == [s EXCEPT !.idle = quiet]
             restarted == IF full # << >> /\ ~IsStarted(s) THEN Started(checked) ELSE checked
  <1>1. /\ pipeline' = full
        /\ wire' = IF Sending(s) THEN w \o added ELSE w
        /\ stream' = restarted
        /\ tokens' = IF IsStarted(s) THEN tokens ELSE Asked(restarted, tokens)
    BY DEF FillWritePipeline
  <1>2. added \in Seq(Batch) /\ full = FirstBatches(q) /\ full \in Seq(Batch)
    BY FilledHead, FirstBatchesHead
  <1>3. w \o added \in Seq(Batch)
    BY <1>2
  <1>4. quiet => s.state = "Open" /\ full = << >>
    <2>1. p = << >> /\ added = << >> => full = << >>
      BY <1>2
    <2> QED
      BY <2>1 DEF StreamFits
  <1>5. quiet \in BOOLEAN
    OBVIOUS
  <1> HIDE DEF added, full, quiet
  <1>6. /\ checked \in Stream
        /\ checked.state = s.state /\ checked.grpc = s.grpc /\ checked.closeCount = s.closeCount
        /\ checked.handshakeComplete = s.handshakeComplete /\ checked.idle = quiet
    BY <1>5 DEF StreamFits, Stream
  <1>7. CASE IsStarted(s)
    <2>1. stream' = checked /\ tokens' = tokens
      BY <1>1, <1>7
    <2> HIDE DEF checked
    <2>2. StreamSound'
      BY <1>1, <1>4, <1>6, <1>7, <2>1 DEF StreamSound, StreamFits, IsStarted
    <2> QED
      BY <1>1, <1>2, <1>3, <1>6, <2>1, <2>2 DEF StreamFits, added, full
  <1>8. CASE ~IsStarted(s)
    <2> HIDE DEF checked
    <2>1. s.state \in {"Initial", "Error"} /\ ~s.grpc /\ s.closeCount \notin tokens
          /\ ~s.handshakeComplete /\ ~quiet
      BY <1>4, <1>8 DEF StreamFits, Stream, StreamState, IsStarted
    <2>2. CASE full # << >>
      <3>1. stream' = Started(checked) /\ tokens' = Asked(stream', tokens)
        BY <1>1, <1>8, <2>2
      <3>2. /\ stream' \in Stream /\ stream'.state \in {"Backoff", "Starting"}
            /\ stream'.grpc = checked.grpc /\ stream'.closeCount = checked.closeCount
            /\ stream'.handshakeComplete = checked.handshakeComplete /\ stream'.idle = checked.idle
        BY <1>6, <3>1 DEF Started, Stream, StreamState
      <3>3. /\ tokens' \in SUBSET Nat
            /\ \A c \in tokens' : c \in tokens \/ (c = stream'.closeCount /\ stream'.state = "Starting")
        BY <3>1, <3>2 DEF Asked, Stream, StreamFits
      <3>4. StreamSound'
        BY <1>6, <2>1, <3>2, <3>3 DEF StreamSound, StreamFits, IsStarted, Stream
      <3> QED
        BY <1>1, <1>2, <1>3, <1>6, <2>1, <3>2, <3>3, <3>4 DEF added, full
    <2>3. CASE full = << >>
      <3>1. stream' = checked /\ tokens' = tokens
        BY <1>1, <2>1, <1>6, <2>3 DEF Asked
      <3>2. StreamSound'
        BY <1>1, <1>6, <2>1, <2>3, <3>1 DEF StreamSound, StreamFits
      <3> QED
        BY <1>1, <1>2, <1>3, <1>6, <2>1, <3>1, <3>2 DEF StreamFits, added, full
    <2> QED
      BY <2>2, <2>3
  <1> QED
    BY <1>7, <1>8

(***************************************************************************)
(* Answers and the pipeline.                                               *)
(***************************************************************************)
Response == [batch : Batch, version : Nat]

\* What CorrelatedAnswers says of an open connection.
Matches(a, w, r, p) ==
    /\ Len(a) <= Len(p)
    /\ \A i \in DOMAIN a : a[i].batch = p[i]
    /\ r # << >> => Len(a) < Len(p) /\ r = <<p[Len(a) + 1]>>
    /\ r = << >> => /\ Len(a) + Len(w) = Len(p)
                    /\ \A i \in DOMAIN w : w[i] = p[Len(a) + i]

\* Requests that are added to both ends match.
LEMMA MatchesGrows ==
    ASSUME NEW a \in Seq(Response), NEW w \in Seq(Batch), NEW r, NEW p \in Seq(Batch),
           NEW added \in Seq(Batch), Matches(a, w, r, p)
    PROVE  Matches(a, w \o added, r, p \o added)
  <1>1. /\ Len(p \o added) = Len(p) + Len(added) /\ Len(w \o added) = Len(w) + Len(added)
        /\ Len(a) \in Nat /\ Len(p) \in Nat /\ Len(w) \in Nat /\ Len(added) \in Nat
        /\ DOMAIN a = 1..Len(a) /\ DOMAIN (w \o added) = 1..(Len(w) + Len(added))
        /\ DOMAIN w = 1..Len(w)
    OBVIOUS
  <1>2. \A i \in 1..Len(p) : (p \o added)[i] = p[i]
    BY ConcatProperties
  <1>3. \A i \in 1..(Len(p) + Len(added)) :
            (p \o added)[i] = IF i <= Len(p) THEN p[i] ELSE added[i - Len(p)]
    BY ConcatProperties
  <1>4. \A i \in 1..(Len(w) + Len(added)) :
            (w \o added)[i] = IF i <= Len(w) THEN w[i] ELSE added[i - Len(w)]
    BY ConcatProperties
  <1>5. Len(a) <= Len(p \o added) /\ \A i \in DOMAIN a : a[i].batch = (p \o added)[i]
    BY <1>1, <1>2 DEF Matches
  <1>6. r # << >> => Len(a) < Len(p \o added) /\ r = <<(p \o added)[Len(a) + 1]>>
    <2>1. r # << >> => Len(a) + 1 \in 1..Len(p)
      BY <1>1 DEF Matches
    <2> QED
      BY <1>1, <1>2, <2>1 DEF Matches
  <1>7. ASSUME r = << >>
        PROVE  /\ Len(a) + Len(w \o added) = Len(p \o added)
               /\ \A i \in DOMAIN (w \o added) : (w \o added)[i] = (p \o added)[Len(a) + i]
    <2>0. Len(a) + Len(w) = Len(p)
      BY <1>7 DEF Matches
    <2>1. \A i \in 1..Len(w) : w[i] = p[Len(a) + i]
      BY <1>1, <1>7 DEF Matches
    <2>2. ASSUME NEW i \in 1..(Len(w) + Len(added))
          PROVE  (w \o added)[i] = (p \o added)[Len(a) + i]
      <3>1. CASE i <= Len(w)
        <4>1. i \in 1..Len(w) /\ Len(a) + i \in 1..Len(p)
          BY <1>1, <2>0, <3>1
        <4>2. (p \o added)[Len(a) + i] = p[Len(a) + i]
          BY <1>2, <4>1
        <4>3. (w \o added)[i] = w[i]
          BY <1>4, <3>1
        <4> QED
          BY <2>1, <4>1, <4>2, <4>3
      <3>2. CASE ~(i <= Len(w))
        <4>1. /\ Len(a) + i \in 1..(Len(p) + Len(added)) /\ ~(Len(a) + i <= Len(p))
              /\ (Len(a) + i) - Len(p) = i - Len(w)
          <5>1. Len(a) \in Nat /\ Len(p) \in Nat /\ Len(w) \in Nat /\ Len(added) \in Nat
            BY <1>1
          <5> QED
            BY ONLY SMTT(60), <5>1, <2>0, <3>2, i \in 1..(Len(w) + Len(added))
        <4>2. (p \o added)[Len(a) + i] = added[(Len(a) + i) - Len(p)]
          BY <1>3, <4>1
        <4>3. (w \o added)[i] = added[i - Len(w)]
          BY <1>4, <3>2
        <4> QED
          BY <4>1, <4>2, <4>3
      <3> QED
        BY <3>1, <3>2
    <2>3. Len(a) + Len(w \o added) = Len(p \o added)
      <3>1. \A i, j, k, n \in Nat : i + j = k => i + (j + n) = k + n
        OBVIOUS
      <3>2. /\ Len(a) \in Nat /\ Len(w) \in Nat /\ Len(p) \in Nat /\ Len(added) \in Nat
            /\ Len(w \o added) = Len(w) + Len(added) /\ Len(p \o added) = Len(p) + Len(added)
        BY <1>1, ConcatProperties
      <3>3. Len(a) + (Len(w) + Len(added)) = Len(p) + Len(added)
        BY <2>0, <3>2
      <3> QED
        BY <3>2, <3>3, Zenon
    <2> QED
      BY <1>1, <2>2, <2>3
  <1> QED
    BY <1>5, <1>6, <1>7 DEF Matches

\* The first response is the one of the first batch, and without the two the rest match.
LEMMA MatchesPopped ==
    ASSUME NEW a \in Seq(Response), NEW w \in Seq(Batch), NEW r, NEW p \in Seq(Batch),
           a # << >>, Matches(a, w, r, p)
    PROVE  p # << >> /\ Head(a).batch = Head(p) /\ Matches(Tail(a), w, r, Tail(p))
  <1>1. /\ Len(a) \in Nat \ {0} /\ Len(p) \in Nat /\ Len(w) \in Nat /\ Len(a) <= Len(p)
        /\ DOMAIN a = 1..Len(a) /\ DOMAIN w = 1..Len(w)
    BY DEF Matches
  <1>2. p # << >>
    BY <1>1
  <1>3. /\ Head(a) = a[1] /\ Tail(a) \in Seq(Response) /\ Len(Tail(a)) = Len(a) - 1
        /\ \A i \in 1..Len(Tail(a)) : Tail(a)[i] = a[i + 1]
    BY HeadTailProperties
  <1>4. /\ Head(p) = p[1] /\ Tail(p) \in Seq(Batch) /\ Len(Tail(p)) = Len(p) - 1
        /\ \A i \in 1..Len(Tail(p)) : Tail(p)[i] = p[i + 1]
    BY <1>2, HeadTailProperties
  <1>5. DOMAIN Tail(a) = 1..Len(Tail(a))
    BY <1>3
  <1>6. Head(a).batch = Head(p)
    <2>1. 1 \in DOMAIN a /\ Head(a) = a[1] /\ Head(p) = p[1]
      BY <1>1, <1>3, <1>4
    <2> QED
      BY <2>1 DEF Matches
  <1>7. ASSUME NEW i \in 1..Len(Tail(a))
        PROVE  Tail(a)[i].batch = Tail(p)[i]
    <2>1. i + 1 \in DOMAIN a /\ i \in 1..Len(Tail(p))
      BY <1>1, <1>3, <1>4
    <2>2. a[i + 1].batch = p[i + 1]
      BY <2>1 DEF Matches
    <2> QED
      BY <1>3, <1>4, <2>1, <2>2
  <1>8. ASSUME r # << >>
        PROVE  Len(Tail(a)) < Len(Tail(p)) /\ r = <<Tail(p)[Len(Tail(a)) + 1]>>
    <2>1. Len(a) < Len(p) /\ r = <<p[Len(a) + 1]>>
      BY <1>8 DEF Matches
    <2>2. Len(a) \in 1..Len(Tail(p)) /\ Len(Tail(a)) + 1 = Len(a)
      BY <1>1, <1>3, <1>4, <2>1
    <2>3. Tail(p)[Len(a)] = p[Len(a) + 1]
      BY <1>4, <2>2
    <2> QED
      BY <1>1, <1>3, <1>4, <2>1, <2>2, <2>3
  <1>9. ASSUME r = << >>
        PROVE  /\ Len(Tail(a)) + Len(w) = Len(Tail(p))
               /\ \A i \in DOMAIN w : w[i] = Tail(p)[Len(Tail(a)) + i]
    <2>0. Len(a) + Len(w) = Len(p)
      BY <1>9 DEF Matches
    <2>1. \A i \in 1..Len(w) : w[i] = p[Len(a) + i]
      BY <1>1, <1>9 DEF Matches
    <2>2. ASSUME NEW i \in 1..Len(w)
          PROVE  w[i] = Tail(p)[Len(Tail(a)) + i]
      <3>1. /\ Len(Tail(a)) + i \in 1..Len(Tail(p))
            /\ (Len(Tail(a)) + i) + 1 = Len(a) + i
        BY <1>1, <1>3, <1>4, <2>0
      <3>2. Tail(p)[Len(Tail(a)) + i] = p[(Len(Tail(a)) + i) + 1]
        BY <1>4, <3>1
      <3> QED
        BY <2>1, <3>1, <3>2
    <2>3. Len(Tail(a)) + Len(w) = Len(Tail(p))
      <3>1. Len(Tail(a)) = Len(a) - 1 /\ Len(Tail(p)) = Len(p) - 1
        BY <1>3, <1>4
      <3>2. Len(a) \in Nat /\ Len(p) \in Nat /\ Len(w) \in Nat
        BY <1>1
      <3> QED
        BY <2>0, <3>1, <3>2
    <2> QED
      BY <1>1, <2>2, <2>3
  <1>10. Len(Tail(a)) <= Len(Tail(p))
    BY <1>1, <1>3, <1>4
  <1> QED
    BY <1>2, <1>5, <1>6, <1>7, <1>8, <1>9, <1>10 DEF Matches

(***************************************************************************)
(* What the invariant says, in the terms of the lemmas.                    *)
(***************************************************************************)
\* The pipeline is under way of the queue, the stream fits it, and an open connection
\* belongs to a process that runs.
LEMMA Facts ==
    ASSUME ClientInv
    PROVE  /\ queue \in Seq(Batch) /\ Ordered(queue) /\ pipeline \in Seq(Batch)
           /\ wire \in Seq(Batch) /\ acks \in Seq(Response) /\ refused \in Seq(Batch)
           /\ IsHead(pipeline, queue)
           /\ StreamFits(stream, pipeline)
           /\ stream.handshakeComplete => /\ running /\ stream.state = "Open"
                                          /\ Matches(acks, wire, refused, pipeline)
           /\ ~stream.handshakeComplete => wire = << >> /\ acks = << >> /\ refused = << >>
  <1>1. /\ queue \in Seq(Batch) /\ Ordered(queue) /\ pipeline \in Seq(Batch)
        /\ wire \in Seq(Batch) /\ acks \in Seq(Response) /\ refused \in Seq(Batch)
    BY DEF ClientInv, TypeOK, QueueOrdered, Response
  <1>2. IsHead(pipeline, queue)
    <2>1. CASE running
      BY <1>1, <2>1, FirstBatchesHead DEF ClientInv, PipelineIsHead
    <2>2. CASE ~running
      <3>1. pipeline = << >> /\ Len(pipeline) = 0
        BY <2>2 DEF ClientInv, NothingRuns
      <3> QED
        BY <1>1, <3>1 DEF IsHead
    <2> QED
      BY <2>1, <2>2
  <1>3. StreamFits(stream, pipeline)
    BY DEF ClientInv, TypeOK, StreamSound, ConnectionQuiet, StreamFits
  <1>4. stream.handshakeComplete => running
    BY DEF ClientInv, NothingRuns, NewStream
  <1>5. stream.handshakeComplete => Matches(acks, wire, refused, pipeline)
    BY DEF ClientInv, CorrelatedAnswers, Matches
  <1> QED
    BY <1>1, <1>2, <1>3, <1>4, <1>5 DEF ClientInv, ConnectionQuiet

\* A stream that is closed fits any pipeline.
LEMMA ClosedFits ==
    ASSUME StreamFits(stream, pipeline), NEW p, NEW state \in {"Initial", "Error"}
    PROVE  /\ StreamFits(Closed(stream, state), p)
           /\ StreamFits(Backoff_Inhibited(Closed(stream, state)), p)
           /\ ~Closed(stream, state).handshakeComplete
           /\ ~Backoff_Inhibited(Closed(stream, state)).handshakeComplete
  <1> DEFINE s == Closed(stream, state)
             b == Backoff_Inhibited(s)
  <1>1. stream \in Stream /\ stream.closeCount \in Nat
    BY DEF StreamFits, Stream
  <1>2. /\ s \in Stream /\ s.state = state /\ ~s.grpc /\ ~s.handshakeComplete /\ ~s.idle
        /\ s.closeCount = stream.closeCount + 1
    <2>1. s = [stream EXCEPT !.state = state, !.grpc = FALSE, !.handshakeComplete = FALSE,
                             !.idle = FALSE, !.closeCount = stream.closeCount + 1]
      BY DEF Closed
    <2>2. stream.closeCount + 1 \in Nat /\ state \in StreamState
      BY <1>1 DEF StreamState
    <2> DEFINE k == stream.closeCount + 1
    <2> HIDE DEF s, k
    <2>3. s = [stream EXCEPT !.state = state, !.grpc = FALSE, !.handshakeComplete = FALSE,
                             !.idle = FALSE, !.closeCount = k]
      BY <2>1 DEF k
    <2>4. k \in Nat
      BY <2>2 DEF k
    <2> QED
      BY <1>1, <2>2, <2>3, <2>4 DEF Stream, k
  <1> HIDE DEF s
  <1>3. /\ b \in Stream /\ b.state = "Initial" /\ ~b.grpc /\ ~b.handshakeComplete /\ ~b.idle
        /\ b.closeCount = stream.closeCount + 1
    BY <1>1, <1>2 DEF Backoff_Inhibited, Stream, StreamState
  <1>4. \A c \in tokens : c \in Nat /\ c < stream.closeCount + 1
    BY <1>1 DEF StreamFits
  <1>5. stream.closeCount + 1 \notin tokens
    BY <1>1, <1>4
  <1> HIDE DEF b
  <1>6. StreamFits(s, p)
    BY <1>1, <1>2, <1>4, <1>5 DEF StreamFits
  <1>7. StreamFits(b, p)
    BY <1>1, <1>3, <1>4, <1>5 DEF StreamFits
  <1> QED
    BY <1>2, <1>3, <1>6, <1>7 DEF s, b

\* When the pipeline is filled, what is said of it and of the connection holds after it.
LEMMA FillKeeps ==
    ASSUME NEW p \in Seq(Batch), NEW q \in Seq(Batch), NEW s, NEW w \in Seq(Batch),
           NEW a \in Seq(Response), NEW r,
           Ordered(q), IsHead(p, q), StreamFits(s, p), FillWritePipeline(p, q, s, w),
           s.handshakeComplete => Matches(a, w, r, p),
           ~s.handshakeComplete => w = << >> /\ a = << >> /\ r = << >>,
           queue' = q, acks' = a, refused' = r, running' = TRUE
    PROVE  /\ pipeline' \in Seq(Batch) /\ wire' \in Seq(Batch)
           /\ stream' \in Stream /\ tokens' \in SUBSET Nat
           /\ PipelineIsHead' /\ CorrelatedAnswers' /\ ConnectionQuiet' /\ StreamSound'
           /\ NothingRuns'
  <1>1. /\ pipeline' = FirstBatches(q) /\ pipeline' = p \o NextBatches(p, q)
        /\ pipeline' \in Seq(Batch) /\ NextBatches(p, q) \in Seq(Batch)
        /\ wire' = IF Sending(s) THEN w \o NextBatches(p, q) ELSE w
        /\ wire' \in Seq(Batch)
        /\ stream'.handshakeComplete = s.handshakeComplete
        /\ stream'.handshakeComplete => stream'.state = "Open"
        /\ stream' \in Stream /\ tokens' \in SUBSET Nat /\ StreamSound'
    BY FillStep
  <1>2. Sending(s) <=> s.handshakeComplete
    BY DEF Sending, StreamFits
  <1>3. PipelineIsHead'
    BY <1>1 DEF PipelineIsHead, FirstBatches
  <1>4. CorrelatedAnswers'
    <2>1. SUFFICES ASSUME s.handshakeComplete
                   PROVE  Matches(acks', wire', refused', pipeline')
      BY <1>1 DEF CorrelatedAnswers, Matches
    <2>2. Matches(a, w \o NextBatches(p, q), r, p \o NextBatches(p, q))
      BY <1>1, <2>1, MatchesGrows
    <2> QED
      BY <1>1, <1>2, <2>1, <2>2
  <1>5. ConnectionQuiet'
    BY <1>1, <1>2 DEF ConnectionQuiet
  <1>6. NothingRuns'
    BY DEF NothingRuns
  <1> QED
    BY <1>1, <1>3, <1>4, <1>5, <1>6

(***************************************************************************)
(* The actions that fill the pipeline.                                     *)
(***************************************************************************)
\* SyncEngine::WriteMutations: the new identifier is greater than the ones on disk.
LEMMA WriteKeeps ==
    ASSUME ClientInv, NEW patch \in Patches, Write(patch)
    PROVE  ClientInv'
  <1> DEFINE batch == [id |-> nextBatchId, patch |-> patch]
             q == Append(queue, batch)
  <1>1. batch \in Batch /\ batch.id = nextBatchId
    BY DEF ClientInv, TypeOK, Batch
  <1>2. \A b \in Batch : b.id \in Nat
    BY DEF Batch
  <1>3. /\ running /\ running' = TRUE /\ queue' = q /\ nextBatchId' = nextBatchId + 1
        /\ FillWritePipeline(pipeline, q, stream, wire)
        /\ acks' = acks /\ refused' = refused
    BY DEF Write, ClientInv, TypeOK
  <1> HIDE DEF batch
  <1>4. /\ q \in Seq(Batch) /\ Len(q) = Len(queue) + 1
        /\ \A i \in 1..Len(queue) : q[i] = queue[i]
        /\ q[Len(queue) + 1] = batch
    BY <1>1, Facts, AppendProperties
  <1>5. /\ Len(queue) \in Nat /\ DOMAIN queue = 1..Len(queue) /\ DOMAIN q = 1..(Len(queue) + 1)
        /\ \A i \in DOMAIN queue : queue[i] \in Batch
    BY <1>4, Facts
  <1>6. \A i \in 1..Len(queue) : queue[i].id \in Nat /\ queue[i].id < nextBatchId
    BY <1>2, <1>3, <1>5 DEF ClientInv, QueueOrdered
  <1> HIDE DEF q
  <1>7. nextBatchId \in Nat
    BY DEF ClientInv, TypeOK
  <1>8. ASSUME NEW i \in DOMAIN q
        PROVE  /\ q[i].id \in Nat /\ q[i].id < nextBatchId + 1
               /\ i # Len(queue) + 1 => i \in 1..Len(queue) /\ q[i] = queue[i]
    <2>1. CASE i = Len(queue) + 1
      BY <1>1, <1>4, <1>7, <2>1
    <2>2. CASE i # Len(queue) + 1
      BY <1>4, <1>5, <1>6, <1>7, <2>2
    <2> QED
      BY <2>1, <2>2
  <1>9. Ordered(q)
    <2>1. SUFFICES ASSUME NEW i \in DOMAIN q, NEW j \in DOMAIN q, i < j
                   PROVE  q[i].id < q[j].id
      BY DEF Ordered
    <2>2. i \in 1..Len(queue) /\ q[i] = queue[i]
      BY <1>5, <1>8, <2>1
    <2>3. CASE j = Len(queue) + 1
      BY <1>1, <1>4, <1>6, <2>2, <2>3
    <2>4. CASE j # Len(queue) + 1
      BY <1>5, <1>8, <2>1, <2>2, <2>4, Facts DEF Ordered
    <2> QED
      BY <2>3, <2>4
  <1>10. IsHead(pipeline, q)
    <2>1. /\ Len(pipeline) \in Nat /\ Len(pipeline) <= Len(queue) /\ Len(pipeline) <= kMaxPendingWrites
          /\ \A i \in 1..Len(pipeline) : pipeline[i] = queue[i]
      BY Facts DEF IsHead
    <2> QED
      BY <1>4, <1>5, <2>1 DEF IsHead
  <1>11. /\ pipeline' \in Seq(Batch) /\ wire' \in Seq(Batch)
         /\ stream' \in Stream /\ tokens' \in SUBSET Nat
         /\ PipelineIsHead' /\ CorrelatedAnswers' /\ ConnectionQuiet' /\ StreamSound'
         /\ NothingRuns'
    BY <1>3, <1>4, <1>9, <1>10, Facts, FillKeeps
  <1>12. QueueOrdered'
    BY <1>3, <1>8, <1>9 DEF QueueOrdered, Ordered
  <1>13. callbacks' \in SUBSET Nat /\ nextBatchId' \in Nat \ {0} /\ issued' \in 0..MaxWrites
    BY <1>1, <1>2 DEF Write, ClientInv, TypeOK, batch
  <1>14. TypeOK'
    BY <1>3, <1>4, <1>11, <1>13 DEF Write, ClientInv, TypeOK, backend
  <1> QED
    BY <1>11, <1>12, <1>14 DEF ClientInv

\* OnWriteStreamMutationResult: the response belongs to the first of the pipeline, which
\* is the first of the queue.
LEMMA ReceiveResultKeeps ==
    ASSUME ClientInv, ReceiveResult
    PROVE  ClientInv'
  <1>1. /\ acks # << >> /\ stream.handshakeComplete /\ running /\ stream.state = "Open"
        /\ Matches(acks, wire, refused, pipeline)
    BY Facts DEF ReceiveResult
  <1>2. /\ pipeline # << >> /\ Head(acks).batch = Head(pipeline)
        /\ Matches(Tail(acks), wire, refused, Tail(pipeline))
    BY <1>1, Facts, MatchesPopped
  <1>3. /\ queue # << >> /\ Head(pipeline) = queue[1] /\ Head(pipeline) \in Batch
        /\ Tail(pipeline) \in Seq(Batch) /\ IsHead(Tail(pipeline), Tail(queue))
    BY <1>2, Facts, PoppedHead
  <1>4. /\ Removed(queue, Head(pipeline).id) = Tail(queue)
        /\ Tail(queue) \in Seq(Batch) /\ Ordered(Tail(queue))
        /\ \A i \in DOMAIN Tail(queue) : i + 1 \in DOMAIN queue /\ Tail(queue)[i] = queue[i + 1]
    BY <1>3, Facts, RemovedFirst
  <1>5. /\ queue' = Tail(queue) /\ acks' = Tail(acks) /\ refused' = refused /\ running' = TRUE
        /\ FillWritePipeline(Tail(pipeline), Tail(queue), stream, wire)
        /\ nextBatchId' = nextBatchId
    BY <1>1, <1>4 DEF ReceiveResult
  <1>6. /\ Head(acks) \in Response /\ Tail(acks) \in Seq(Response)
    BY <1>1, Facts, HeadTailProperties
  <1>7. StreamFits(stream, Tail(pipeline))
    BY <1>2, Facts DEF StreamFits
  <1>8. /\ pipeline' \in Seq(Batch) /\ wire' \in Seq(Batch)
        /\ stream' \in Stream /\ tokens' \in SUBSET Nat
        /\ PipelineIsHead' /\ CorrelatedAnswers' /\ ConnectionQuiet' /\ StreamSound'
        /\ NothingRuns'
    BY <1>1, <1>2, <1>3, <1>4, <1>5, <1>6, <1>7, Facts, FillKeeps
  <1>9. QueueOrdered'
    BY <1>1, <1>4, <1>5 DEF ClientInv, QueueOrdered, Ordered
  <1>10. Merge(cached.doc, Head(pipeline).patch) \in Documents
    <2>1. Head(pipeline).patch \in Patch /\ cached.doc \in Documents
      BY <1>3 DEF Batch, ClientInv, TypeOK
    <2> QED
      BY <2>1 DEF Merge, Documents, Patch
  <1>11. /\ cached' \in [version : Nat, doc : Documents, committed : BOOLEAN]
         /\ unseen' \in Seq([patch : Patches, version : Nat])
    <2>1. Head(acks).version \in Nat /\ Head(pipeline).patch \in Patches
      BY <1>3, <1>6 DEF Response, Batch
    <2>2. CASE IsNewer(Head(acks).version)
      <3>1. /\ cached' = [version |-> Head(acks).version,
                          doc |-> Merge(cached.doc, Head(pipeline).patch), committed |-> TRUE]
            /\ unseen' = Append(unseen, [patch |-> Head(pipeline).patch,
                                         version |-> Head(acks).version])
        BY <2>2 DEF ReceiveResult
      <3>2. unseen \in Seq([patch : Patches, version : Nat])
        BY DEF ClientInv, TypeOK
      <3> QED
        BY <1>10, <2>1, <3>1, <3>2
    <2>3. CASE ~IsNewer(Head(acks).version)
      BY <2>3 DEF ReceiveResult, ClientInv, TypeOK
    <2> QED
      BY <2>2, <2>3
  <1>12. TypeOK'
    BY <1>4, <1>5, <1>6, <1>8, <1>11 DEF ReceiveResult, ClientInv, TypeOK, backend, Response
  <1> QED
    BY <1>8, <1>9, <1>12 DEF ClientInv

\* HandleWriteError: what is blamed is the first of the pipeline.
LEMMA ReceiveRefusalKeeps ==
    ASSUME ClientInv, ReceiveRefusal
    PROVE  ClientInv'
  <1>1. /\ refused # << >> /\ acks = << >> /\ stream.handshakeComplete /\ running
        /\ Matches(acks, wire, refused, pipeline)
    BY Facts DEF ReceiveRefusal
  <1>2. pipeline # << >>
    <2>1. Len(acks) < Len(pipeline) /\ Len(acks) = 0
      BY <1>1 DEF Matches
    <2> QED
      BY <2>1
  <1>3. /\ queue # << >> /\ Head(pipeline) = queue[1] /\ Head(pipeline) \in Batch
        /\ Tail(pipeline) \in Seq(Batch) /\ IsHead(Tail(pipeline), Tail(queue))
    BY <1>2, Facts, PoppedHead
  <1>4. /\ Removed(queue, Head(pipeline).id) = Tail(queue)
        /\ Tail(queue) \in Seq(Batch) /\ Ordered(Tail(queue))
        /\ \A i \in DOMAIN Tail(queue) : i + 1 \in DOMAIN queue /\ Tail(queue)[i] = queue[i + 1]
    BY <1>3, Facts, RemovedFirst
  <1> DEFINE s == Backoff_Inhibited(Closed(stream, "Error"))
  <1>5. /\ queue' = Tail(queue) /\ acks' = << >> /\ refused' = << >> /\ running' = TRUE
        /\ orphans' = wire
        /\ FillWritePipeline(Tail(pipeline), Tail(queue), s, << >>)
        /\ nextBatchId' = nextBatchId
    BY <1>1, <1>4 DEF ReceiveRefusal, Disconnected
  <1>6. StreamFits(s, Tail(pipeline)) /\ ~s.handshakeComplete
    BY Facts, ClosedFits
  <1> HIDE DEF s
  <1>7. << >> \in Seq(Batch) /\ << >> \in Seq(Response)
    OBVIOUS
  <1>8. /\ pipeline' \in Seq(Batch) /\ wire' \in Seq(Batch)
        /\ stream' \in Stream /\ tokens' \in SUBSET Nat
        /\ PipelineIsHead' /\ CorrelatedAnswers' /\ ConnectionQuiet' /\ StreamSound'
        /\ NothingRuns'
    BY <1>3, <1>4, <1>5, <1>6, <1>7, FillKeeps
  <1>9. QueueOrdered'
    BY <1>1, <1>4, <1>5 DEF ClientInv, QueueOrdered, Ordered
  <1>10. TypeOK'
    BY <1>4, <1>5, <1>7, <1>8 DEF ReceiveRefusal, ClientInv, TypeOK, Response
  <1> QED
    BY <1>8, <1>9, <1>10 DEF ClientInv

\* RestartNetwork: the pipeline is filled anew from the queue.
LEMMA ConnectivityChangesKeeps ==
    ASSUME ClientInv, ConnectivityChanges
    PROVE  ClientInv'
  <1> DEFINE s == Backoff_Inhibited(Stopped(stream))
  <1>1. /\ running /\ queue' = queue /\ acks' = << >> /\ refused' = << >> /\ running' = TRUE
        /\ orphans' = wire
        /\ FillWritePipeline(<< >>, queue, s, << >>)
        /\ nextBatchId' = nextBatchId
    BY DEF ConnectivityChanges, Disconnected, disk
  <1>2. StreamFits(s, << >>) /\ ~s.handshakeComplete
    <2>1. CASE IsStarted(stream)
      BY <2>1, Facts, ClosedFits DEF Stopped
    <2>2. CASE ~IsStarted(stream)
      <3>1. s = [stream EXCEPT !.state = "Initial"]
        BY <2>2 DEF Stopped, Backoff_Inhibited
      <3>2. /\ stream.state \in {"Initial", "Error"} /\ ~stream.grpc /\ ~stream.idle
            /\ ~stream.handshakeComplete /\ stream.closeCount \notin tokens
        BY <2>2, Facts DEF StreamFits, Stream, StreamState, IsStarted
      <3>3. stream \in Stream
        BY Facts DEF StreamFits
      <3> HIDE DEF s
      <3>4. /\ s \in Stream /\ s.state = "Initial" /\ s.grpc = stream.grpc /\ s.idle = stream.idle
            /\ s.handshakeComplete = stream.handshakeComplete /\ s.closeCount = stream.closeCount
        BY <3>1, <3>3 DEF Stream, StreamState
      <3> QED
        BY <3>2, <3>4, Facts DEF StreamFits
    <2> QED
      BY <2>1, <2>2
  <1> HIDE DEF s
  <1>3. /\ << >> \in Seq(Batch) /\ << >> \in Seq(Response) /\ IsHead(<< >>, queue)
    BY Facts DEF IsHead
  <1>4. /\ pipeline' \in Seq(Batch) /\ wire' \in Seq(Batch)
        /\ stream' \in Stream /\ tokens' \in SUBSET Nat
        /\ PipelineIsHead' /\ CorrelatedAnswers' /\ ConnectionQuiet' /\ StreamSound'
        /\ NothingRuns'
    BY <1>1, <1>2, <1>3, Facts, FillKeeps
  <1>5. QueueOrdered'
    BY <1>1 DEF ClientInv, QueueOrdered, Ordered
  <1>6. TypeOK'
    BY <1>1, <1>3, <1>4 DEF ConnectivityChanges, ClientInv, TypeOK, disk, Response
  <1> QED
    BY <1>4, <1>5, <1>6 DEF ClientInv

\* EnableNetwork: the next identifier is read back from the queue on disk.
LEMMA StartKeeps ==
    ASSUME ClientInv, Start
    PROVE  ClientInv'
  <1>1. /\ ~running /\ queue' = queue /\ running' = TRUE
        /\ FillWritePipeline(<< >>, queue, stream, << >>)
        /\ nextBatchId' = IF queue = << >> THEN 1 ELSE queue[Len(queue)].id + 1
    BY DEF Start, disk
  <1>2. stream = NewStream /\ ~stream.handshakeComplete /\ ~stream.idle
    BY <1>1 DEF ClientInv, NothingRuns, NewStream
  <1>3. acks = << >> /\ refused = << >> /\ acks' = << >> /\ refused' = << >>
    BY <1>2, Facts DEF Start
  <1>4. /\ << >> \in Seq(Batch) /\ << >> \in Seq(Response) /\ IsHead(<< >>, queue)
    BY Facts DEF IsHead
  <1>5. StreamFits(stream, << >>)
    BY <1>2, Facts DEF StreamFits
  <1>6. /\ pipeline' \in Seq(Batch) /\ wire' \in Seq(Batch)
        /\ stream' \in Stream /\ tokens' \in SUBSET Nat
        /\ PipelineIsHead' /\ CorrelatedAnswers' /\ ConnectionQuiet' /\ StreamSound'
        /\ NothingRuns'
    BY <1>1, <1>2, <1>3, <1>4, <1>5, Facts, FillKeeps
  <1>7. /\ Len(queue) \in Nat /\ DOMAIN queue = 1..Len(queue)
        /\ \A i \in DOMAIN queue : queue[i].id \in Nat \ {0}
    <2>1. \A b \in Batch : b.id \in Nat \ {0}
      BY DEF Batch
    <2>2. \A i \in DOMAIN queue : queue[i] \in Batch
      BY Facts
    <2> QED
      BY <2>1, <2>2, Facts
  <1>8. /\ nextBatchId' \in Nat \ {0}
        /\ \A i \in DOMAIN queue : queue[i].id < nextBatchId'
    <2>1. CASE queue = << >>
      BY <1>1, <1>7, <2>1
    <2>2. CASE queue # << >>
      <3>1. Len(queue) \in DOMAIN queue
        BY <1>7, <2>2, Facts
      <3>2. ASSUME NEW i \in DOMAIN queue, i # Len(queue)
            PROVE  queue[i].id < queue[Len(queue)].id
        <4>1. i < Len(queue)
          BY <1>7, <3>2
        <4>2. Ordered(queue)
          BY Facts
        <4> QED
          BY <3>1, <4>1, <4>2 DEF Ordered
      <3>3. nextBatchId' = queue[Len(queue)].id + 1
        BY <1>1, <2>2
      <3> QED
        BY <1>7, <3>1, <3>2, <3>3
    <2> QED
      BY <2>1, <2>2
  <1>9. QueueOrdered'
    BY <1>1, <1>8 DEF ClientInv, QueueOrdered, Ordered
  <1>10. TypeOK'
    BY <1>1, <1>3, <1>4, <1>6, <1>8 DEF Start, ClientInv, TypeOK, backend, disk, Response
  <1> QED
    BY <1>6, <1>9, <1>10 DEF ClientInv

(***************************************************************************)
(* The other actions.                                                      *)
(***************************************************************************)
\* A stream that comes up touches nothing but itself and the tokens.
LEMMA StreamStepKeeps ==
    ASSUME ClientInv, stream' \in Stream, tokens' \in SUBSET Nat, StreamSound',
           running, stream'.handshakeComplete = stream.handshakeComplete,
           stream'.handshakeComplete => stream'.state = "Open",
           UNCHANGED <<backend, disk, running, nextBatchId, callbacks, pipeline, connection,
                       issued, crashes>>
    PROVE  ClientInv'
  <1>1. TypeOK'
    BY DEF ClientInv, TypeOK, backend, disk, connection
  <1>2. QueueOrdered'
    BY DEF ClientInv, QueueOrdered, Ordered, disk
  <1>3. PipelineIsHead'
    BY DEF ClientInv, PipelineIsHead, FirstBatches, disk
  <1>4. CorrelatedAnswers'
    BY DEF ClientInv, CorrelatedAnswers, connection
  <1>5. ConnectionQuiet'
    BY DEF ClientInv, ConnectionQuiet, connection
  <1>6. NothingRuns'
    BY DEF NothingRuns
  <1> QED
    BY <1>1, <1>2, <1>3, <1>4, <1>5, <1>6 DEF ClientInv

\* The backoff ends and the stream asks for a token.
LEMMA BackoffElapsesKeeps ==
    ASSUME ClientInv, BackoffElapses
    PROVE  ClientInv'
  <1>1. /\ stream \in Stream /\ StreamFits(stream, pipeline) /\ stream.state = "Backoff"
        /\ running
    BY Facts DEF BackoffElapses, StreamFits, ClientInv, NothingRuns, NewStream
  <1>2. /\ ~stream.grpc /\ ~stream.idle /\ ~stream.handshakeComplete
        /\ stream.closeCount \notin tokens /\ stream.closeCount \in Nat
        /\ \A c \in tokens : c \in Nat /\ c <= stream.closeCount
    BY <1>1 DEF StreamFits, Stream
  <1>3. /\ stream' = [stream EXCEPT !.state = "Starting"]
        /\ tokens' = Asked(stream', tokens)
    BY DEF BackoffElapses
  <1>4. /\ stream' \in Stream /\ stream'.state = "Starting" /\ stream'.grpc = stream.grpc
        /\ stream'.idle = stream.idle /\ stream'.handshakeComplete = stream.handshakeComplete
        /\ stream'.closeCount = stream.closeCount
    BY <1>1, <1>3 DEF Stream, StreamState
  <1>5. tokens' = tokens \cup {stream.closeCount}
    BY <1>3, <1>4 DEF Asked
  <1>6. StreamSound'
    BY <1>2, <1>4, <1>5 DEF StreamSound, IsStarted
  <1>7. tokens' \in SUBSET Nat
    BY <1>2, <1>5
  <1> QED
    BY <1>1, <1>2, <1>4, <1>6, <1>7, StreamStepKeeps DEF BackoffElapses

\* A token counts if the stream was not closed since it was asked for.
LEMMA TokenArrivesKeeps ==
    ASSUME ClientInv, NEW c \in tokens, TokenArrives(c)
    PROVE  ClientInv'
  <1>1. stream \in Stream /\ StreamFits(stream, pipeline) /\ running
    BY Facts DEF StreamFits, ClientInv, NothingRuns
  <1>2. /\ tokens' = tokens \ {c}
        /\ stream' = IF c = stream.closeCount THEN [stream EXCEPT !.grpc = TRUE] ELSE stream
    BY DEF TokenArrives, TokenIsCurrent
  <1>3. /\ stream' \in Stream /\ stream'.state = stream.state
        /\ stream'.grpc => stream.grpc \/ c = stream.closeCount
        /\ stream'.idle = stream.idle /\ stream'.handshakeComplete = stream.handshakeComplete
        /\ stream'.closeCount = stream.closeCount
        /\ c # stream.closeCount => stream' = stream
    BY <1>1, <1>2 DEF Stream
  <1>4. StreamSound'
    <2>1. UNCHANGED pipeline
      BY DEF TokenArrives
    <2>2. pipeline # << >> => IsStarted(stream)
      BY DEF ClientInv, StreamSound
    <2> QED
      BY <1>1, <1>2, <1>3, <2>1, <2>2 DEF StreamSound, StreamFits, IsStarted
  <1> QED
    BY <1>1, <1>2, <1>3, <1>4, StreamStepKeeps DEF TokenArrives, StreamFits

\* The stream opens.
LEMMA StreamOpensKeeps ==
    ASSUME ClientInv, StreamOpens
    PROVE  ClientInv'
  <1>1. /\ stream \in Stream /\ StreamFits(stream, pipeline) /\ running
        /\ stream.state = "Starting" /\ stream.grpc
    BY Facts DEF StreamOpens, StreamFits, ClientInv, NothingRuns, NewStream
  <1>2. /\ stream' = [stream EXCEPT !.state = "Open"] /\ tokens' = tokens /\ pipeline' = pipeline
    BY DEF StreamOpens
  <1>3. /\ stream' \in Stream /\ stream'.state = "Open" /\ stream'.grpc = stream.grpc
        /\ stream'.idle = stream.idle /\ stream'.handshakeComplete = stream.handshakeComplete
        /\ stream'.closeCount = stream.closeCount
    BY <1>1, <1>2 DEF Stream, StreamState
  <1>4. StreamSound'
    BY <1>1, <1>2, <1>3 DEF StreamSound, StreamFits, IsStarted
  <1> QED
    BY <1>1, <1>2, <1>3, <1>4, StreamStepKeeps DEF StreamOpens, StreamFits

\* OnWriteStreamHandshakeComplete: requests and pipeline start out equal.
LEMMA HandshakeCompletesKeeps ==
    ASSUME ClientInv, HandshakeCompletes
    PROVE  ClientInv'
  <1>1. /\ stream \in Stream /\ StreamFits(stream, pipeline) /\ running
        /\ stream.state = "Open" /\ ~stream.handshakeComplete
    BY Facts DEF HandshakeCompletes, StreamFits, ClientInv, NothingRuns, NewStream
  <1>2. wire = << >> /\ acks = << >> /\ refused = << >>
    BY <1>1, Facts
  <1>3. /\ stream' = [stream EXCEPT !.handshakeComplete = TRUE, !.idle = FALSE]
        /\ tokens' = tokens /\ pipeline' = pipeline /\ acks' = acks /\ refused' = refused
        /\ running' = running
    BY DEF HandshakeCompletes
  <1>4. wire' = pipeline
    <2>1. wire' = << >> \o pipeline /\ pipeline \in Seq(Batch)
      BY <1>2, Facts DEF HandshakeCompletes
    <2> QED
      BY <2>1, ConcatEmptySeq
  <1>5. /\ stream' \in Stream /\ stream'.state = "Open" /\ stream'.grpc = stream.grpc
        /\ ~stream'.idle /\ stream'.handshakeComplete
        /\ stream'.closeCount = stream.closeCount
    BY <1>1, <1>3 DEF Stream
  <1>6. StreamSound'
    BY <1>1, <1>3, <1>5 DEF StreamSound, StreamFits, IsStarted
  <1>7. CorrelatedAnswers'
    <2>1. pipeline \in Seq(Batch) /\ Len(pipeline) \in Nat /\ DOMAIN pipeline = 1..Len(pipeline)
      BY Facts
    <2>2. Len(acks) = 0 /\ DOMAIN acks = {}
      BY <1>2
    <2>3. \A i \in 1..Len(pipeline) : pipeline[i] = pipeline[0 + i]
      BY <2>1
    <2> QED
      BY <1>2, <1>3, <1>4, <2>1, <2>2, <2>3 DEF CorrelatedAnswers
  <1>8. ConnectionQuiet'
    BY <1>5 DEF ConnectionQuiet
  <1>9. PipelineIsHead' /\ QueueOrdered'
    BY DEF HandshakeCompletes, ClientInv, PipelineIsHead, FirstBatches, QueueOrdered, Ordered, disk
  <1>10. NothingRuns'
    BY <1>1, <1>3 DEF NothingRuns
  <1>11. TypeOK'
    BY <1>3, <1>4, <1>5, Facts DEF HandshakeCompletes, ClientInv, TypeOK, backend, disk
  <1> QED
    BY <1>6, <1>7, <1>8, <1>9, <1>10, <1>11 DEF ClientInv

\* A connection that is lost takes everything on it along.
LEMMA DisconnectionKeeps ==
    ASSUME ClientInv, Disconnected, wire' = << >>, running,
           stream' \in Stream, tokens' \in SUBSET Nat, StreamSound', ~stream'.handshakeComplete,
           UNCHANGED <<history, foreign, disk, running, nextBatchId, callbacks, pipeline,
                       issued, crashes>>
    PROVE  ClientInv'
  <1>1. TypeOK'
    BY DEF ClientInv, TypeOK, Disconnected, disk
  <1>2. QueueOrdered' /\ PipelineIsHead'
    BY DEF ClientInv, QueueOrdered, Ordered, PipelineIsHead, FirstBatches, disk
  <1>3. CorrelatedAnswers' /\ ConnectionQuiet' /\ NothingRuns'
    BY DEF CorrelatedAnswers, ConnectionQuiet, NothingRuns, Disconnected
  <1> QED
    BY <1>1, <1>2, <1>3 DEF ClientInv

\* OnWriteStreamClose with a transient error, or with none.
LEMMA ConnectionLostKeeps ==
    ASSUME ClientInv, NEW ok \in BOOLEAN, ConnectionLost(ok)
    PROVE  ClientInv'
  <1> DEFINE down == Closed(stream, IF ok THEN "Initial" ELSE "Error")
             none == tokens \ {stream.closeCount}
  <1>1. /\ StreamFits(stream, pipeline) /\ stream.closeCount \in Nat
        /\ \A c \in tokens : c \in Nat /\ c <= stream.closeCount
    BY Facts DEF StreamFits, Stream
  <1>2. running
    BY DEF ConnectionLost, ClientInv, NothingRuns, NewStream
  <1>3. /\ stream' = IF pipeline # << >> THEN Started(down) ELSE down
        /\ tokens' = none /\ pipeline' = pipeline
        /\ ok => pipeline = << >>
    BY DEF ConnectionLost
  <1>4. /\ StreamFits(down, pipeline) /\ ~down.handshakeComplete
        /\ down.state = (IF ok THEN "Initial" ELSE "Error")
        /\ ~down.grpc /\ ~down.idle
    <2>1. (IF ok THEN "Initial" ELSE "Error") \in {"Initial", "Error"}
      OBVIOUS
    <2>2. stream \in Stream
      BY <1>1 DEF StreamFits
    <2> QED
      BY <1>1, <2>1, <2>2, ClosedFits DEF Closed, Stream
  <1>5. down.closeCount = stream.closeCount + 1
    BY <1>1 DEF Closed, StreamFits, Stream
  <1> HIDE DEF down
  <1>6. /\ stream' \in Stream /\ ~stream'.handshakeComplete /\ ~stream'.grpc /\ ~stream'.idle
        /\ stream'.closeCount = stream.closeCount + 1
        /\ pipeline # << >> => stream'.state = "Backoff"
    <2>1. CASE pipeline # << >>
      <3>1. down.state = "Error" /\ stream' = [down EXCEPT !.state = "Backoff"]
        BY <1>3, <1>4, <2>1 DEF Started
      <3>2. down \in Stream
        BY <1>4 DEF StreamFits
      <3> QED
        BY <1>4, <1>5, <3>1, <3>2 DEF Stream, StreamState
    <2>2. CASE pipeline = << >>
      BY <1>3, <1>4, <1>5, <2>2 DEF StreamFits
    <2> QED
      BY <2>1, <2>2
  <1>7. StreamSound'
    BY <1>1, <1>3, <1>6 DEF StreamSound, IsStarted
  <1>8. tokens' \in SUBSET Nat
    BY <1>1, <1>3
  <1> QED
    BY <1>2, <1>6, <1>7, <1>8, DisconnectionKeeps DEF ConnectionLost

\* The idle timer stops a stream that has nothing to send.
LEMMA IdleTimeoutKeeps ==
    ASSUME ClientInv, IdleTimeout
    PROVE  ClientInv'
  <1>1. /\ StreamFits(stream, pipeline) /\ stream \in Stream /\ stream.closeCount \in Nat
        /\ tokens \in SUBSET Nat /\ stream.idle /\ stream.state = "Open" /\ pipeline = << >>
    BY Facts DEF StreamFits, Stream, IdleTimeout
  <1>2. running
    BY <1>1 DEF ClientInv, NothingRuns, NewStream
  <1>3. stream' = Closed(stream, "Initial") /\ tokens' = tokens /\ pipeline' = pipeline
    BY <1>1 DEF IdleTimeout, Stopped, IsStarted
  <1>4. StreamFits(stream', << >>) /\ ~stream'.handshakeComplete
    BY <1>1, <1>3, ClosedFits
  <1>5. StreamSound'
    BY <1>1, <1>3, <1>4 DEF StreamSound, StreamFits
  <1>6. stream' \in Stream
    BY <1>4 DEF StreamFits
  <1> QED
    BY <1>1, <1>2, <1>3, <1>4, <1>5, <1>6, DisconnectionKeeps DEF IdleTimeout

\* The queue on disk is all that is left of the pipeline.
LEMMA CrashKeeps ==
    ASSUME ClientInv, Crash
    PROVE  ClientInv'
  <1>1. /\ running' = FALSE /\ callbacks' = {} /\ pipeline' = << >> /\ stream' = NewStream
        /\ tokens' = {} /\ queue' = queue /\ wire' = << >>
    BY DEF Crash
  <1>2. NewStream \in Stream /\ ~NewStream.handshakeComplete /\ ~NewStream.grpc /\ ~NewStream.idle
    BY DEF NewStream, Stream, StreamState
  <1>3. snapshot' \in Nat
    <2>1. snapshot \in Nat /\ snapshot' \in 1..snapshot
      BY DEF Crash, ClientInv, TypeOK
    <2> QED
      BY <2>1
  <1>4. crashes' \in 0..MaxCrashes
    <2>1. crashes \in 0..MaxCrashes /\ crashes < MaxCrashes /\ crashes' = crashes + 1
      BY DEF Crash, ClientInv, TypeOK
    <2> QED
      BY <2>1
  <1>5. TypeOK'
    <2>1. /\ running' \in BOOLEAN /\ callbacks' \in SUBSET Nat /\ tokens' \in SUBSET Nat
      BY <1>1
    <2>4. pipeline' \in Seq(Batch) /\ wire' \in Seq(Batch)
      BY <1>1
    <2>5. stream' \in Stream
      BY <1>1, <1>2
    <2>2. orphans' = wire /\ acks' = << >> /\ refused' = << >>
      BY DEF Crash, Disconnected
    <2>3. UNCHANGED <<history, foreign, queue, cached, sentBase, unseen, nextBatchId, issued>>
      BY DEF Crash
    <2> QED
      BY SMTT(60), <1>3, <1>4, <2>1, <2>2, <2>3, <2>4, <2>5 DEF ClientInv, TypeOK
  <1>6. QueueOrdered' /\ PipelineIsHead'
    BY <1>1 DEF ClientInv, QueueOrdered, Ordered, PipelineIsHead
  <1>7. CorrelatedAnswers' /\ ConnectionQuiet'
    BY <1>1, <1>2 DEF Crash, Disconnected, CorrelatedAnswers, ConnectionQuiet
  <1>8. StreamSound' /\ NothingRuns'
    BY <1>1, <1>2 DEF StreamSound, NothingRuns
  <1> QED
    BY <1>5, <1>6, <1>7, <1>8 DEF ClientInv

\* What happens at the backend and on the way touches nothing on the device.
LEMMA BackendStepKeeps ==
    ASSUME ClientInv, UNCHANGED <<disk, memory, issued, crashes>>,
           history' \in Seq(Documents) \ {<< >>}, foreign' \in 0..MaxForeign,
           orphans' \in Seq(Batch), wire' \in Seq(Batch), acks' \in Seq(Response),
           refused' \in Seq(Batch),
           stream.handshakeComplete => Matches(acks', wire', refused', pipeline),
           ~stream.handshakeComplete => wire' = << >> /\ acks' = << >> /\ refused' = << >>
    PROVE  ClientInv'
  <1>1. TypeOK'
    BY DEF ClientInv, TypeOK, disk, memory, Response
  <1>2. QueueOrdered' /\ PipelineIsHead'
    BY DEF ClientInv, QueueOrdered, Ordered, PipelineIsHead, FirstBatches, disk, memory
  <1>3. CorrelatedAnswers'
    BY DEF CorrelatedAnswers, Matches, memory
  <1>4. ConnectionQuiet'
    BY DEF ClientInv, ConnectionQuiet, memory
  <1>5. StreamSound' /\ NothingRuns'
    BY DEF ClientInv, StreamSound, NothingRuns, IsStarted, memory
  <1> QED
    BY <1>1, <1>2, <1>3, <1>4, <1>5 DEF ClientInv

\* Whatever is committed, the versions of the backend are documents.
LEMMA CommittedDocuments ==
    ASSUME ClientInv, NEW patch \in Patch, Committed(Merge(Current, patch))
    PROVE  history' \in Seq(Documents) \ {<< >>} /\ Len(history') \in Nat
  <1>1. history \in Seq(Documents) /\ history # << >> /\ Len(history) \in Nat \ {0}
    BY DEF ClientInv, TypeOK
  <1>2. Current \in Documents
    BY <1>1 DEF Current
  <1>3. Merge(Current, patch) \in Documents
    BY <1>2 DEF Merge, Documents, Patch
  <1>4. CASE Merge(Current, patch) = Current
    BY <1>1, <1>4 DEF Committed
  <1>5. CASE Merge(Current, patch) # Current
    <2>1. history' = Append(history, Merge(Current, patch))
      BY <1>5 DEF Committed
    <2> HIDE DEF Merge, Current
    <2>2. history' \in Seq(Documents) /\ Len(history') = Len(history) + 1
      BY <1>1, <1>3, <2>1, AppendProperties
    <2> QED
      BY <1>1, <2>2
  <1> QED
    BY <1>4, <1>5

\* The backend serves the first request, which is the first one that has no response.
LEMMA MatchesServed ==
    ASSUME NEW a \in Seq(Response), NEW w \in Seq(Batch), NEW p \in Seq(Batch), NEW version \in Nat,
           w # << >>, Matches(a, w, << >>, p)
    PROVE  /\ Head(w) \in Batch /\ Tail(w) \in Seq(Batch)
           /\ Append(a, [batch |-> Head(w), version |-> version]) \in Seq(Response)
           /\ Matches(Append(a, [batch |-> Head(w), version |-> version]), Tail(w), << >>, p)
           /\ Matches(a, << >>, <<Head(w)>>, p)
  <1>1. /\ Len(a) \in Nat /\ Len(w) \in Nat \ {0} /\ Len(p) \in Nat
        /\ DOMAIN a = 1..Len(a) /\ DOMAIN w = 1..Len(w)
    OBVIOUS
  <1>2. Len(a) + Len(w) = Len(p)
    BY DEF Matches
  <1>3. \A i \in 1..Len(w) : w[i] = p[Len(a) + i]
    BY <1>1 DEF Matches
  <1>4. \A i \in 1..Len(a) : a[i].batch = p[i]
    BY <1>1 DEF Matches
  <1>5. /\ Head(w) \in Batch /\ Head(w) = w[1] /\ Tail(w) \in Seq(Batch)
        /\ Len(Tail(w)) = Len(w) - 1
        /\ \A i \in 1..Len(Tail(w)) : Tail(w)[i] = w[i + 1]
    BY HeadTailProperties
  <1>6. Head(w) = p[Len(a) + 1]
    BY <1>1, <1>3, <1>5
  <1> DEFINE x == [batch |-> Head(w), version |-> version]
             b == Append(a, x)
  <1>7. x \in Response /\ x.batch = Head(w)
    BY <1>5 DEF Response
  <1> HIDE DEF x
  <1>8. /\ b \in Seq(Response) /\ Len(b) = Len(a) + 1
        /\ \A i \in 1..Len(a) : b[i] = a[i]
        /\ b[Len(a) + 1] = x
    BY <1>7, AppendProperties
  <1> HIDE DEF b
  <1>9. DOMAIN b = 1..(Len(a) + 1) /\ DOMAIN Tail(w) = 1..Len(Tail(w))
    BY <1>5, <1>8
  <1>10. ASSUME NEW i \in 1..(Len(a) + 1)
         PROVE  b[i].batch = p[i]
    <2>1. CASE i = Len(a) + 1
      BY <1>6, <1>7, <1>8, <2>1
    <2>2. CASE i # Len(a) + 1
      <3>1. i \in 1..Len(a)
        BY <1>1, <2>2
      <3> QED
        BY <1>4, <1>8, <3>1
    <2> QED
      BY <2>1, <2>2
  <1>11. ASSUME NEW i \in 1..Len(Tail(w))
         PROVE  Tail(w)[i] = p[Len(b) + i]
    <2>1. i + 1 \in 1..Len(w) /\ Len(a) + (i + 1) = Len(b) + i
      <3>1. Len(Tail(w)) = Len(w) - 1 /\ Len(b) = Len(a) + 1
        BY <1>5, <1>8
      <3> QED
        BY <1>1, <3>1
    <2>2. Tail(w)[i] = w[i + 1] /\ w[i + 1] = p[Len(a) + (i + 1)]
      BY <1>3, <1>5, <2>1
    <2> QED
      BY <2>1, <2>2
  <1>12. Len(b) <= Len(p) /\ Len(b) + Len(Tail(w)) = Len(p) /\ Len(a) < Len(p)
    <2>1. Len(Tail(w)) = Len(w) - 1 /\ Len(b) = Len(a) + 1
      BY <1>5, <1>8
    <2> QED
      BY <1>1, <1>2, <2>1
  <1>13. Matches(b, Tail(w), << >>, p)
    BY <1>9, <1>10, <1>11, <1>12 DEF Matches
  <1>14. Matches(a, << >>, <<Head(w)>>, p)
    <2>1. <<Head(w)>> # << >>
      OBVIOUS
    <2>2. Len(a) <= Len(p)
      BY <1>1, <1>12
    <2> QED
      BY <1>1, <1>4, <1>6, <1>12, <2>1, <2>2 DEF Matches
  <1> QED
    BY <1>5, <1>8, <1>13, <1>14 DEF b, x

\* A write is committed and its response is on its way.
LEMMA ServerCommitsKeeps ==
    ASSUME ClientInv, ServerCommits
    PROVE  ClientInv'
  <1>1. /\ wire # << >> /\ stream.handshakeComplete /\ refused = << >> /\ wire \in Seq(Batch)
        /\ Matches(acks, wire, << >>, pipeline)
    BY Facts DEF ServerCommits
  <1>2. Head(wire) \in Batch /\ Head(wire).patch \in Patch
    <2>1. Head(wire) \in Batch
      BY <1>1, HeadTailProperties
    <2>2. \A b \in Batch : b.patch \in Patch
      BY DEF Batch
    <2> QED
      BY <2>1, <2>2
  <1>3. history' \in Seq(Documents) \ {<< >>} /\ Len(history') \in Nat
    BY <1>2, CommittedDocuments DEF ServerCommits
  <1>4. /\ acks' = Append(acks, [batch |-> Head(wire), version |-> Len(history')])
        /\ wire' = Tail(wire) /\ refused' = refused /\ orphans' = orphans /\ foreign' = foreign
    BY DEF ServerCommits
  <1>5. /\ wire' \in Seq(Batch) /\ acks' \in Seq(Response)
        /\ Matches(acks', wire', << >>, pipeline)
    BY <1>1, <1>3, <1>4, Facts, MatchesServed
  <1>6. orphans' \in Seq(Batch) /\ foreign' \in 0..MaxForeign /\ refused' \in Seq(Batch)
    BY <1>4 DEF ClientInv, TypeOK
  <1> QED
    BY <1>1, <1>3, <1>4, <1>5, <1>6, BackendStepKeeps DEF ServerCommits

\* A write is refused, and the stream is closed behind the responses before it.
LEMMA ServerRefusesKeeps ==
    ASSUME ClientInv, ServerRefuses
    PROVE  ClientInv'
  <1>1. /\ wire # << >> /\ stream.handshakeComplete /\ refused = << >> /\ wire \in Seq(Batch)
        /\ Matches(acks, wire, << >>, pipeline)
    BY Facts DEF ServerRefuses
  <1>2. /\ refused' = <<Head(wire)>> /\ wire' = << >> /\ acks' = acks
        /\ history' = history /\ orphans' = orphans /\ foreign' = foreign
    BY DEF ServerRefuses, backend
  <1>3. Head(wire) \in Batch /\ Matches(acks, << >>, <<Head(wire)>>, pipeline)
    BY <1>1, Facts, MatchesServed
  <1>4. refused' \in Seq(Batch) /\ wire' \in Seq(Batch)
    BY <1>2, <1>3
  <1>5. /\ orphans' \in Seq(Batch) /\ foreign' \in 0..MaxForeign /\ acks' \in Seq(Response)
        /\ history' \in Seq(Documents) \ {<< >>}
    BY <1>2, Facts DEF ClientInv, TypeOK
  <1> QED
    BY <1>1, <1>2, <1>3, <1>4, <1>5, BackendStepKeeps DEF ServerRefuses

\* A request of a lost connection is served after all.
LEMMA OrphanCommitsKeeps ==
    ASSUME ClientInv, OrphanCommits
    PROVE  ClientInv'
  <1>1. orphans \in Seq(Batch) /\ orphans # << >>
    BY DEF ClientInv, TypeOK, OrphanCommits
  <1>2. Head(orphans) \in Batch /\ Tail(orphans) \in Seq(Batch)
    BY <1>1, HeadTailProperties
  <1>3. Head(orphans).patch \in Patch
    BY <1>2 DEF Batch
  <1>4. history' \in Seq(Documents) \ {<< >>}
    BY <1>3, CommittedDocuments DEF OrphanCommits
  <1>5. /\ orphans' \in Seq(Batch) /\ foreign' \in 0..MaxForeign
        /\ wire' = wire /\ acks' = acks /\ refused' = refused
    BY <1>2 DEF OrphanCommits, ClientInv, TypeOK, connection
  <1> QED
    BY <1>4, <1>5, Facts, BackendStepKeeps DEF OrphanCommits

\* Another device writes.
LEMMA ForeignCommitsKeeps ==
    ASSUME ClientInv, NEW patch \in ForeignPatches, ForeignCommits(patch)
    PROVE  ClientInv'
  <1>1. patch \in Patch
    OBVIOUS
  <1>2. history' \in Seq(Documents) \ {<< >>}
    BY <1>1, CommittedDocuments DEF ForeignCommits
  <1>3. /\ foreign' \in 0..MaxForeign /\ orphans' \in Seq(Batch)
        /\ wire' = wire /\ acks' = acks /\ refused' = refused
    BY DEF ForeignCommits, ClientInv, TypeOK, connection
  <1> QED
    BY <1>2, <1>3, Facts, BackendStepKeeps DEF ForeignCommits

\* A version of the document arrives on the other stream.
LEMMA WatchKeeps ==
    ASSUME ClientInv, NEW v \in 1..Len(history), Watch(v)
    PROVE  ClientInv'
  <1>1. v \in Nat /\ history[v] \in Documents
    BY DEF ClientInv, TypeOK
  <1>2. /\ cached' \in [version : Nat, doc : Documents, committed : BOOLEAN]
        /\ sentBase' \in Nat /\ unseen' \in Seq([patch : Patches, version : Nat])
    <2>1. CASE IsTaken(v)
      <3>1. /\ cached' = [version |-> v, doc |-> history[v], committed |-> FALSE]
            /\ sentBase' = v /\ unseen' = << >>
        BY <2>1 DEF Watch
      <3>2. [version |-> v, doc |-> history[v], committed |-> FALSE]
                \in [version : Nat, doc : Documents, committed : BOOLEAN]
        BY <1>1
      <3> QED
        BY <1>1, <3>1, <3>2
    <2>2. CASE ~IsTaken(v)
      BY <2>2 DEF Watch, ClientInv, TypeOK
    <2> QED
      BY <2>1, <2>2
  <1>3. TypeOK'
    BY <1>1, <1>2 DEF Watch, ClientInv, TypeOK, backend, memory, connection
  <1>4. QueueOrdered' /\ PipelineIsHead'
    BY DEF Watch, ClientInv, QueueOrdered, Ordered, PipelineIsHead, FirstBatches, memory
  <1>5. CorrelatedAnswers' /\ ConnectionQuiet'
    BY DEF Watch, ClientInv, CorrelatedAnswers, ConnectionQuiet, memory, connection
  <1>6. StreamSound' /\ NothingRuns'
    BY DEF Watch, ClientInv, StreamSound, NothingRuns, IsStarted, memory
  <1> QED
    BY <1>3, <1>4, <1>5, <1>6 DEF ClientInv

(***************************************************************************)
(* The invariant.                                                          *)
(***************************************************************************)
LEMMA InitEstablishes == Init => ClientInv
  <1> SUFFICES ASSUME Init
               PROVE  ClientInv
    OBVIOUS
  <1>1. PICK doc \in FirstDocuments : history = <<doc>>
    BY DEF Init
  <1>2. /\ history \in Seq(Documents) /\ history # << >> /\ history[1] \in Documents
    BY <1>1
  <1>3. /\ queue = << >> /\ pipeline = << >> /\ wire = << >> /\ acks = << >> /\ refused = << >>
        /\ orphans = << >> /\ unseen = << >> /\ tokens = {} /\ stream = NewStream
    BY DEF Init
  <1>4. NewStream \in Stream /\ ~NewStream.handshakeComplete /\ ~NewStream.grpc /\ ~NewStream.idle
    BY DEF NewStream, Stream, StreamState
  <1>5. TypeOK
    <2>1. cached \in [version : Nat, doc : Documents, committed : BOOLEAN]
      BY <1>2 DEF Init
    <2>2. /\ snapshot \in Nat /\ sentBase \in Nat /\ running \in BOOLEAN
          /\ nextBatchId \in Nat \ {0} /\ callbacks \in SUBSET Nat
          /\ issued \in 0..MaxWrites /\ crashes \in 0..MaxCrashes /\ foreign \in 0..MaxForeign
      BY DEF Init
    <2> QED
      BY <1>2, <1>3, <1>4, <2>1, <2>2 DEF TypeOK
  <1>6. QueueOrdered
    BY <1>3 DEF QueueOrdered, Ordered
  <1>7. PipelineIsHead
    <2>1. queue \in Seq(Batch) /\ Len(queue) = 0
      BY <1>3
    <2> DEFINE first == FirstBatches(queue)
    <2>2. first \in Seq(Batch) /\ Len(first) <= Len(queue)
      BY <2>1, FirstBatchesHead DEF IsHead
    <2> HIDE DEF first
    <2>3. first = << >>
      BY <2>1, <2>2
    <2> QED
      BY <1>3, <2>3 DEF PipelineIsHead, first
  <1>8. CorrelatedAnswers /\ ConnectionQuiet
    BY <1>3, <1>4 DEF CorrelatedAnswers, ConnectionQuiet
  <1>9. StreamSound /\ NothingRuns
    BY <1>3, <1>4 DEF StreamSound, NothingRuns
  <1> QED
    BY <1>5, <1>6, <1>7, <1>8, <1>9 DEF ClientInv

LEMMA NextKeeps ==
    ASSUME ClientInv, [Next]_vars
    PROVE  ClientInv'
  <1>1. ASSUME NEW patch \in Patches, Write(patch)
        PROVE  ClientInv'
    BY <1>1, WriteKeeps
  <1>2. CASE Client
    <2>1. CASE BackoffElapses
      BY <2>1, BackoffElapsesKeeps
    <2>2. ASSUME NEW c \in tokens, TokenArrives(c)
          PROVE  ClientInv'
      BY <2>2, TokenArrivesKeeps
    <2>3. CASE StreamOpens
      BY <2>3, StreamOpensKeeps
    <2>4. CASE HandshakeCompletes
      BY <2>4, HandshakeCompletesKeeps
    <2>5. CASE ReceiveResult
      BY <2>5, ReceiveResultKeeps
    <2>6. CASE ReceiveRefusal
      BY <2>6, ReceiveRefusalKeeps
    <2>7. CASE Start
      BY <2>7, StartKeeps
    <2> QED
      BY <1>2, <2>1, <2>2, <2>3, <2>4, <2>5, <2>6, <2>7 DEF Client
  <1>3. CASE ServerCommits
    BY <1>3, ServerCommitsKeeps
  <1>4. ASSUME NEW patch \in ForeignPatches, ForeignCommits(patch)
        PROVE  ClientInv'
    BY <1>4, ForeignCommitsKeeps
  <1>5. ASSUME NEW v \in 1..Len(history), Watch(v)
        PROVE  ClientInv'
    BY <1>5, WatchKeeps
  <1>6. CASE Trouble
    <2>1. ASSUME NEW ok \in BOOLEAN, ConnectionLost(ok)
          PROVE  ClientInv'
      BY <2>1, ConnectionLostKeeps
    <2>2. CASE IdleTimeout
      BY <2>2, IdleTimeoutKeeps
    <2>3. CASE ConnectivityChanges
      BY <2>3, ConnectivityChangesKeeps
    <2>4. CASE Crash
      BY <2>4, CrashKeeps
    <2>5. CASE ServerRefuses
      BY <2>5, ServerRefusesKeeps
    <2>6. CASE OrphanCommits
      BY <2>6, OrphanCommitsKeeps
    <2> QED
      BY <1>6, <2>1, <2>2, <2>3, <2>4, <2>5, <2>6 DEF Trouble
  <1>7. CASE UNCHANGED vars
    BY <1>7 DEF vars, backend, disk, memory, connection, ClientInv, TypeOK, QueueOrdered, Ordered,
        PipelineIsHead, FirstBatches, CorrelatedAnswers, ConnectionQuiet, StreamSound, NothingRuns,
        IsStarted
  <1> QED
    BY <1>1, <1>2, <1>3, <1>4, <1>5, <1>6, <1>7 DEF Next

\* The inductive invariant of the write path holds of every behaviour.
THEOREM ClientInvariance == Spec => []ClientInv
  <1>1. Init => ClientInv
    BY InitEstablishes
  <1>2. ClientInv /\ [Next]_vars => ClientInv'
    BY NextKeeps
  <1> QED
    BY <1>1, <1>2, PTL DEF Spec

(***************************************************************************)
(* Its corollaries: the properties the runs check.                         *)
(***************************************************************************)
\* Every variable keeps its type.
THEOREM ClientTypeCorrect == Spec => []TypeOK
  <1>1. ClientInv => TypeOK
    BY DEF ClientInv
  <1> QED
    BY <1>1, ClientInvariance, PTL

\* Responses and refusals are matched by position to the writes they are about
\* (OnWriteStreamMutationResult, HandleWriteError).
THEOREM AnswersCorrelated == Spec => []CorrelatedAnswers
  <1>1. ClientInv => CorrelatedAnswers
    BY DEF ClientInv
  <1> QED
    BY <1>1, ClientInvariance, PTL

\* The pipeline is the head of the queue on disk (FillWritePipeline, LoadNextBatchIdFromDb).
THEOREM PipelineIsTheHead == Spec => []PipelineIsHead
  <1>1. ClientInv => PipelineIsHead
    BY DEF ClientInv
  <1> QED
    BY <1>1, ClientInvariance, PTL

\* No assertion of the code fails (ResumeStartWithCredentials, OnWriteStreamClose,
\* OnWriteStreamMutationResult, RejectBatch, Start).
THEOREM AssertionsNeverFail == Spec => []AssertionsHold
  <1>1. ClientInv => AssertionsHold
    <2> SUFFICES ASSUME ClientInv
                 PROVE  AssertionsHold
      OBVIOUS
    <2>1. stream.closeCount \in tokens => stream.state = "Starting" /\ ~stream.grpc
      BY DEF ClientInv, StreamSound
    <2>2. stream.idle => pipeline = << >>
      BY DEF ClientInv, StreamSound
    <2>3. acks # << >> => pipeline # << >> /\ stream.handshakeComplete
      <3> SUFFICES ASSUME acks # << >>
                   PROVE  pipeline # << >> /\ stream.handshakeComplete
        OBVIOUS
      <3>1. stream.handshakeComplete /\ Matches(acks, wire, refused, pipeline)
        BY Facts
      <3> QED
        BY <3>1, Facts, MatchesPopped
    <2>4. \A i \in DOMAIN pipeline : \E j \in DOMAIN queue : queue[j] = pipeline[i]
      <3>1. /\ DOMAIN pipeline = 1..Len(pipeline) /\ DOMAIN queue = 1..Len(queue)
            /\ Len(pipeline) \in Nat /\ Len(queue) \in Nat
        BY Facts
      <3>2. Len(pipeline) <= Len(queue) /\ \A i \in 1..Len(pipeline) : pipeline[i] = queue[i]
        BY Facts DEF IsHead
      <3> QED
        BY <3>1, <3>2
    <2>5. running /\ queue # << >> => pipeline # << >> /\ IsStarted(stream)
      <3> SUFFICES ASSUME running, queue # << >>
                   PROVE  pipeline # << >> /\ IsStarted(stream)
        OBVIOUS
      <3>1. pipeline # << >>
        <4> DEFINE n == IF Len(queue) <= kMaxPendingWrites THEN Len(queue) ELSE kMaxPendingWrites
        <4>1. /\ 1 \in Int /\ n \in Nat /\ 1 <= n /\ n <= Len(queue)
              /\ \A i \in 1..n : queue[i] \in Batch
          BY Facts
        <4>2. pipeline = SubSeq(queue, 1, n)
          BY DEF ClientInv, PipelineIsHead, FirstBatches
        <4> HIDE DEF n
        <4>3. Len(SubSeq(queue, 1, n)) = n - 1 + 1
          BY <4>1, SubSeqProperties
        <4> QED
          BY <4>1, <4>2, <4>3
      <3> QED
        BY <3>1 DEF ClientInv, StreamSound
    <2> QED
      BY <2>1, <2>2, <2>3, <2>4, <2>5 DEF AssertionsHold
  <1> QED
    BY <1>1, ClientInvariance, PTL
=============================================================================
