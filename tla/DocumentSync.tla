---------------------------- MODULE DocumentSync ---------------------------
(***************************************************************************)
(* What Firestore's client library promises one device about one document  *)
(* it listens to and writes.  The device sees the last version it was sent *)
(* (base) under its own writes that this version does not contain (own).   *)
(* FirestoreClient, the library's own code, implements this, and so does   *)
(* the network of GameMatch for each of its two devices.                   *)
(***************************************************************************)
EXTENDS Naturals, Sequences

CONSTANTS
    Docs,          \* the contents the document may have
    Writes,        \* the writes the device may make
    Merge(_, _)    \* what a write makes of a document

VARIABLES
    server,   \* the document as the backend has it
    base,     \* the version on which the device builds what it shows
    feed,     \* the versions committed after base
    own,      \* the device's writes that are not yet both acknowledged and in base
    at,       \* at[i]: own[i] is committed, in feed[at[i]] (0: in base)
    acked     \* how many of own are acknowledged

vars == <<server, base, feed, own, at, acked>>

Init ==
    /\ server \in Docs
    /\ base = server
    /\ feed = << >>
    /\ own = << >>
    /\ at = << >>
    /\ acked = 0

Without(s, i) == SubSeq(s, 1, i - 1) \o SubSeq(s, i + 1, Len(s))

\* The device makes a write.  It is kept, and shown, from now on.
Issue ==
    LET n == Len(own) + 1
    IN  /\ Len(own') = n
        /\ own'[n] \in Writes
        /\ own' = Append(own, own'[n])
        /\ UNCHANGED <<server, base, feed, at, acked>>

\* The backend's document becomes doc: a new version if it is another one.
Committed(doc) ==
    /\ server' = doc
    /\ feed' = IF doc = server THEN feed ELSE Append(feed, doc)

\* The writes of the device are committed in the order in which it made them.
Commit ==
    LET n == Len(at) + 1
    IN  /\ n <= Len(own)
        /\ Committed(Merge(server, own[n]))
        /\ at' = Append(at, Len(feed'))
        /\ UNCHANGED <<base, own, acked>>

\* Another device's write, or a write of this one that an old connection delivers.
ForeignCommit ==
    /\ server' \in Docs
    /\ Committed(server')
    /\ UNCHANGED <<base, own, at, acked>>

\* Acknowledgements arrive in the order of the writes.  A write is forgotten if
\* what the device shows without it is as new as its commit, and kept on top of
\* base otherwise.
Shown == IF acked = 0 THEN 0 ELSE at[acked]

Ack ==
    LET n == acked + 1
    IN  /\ n <= Len(at)
        /\ IF at[n] <= Shown
           THEN /\ own' = Without(own, n)
                /\ at' = Without(at, n)
                /\ acked' = acked
           ELSE /\ acked' = n
                /\ UNCHANGED <<own, at>>
        /\ UNCHANGED <<server, base, feed>>

\* The device is sent the k-th version ahead; it may never see those before it.
\* It never goes back behind a write that is acknowledged.
Watch(k) ==
    LET left == SubSeq(at, acked + 1, Len(at))
    IN  /\ Shown <= k
        /\ base' = feed[k]
        /\ feed' = SubSeq(feed, k + 1, Len(feed))
        /\ own' = SubSeq(own, acked + 1, Len(own))
        /\ at' = [i \in DOMAIN left |-> IF left[i] <= k THEN 0 ELSE left[i] - k]
        /\ acked' = 0
        /\ UNCHANGED server

\* A connection is lost with acknowledgements on it: their writes are made again.
Break ==
    /\ at' = SubSeq(at, 1, acked)
    /\ UNCHANGED <<server, base, feed, own, acked>>

\* The backend refuses the first write it has not committed.
Reject ==
    LET n == Len(at) + 1
    IN  /\ n <= Len(own)
        /\ acked = Len(at)
        /\ own' = Without(own, n)
        /\ UNCHANGED <<server, base, feed, at, acked>>

Next ==
    \/ Commit
    \/ Issue
    \/ ForeignCommit
    \/ Ack
    \/ \E k \in 1..Len(feed) : Watch(k)
    \/ Break
    \/ Reject

Spec == Init /\ [][Next]_vars
=============================================================================
