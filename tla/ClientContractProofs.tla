----------------------- MODULE ClientContractProofs ------------------------
(***************************************************************************)
(* The write path of the Firestore client implements DocumentSync, for     *)
(* every choice of the constants: MatchContractProofs shows the same of    *)
(* the network that GameMatch has in its place.                            *)
(***************************************************************************)
EXTENDS FirestoreClientProofs

(***************************************************************************)
(* Two queues one behind the other: s was acknowledged, t was not.         *)
(***************************************************************************)
\* The first of t moves to the end of s.
LEMMA HeadMoves ==
    ASSUME NEW S, NEW s \in Seq(S), NEW t \in Seq(S), t # << >>
    PROVE  Append(s, Head(t)) \o Tail(t) = s \o t
  <1> DEFINE a == Append(s, Head(t))
  <1>1. /\ Len(s) \in Nat /\ Len(t) \in Nat \ {0} /\ Head(t) = t[1]
        /\ Head(t) \in S /\ Tail(t) \in Seq(S) /\ Len(Tail(t)) = Len(t) - 1
        /\ \A i \in 1..Len(Tail(t)) : Tail(t)[i] = t[i + 1]
    BY HeadTailProperties
  <1>2. /\ a \in Seq(S) /\ Len(a) = Len(s) + 1
        /\ \A i \in 1..Len(s) : a[i] = s[i]
        /\ a[Len(s) + 1] = t[1]
    BY <1>1, AppendProperties
  <1> HIDE DEF a
  <1>3. /\ a \o Tail(t) \in Seq(S) /\ Len(a \o Tail(t)) = Len(a) + Len(Tail(t))
        /\ \A i \in 1..(Len(a) + Len(Tail(t))) :
               (a \o Tail(t))[i] = IF i <= Len(a) THEN a[i] ELSE Tail(t)[i - Len(a)]
    BY <1>1, <1>2, ConcatProperties
  <1>4. /\ s \o t \in Seq(S) /\ Len(s \o t) = Len(s) + Len(t)
        /\ \A i \in 1..(Len(s) + Len(t)) :
               (s \o t)[i] = IF i <= Len(s) THEN s[i] ELSE t[i - Len(s)]
    BY ConcatProperties
  <1>5. Len(a) + Len(Tail(t)) = Len(s) + Len(t)
    <2>1. Len(a) = Len(s) + 1 /\ Len(Tail(t)) = Len(t) - 1 /\ Len(s) \in Nat /\ Len(t) \in Nat
      BY <1>1, <1>2
    <2> QED
      BY <2>1
  <1>6. ASSUME NEW i \in 1..(Len(s) + Len(t))
        PROVE  (a \o Tail(t))[i] = (s \o t)[i]
    <2>1. CASE i <= Len(s)
      BY <1>1, <1>2, <1>3, <1>4, <1>5, <2>1
    <2>2. CASE i = Len(s) + 1
      BY <1>1, <1>2, <1>3, <1>4, <1>5, <2>2
    <2>3. CASE Len(s) + 1 < i
      <3>1. /\ ~(i <= Len(a)) /\ ~(i <= Len(s))
            /\ i - Len(a) \in 1..Len(Tail(t)) /\ (i - Len(a)) + 1 = i - Len(s)
        BY <1>1, <1>2, <2>3
      <3>2. (a \o Tail(t))[i] = Tail(t)[i - Len(a)] /\ (s \o t)[i] = t[i - Len(s)]
        BY <1>3, <1>4, <1>5, <3>1
      <3> QED
        BY <1>1, <3>1, <3>2
    <2>4. i <= Len(s) \/ i = Len(s) + 1 \/ Len(s) + 1 < i
      <3>1. Len(s) \in Nat /\ i \in Nat
        BY <1>1
      <3> QED
        BY <3>1
    <2> QED
      BY <2>1, <2>2, <2>3, <2>4
  <1>7. a \o Tail(t) = s \o t
    BY <1>3, <1>4, <1>5, <1>6, SeqEqual
  <1> QED
    BY <1>7 DEF a

\* What comes before and after the end of s.
LEMMA Parts ==
    ASSUME NEW S, NEW s \in Seq(S), NEW t \in Seq(S)
    PROVE  /\ SubSeq(s \o t, 1, Len(s)) = s
           /\ SubSeq(s \o t, Len(s) + 1, Len(s \o t)) = t
           /\ t # << >> => /\ (s \o t)[Len(s) + 1] = Head(t)
                           /\ SubSeq(s \o t, Len(s) + 2, Len(s \o t)) = Tail(t)
  <1> DEFINE u == s \o t
  <1>1. /\ u \in Seq(S) /\ Len(u) = Len(s) + Len(t) /\ Len(s) \in Nat /\ Len(t) \in Nat
        /\ \A i \in 1..(Len(s) + Len(t)) : u[i] = IF i <= Len(s) THEN s[i] ELSE t[i - Len(s)]
    BY ConcatProperties
  <1> HIDE DEF u
  <1>2. SubSeq(u, 1, Len(s)) = s
    <2>1. 1 \in Int /\ Len(s) \in Int /\ \A i \in 1..Len(s) : u[i] \in S /\ u[i] = s[i]
      BY <1>1
    <2>2. /\ SubSeq(u, 1, Len(s)) \in Seq(S)
          /\ Len(SubSeq(u, 1, Len(s))) = IF 1 <= Len(s) THEN Len(s) - 1 + 1 ELSE 0
          /\ \A i \in 1..(Len(s) - 1 + 1) : SubSeq(u, 1, Len(s))[i] = u[1 + i - 1]
      BY <2>1, SubSeqProperties
    <2>3. Len(SubSeq(u, 1, Len(s))) = Len(s) /\ \A i \in 1..Len(s) : SubSeq(u, 1, Len(s))[i] = s[i]
      BY <1>1, <2>1, <2>2
    <2> QED
      BY <2>2, <2>3, SeqEqual
  <1>3. ASSUME NEW k \in 0..Len(t)
        PROVE  /\ SubSeq(u, Len(s) + k + 1, Len(u)) \in Seq(S)
               /\ Len(SubSeq(u, Len(s) + k + 1, Len(u))) = Len(t) - k
               /\ \A i \in 1..(Len(t) - k) : SubSeq(u, Len(s) + k + 1, Len(u))[i] = t[k + i]
    <2> DEFINE m == Len(s) + k + 1
               n == Len(u)
    <2>1. m \in Int /\ n \in Int /\ \A i \in m..n : u[i] \in S
      BY <1>1
    <2>2. n - m + 1 = Len(t) - k /\ (m <= n <=> 1 <= Len(t) - k)
      BY <1>1
    <2>3. ASSUME NEW i \in 1..(Len(t) - k)
          PROVE  u[m + i - 1] = t[k + i]
      <3>1. /\ m + i - 1 \in 1..(Len(s) + Len(t)) /\ ~(m + i - 1 <= Len(s))
            /\ (m + i - 1) - Len(s) = k + i
        BY <1>1
      <3> QED
        BY <1>1, <3>1
    <2> HIDE DEF m, n
    <2>4. /\ SubSeq(u, m, n) \in Seq(S)
          /\ Len(SubSeq(u, m, n)) = IF m <= n THEN n - m + 1 ELSE 0
          /\ \A i \in 1..(n - m + 1) : SubSeq(u, m, n)[i] = u[m + i - 1]
      BY <2>1, SubSeqProperties
    <2>5. Len(SubSeq(u, m, n)) = Len(t) - k
      BY <1>1, <2>2, <2>4
    <2>6. \A i \in 1..(Len(t) - k) : SubSeq(u, m, n)[i] = t[k + i]
      BY <2>2, <2>3, <2>4
    <2> QED
      BY <2>4, <2>5, <2>6 DEF m, n
  <1>4. SubSeq(u, Len(s) + 1, Len(u)) = t
    <2>1. 0 \in 0..Len(t) /\ Len(s) + 0 + 1 = Len(s) + 1 /\ Len(t) - 0 = Len(t)
          /\ \A i \in 1..Len(t) : 0 + i = i
      BY <1>1
    <2>2. /\ SubSeq(u, Len(s) + 1, Len(u)) \in Seq(S)
          /\ Len(SubSeq(u, Len(s) + 1, Len(u))) = Len(t)
          /\ \A i \in 1..Len(t) : SubSeq(u, Len(s) + 1, Len(u))[i] = t[i]
      <3> DEFINE Rest(k) == SubSeq(u, Len(s) + k + 1, Len(u))
      <3>1. Rest(0) \in Seq(S) /\ Len(Rest(0)) = Len(t) - 0 /\ \A i \in 1..(Len(t) - 0) : Rest(0)[i] = t[0 + i]
        BY <1>3, <2>1
      <3> QED
        BY SMTT(60), <2>1, <3>1
    <2> DEFINE x == SubSeq(u, Len(s) + 1, Len(u))
    <2> HIDE DEF x
    <2>3. x \in Seq(S) /\ Len(x) = Len(t) /\ \A i \in 1..Len(t) : x[i] = t[i]
      BY <2>2 DEF x
    <2>4. x = t
      BY <2>3, SeqEqual
    <2> QED
      BY <2>4 DEF x
  <1>5. ASSUME t # << >>
        PROVE  u[Len(s) + 1] = Head(t) /\ SubSeq(u, Len(s) + 2, Len(u)) = Tail(t)
    <2>1. 1 \in 0..Len(t) /\ Len(s) + 1 + 1 = Len(s) + 2 /\ Len(t) \in Nat \ {0}
          /\ \A i \in 1..Len(t) : 1 + i = i + 1
      BY <1>1, <1>5
    <2>2. /\ Tail(t) \in Seq(S) /\ Len(Tail(t)) = Len(t) - 1
          /\ \A i \in 1..Len(Tail(t)) : Tail(t)[i] = t[i + 1]
      BY <1>5, HeadTailProperties
    <2>3. /\ SubSeq(u, Len(s) + 2, Len(u)) \in Seq(S)
          /\ Len(SubSeq(u, Len(s) + 2, Len(u))) = Len(t) - 1
          /\ \A i \in 1..(Len(t) - 1) : SubSeq(u, Len(s) + 2, Len(u))[i] = t[1 + i]
      BY <1>3, <2>1
    <2>4. \A i \in 1..(Len(t) - 1) : SubSeq(u, Len(s) + 2, Len(u))[i] = Tail(t)[i]
      BY SMTT(60), <2>1, <2>2, <2>3
    <2>5. SubSeq(u, Len(s) + 2, Len(u)) = Tail(t)
      BY <2>2, <2>3, <2>4, SeqEqual
    <2>6. u[Len(s) + 1] = t[1] /\ Head(t) = t[1]
      BY <1>1, <2>1
    <2> QED
      BY <2>5, <2>6
  <1> QED
    BY <1>2, <1>4, <1>5 DEF u

(***************************************************************************)
(* The writes of the batches and the versions of the responses.            *)
(***************************************************************************)
\* f applied to each element of s.
Maps(f, S, T) == f \in [S -> T]
Mapped(f, s) == [i \in DOMAIN s |-> f[s[i]]]

\* It keeps lengths, and what is added or removed at the ends.
LEMMA MappedParts ==
    ASSUME NEW S, NEW T, NEW f, Maps(f, S, T), NEW s \in Seq(S)
    PROVE  /\ Mapped(f, s) \in Seq(T) /\ Len(Mapped(f, s)) = Len(s)
           /\ \A i \in 1..Len(s) : Mapped(f, s)[i] = f[s[i]]
  <1>1. DOMAIN s = 1..Len(s) /\ Len(s) \in Nat /\ \A i \in 1..Len(s) : s[i] \in S
    BY LenProperties, ElementOfSeq
  <1>2. Mapped(f, s) = [i \in 1..Len(s) |-> f[s[i]]]
    BY <1>1 DEF Mapped
  <1>3. \A i \in 1..Len(s) : f[s[i]] \in T
    BY <1>1 DEF Maps
  <1>4. Mapped(f, s) \in [1..Len(s) -> T]
    BY <1>2, <1>3
  <1>5. Mapped(f, s) \in Seq(T)
    BY <1>1, <1>4, SeqDef
  <1>6. DOMAIN Mapped(f, s) = 1..Len(s) /\ DOMAIN Mapped(f, s) = 1..Len(Mapped(f, s))
        /\ Len(Mapped(f, s)) \in Nat
    BY <1>2, <1>5, LenProperties
  <1>7. Len(Mapped(f, s)) = Len(s)
    BY <1>1, <1>6
  <1> QED
    BY <1>2, <1>5, <1>7

LEMMA MappedTail ==
    ASSUME NEW S, NEW T, NEW f, Maps(f, S, T), NEW s \in Seq(S), s # << >>
    PROVE  /\ Mapped(f, Tail(s)) = Tail(Mapped(f, s)) /\ Mapped(f, s) # << >>
           /\ Head(Mapped(f, s)) = f[Head(s)]
  <1> DEFINE m == Mapped(f, s)
             t == Tail(s)
             n == Mapped(f, t)
  <1>1. /\ t \in Seq(S) /\ Len(t) = Len(s) - 1 /\ Len(s) \in Nat \ {0}
        /\ \A i \in 1..Len(t) : t[i] = s[i + 1]
        /\ Head(s) = s[1]
    BY HeadTailProperties
  <1>2. m \in Seq(T) /\ Len(m) = Len(s) /\ \A i \in 1..Len(s) : m[i] = f[s[i]]
    BY MappedParts
  <1>3. /\ n \in Seq(T) /\ Len(n) = Len(s) - 1
        /\ \A i \in 1..(Len(s) - 1) : n[i] = f[s[i + 1]]
    <2> HIDE DEF t
    <2>1. n \in Seq(T) /\ Len(n) = Len(t) /\ \A i \in 1..Len(t) : n[i] = f[t[i]]
      BY <1>1, MappedParts
    <2> HIDE DEF n
    <2> QED
      BY <1>1, <2>1
  <1> HIDE DEF m, n, t
  <1>4. m # << >> /\ Head(m) = m[1]
    BY <1>1, <1>2
  <1>5. Tail(m) \in Seq(T) /\ Len(Tail(m)) = Len(s) - 1
        /\ \A i \in 1..(Len(s) - 1) : Tail(m)[i] = m[i + 1]
    BY <1>2, <1>4, HeadTailProperties
  <1>6. \A i \in 1..(Len(s) - 1) : Tail(m)[i] = n[i]
    <2>1. \A i \in 1..(Len(s) - 1) : i + 1 \in 1..Len(s)
      BY <1>1
    <2> QED
      BY <1>2, <1>3, <1>5, <2>1
  <1>7. Tail(m) = n
    BY <1>3, <1>5, <1>6, SeqEqual
  <1>8. Head(m) = f[Head(s)]
    BY <1>1, <1>2, <1>4
  <1> QED
    BY <1>4, <1>7, <1>8 DEF m, n, t

LEMMA MappedAppend ==
    ASSUME NEW S, NEW T, NEW f, Maps(f, S, T), NEW s \in Seq(S), NEW e \in S
    PROVE  Mapped(f, Append(s, e)) = Append(Mapped(f, s), f[e])
  <1> DEFINE m == Mapped(f, s)
             a == Append(s, e)
             n == Mapped(f, a)
             b == Append(m, f[e])
  <1>1. /\ a \in Seq(S) /\ Len(a) = Len(s) + 1 /\ Len(s) \in Nat
        /\ \A i \in 1..Len(s) : a[i] = s[i]
        /\ a[Len(s) + 1] = e
    BY AppendProperties
  <1>2. m \in Seq(T) /\ Len(m) = Len(s) /\ \A i \in 1..Len(s) : m[i] = f[s[i]]
    BY MappedParts
  <1> HIDE DEF a
  <1>3. n \in Seq(T) /\ Len(n) = Len(a) /\ \A i \in 1..Len(a) : n[i] = f[a[i]]
    BY <1>1, MappedParts
  <1> HIDE DEF m, n
  <1>4. f[e] \in T
    BY DEF Maps
  <1>5. /\ b \in Seq(T) /\ Len(b) = Len(s) + 1
        /\ \A i \in 1..Len(s) : b[i] = m[i]
        /\ b[Len(s) + 1] = f[e]
    BY <1>2, <1>4, AppendProperties
  <1> HIDE DEF b
  <1>6. ASSUME NEW i \in 1..(Len(s) + 1)
        PROVE  n[i] = b[i]
    <2>1. CASE i = Len(s) + 1
      BY <1>1, <1>3, <1>5, <2>1
    <2>2. CASE i # Len(s) + 1
      <3>1. i \in 1..Len(s) /\ i \in 1..Len(a)
        BY <1>1, <2>2
      <3> QED
        BY SMTT(60), <1>1, <1>2, <1>3, <1>5, <3>1
    <2> QED
      BY <2>1, <2>2
  <1>7. Len(n) = Len(b) /\ \A i \in 1..Len(n) : n[i] = b[i]
    BY <1>1, <1>3, <1>5, <1>6
  <1>8. n = b
    BY <1>3, <1>5, <1>7, SeqEqual
  <1> QED
    BY <1>8 DEF a, b, m, n

\* The writes of a sequence of batches, or of what was applied to the cache.
LEMMA PatchesParts ==
    ASSUME NEW S, \A x \in S : x.patch \in Patches, NEW s \in Seq(S)
    PROVE  /\ PatchesOf(s) \in Seq(Patches) /\ Len(PatchesOf(s)) = Len(s)
           /\ \A i \in 1..Len(s) : PatchesOf(s)[i] = s[i].patch
           /\ s # << >> => /\ PatchesOf(s) # << >> /\ Head(PatchesOf(s)) = Head(s).patch
                           /\ PatchesOf(Tail(s)) = Tail(PatchesOf(s))
           /\ \A e \in S : PatchesOf(Append(s, e)) = Append(PatchesOf(s), e.patch)
  <1> DEFINE f == [x \in S |-> x.patch]
  <1>1. Maps(f, S, Patches) /\ \A x \in S : f[x] = x.patch
    BY DEF Maps
  <1> HIDE DEF f
  <1>2. ASSUME NEW t \in Seq(S)
        PROVE  PatchesOf(t) = Mapped(f, t)
    <2>1. \A i \in DOMAIN t : t[i] \in S
      BY LenProperties, ElementOfSeq
    <2> QED
      BY <1>1, <2>1 DEF PatchesOf, Mapped
  <1>3. PatchesOf(s) = Mapped(f, s)
    BY <1>2
  <1>4. /\ Mapped(f, s) \in Seq(Patches) /\ Len(Mapped(f, s)) = Len(s)
        /\ \A i \in 1..Len(s) : Mapped(f, s)[i] = f[s[i]]
    BY <1>1, MappedParts
  <1>5. \A i \in 1..Len(s) : f[s[i]] = s[i].patch
    BY <1>1, ElementOfSeq
  <1>6. ASSUME s # << >>
        PROVE  /\ PatchesOf(s) # << >> /\ Head(PatchesOf(s)) = Head(s).patch
               /\ PatchesOf(Tail(s)) = Tail(PatchesOf(s))
    <2>1. Head(s) \in S /\ Tail(s) \in Seq(S)
      BY <1>6, HeadTailProperties
    <2>2. PatchesOf(Tail(s)) = Mapped(f, Tail(s))
      BY <1>2, <2>1
    <2>3. /\ Mapped(f, Tail(s)) = Tail(Mapped(f, s)) /\ Mapped(f, s) # << >>
          /\ Head(Mapped(f, s)) = f[Head(s)]
      BY <1>1, <1>6, MappedTail
    <2> QED
      BY <1>1, <1>3, <2>1, <2>2, <2>3
  <1>7. ASSUME NEW e \in S
        PROVE  PatchesOf(Append(s, e)) = Append(PatchesOf(s), e.patch)
    <2>1. Append(s, e) \in Seq(S)
      BY AppendProperties
    <2>2. PatchesOf(Append(s, e)) = Mapped(f, Append(s, e))
      BY <1>2, <2>1
    <2>3. Mapped(f, Append(s, e)) = Append(Mapped(f, s), f[e])
      BY <1>1, MappedAppend
    <2> QED
      BY <1>1, <1>3, <2>2, <2>3
  <1> QED
    BY <1>3, <1>4, <1>5, <1>6, <1>7

\* How far responses, or what was applied to the cache, are ahead of version b.
LEMMA AheadParts ==
    ASSUME NEW S, NEW b \in Nat, \A x \in S : x.version \in Nat, NEW s \in Seq(S)
    PROVE  /\ AheadOf(b, s) \in Seq(Nat) /\ Len(AheadOf(b, s)) = Len(s)
           /\ \A i \in 1..Len(s) : AheadOf(b, s)[i] = Ahead(b, s[i].version)
           /\ s # << >> => /\ AheadOf(b, s) # << >>
                           /\ Head(AheadOf(b, s)) = Ahead(b, Head(s).version)
                           /\ AheadOf(b, Tail(s)) = Tail(AheadOf(b, s))
           /\ \A e \in S : AheadOf(b, Append(s, e)) = Append(AheadOf(b, s), Ahead(b, e.version))
  <1> DEFINE f == [x \in S |-> Ahead(b, x.version)]
  <1>1. Maps(f, S, Nat) /\ \A x \in S : f[x] = Ahead(b, x.version)
    <2>1. \A v \in Nat : Ahead(b, v) \in Nat
      BY DEF Ahead
    <2> QED
      BY <2>1 DEF Maps
  <1> HIDE DEF f
  <1>2. ASSUME NEW t \in Seq(S)
        PROVE  AheadOf(b, t) = Mapped(f, t)
    <2>1. \A i \in DOMAIN t : t[i] \in S
      BY LenProperties, ElementOfSeq
    <2> QED
      BY <1>1, <2>1 DEF AheadOf, Mapped
  <1>3. AheadOf(b, s) = Mapped(f, s)
    BY <1>2
  <1>4. /\ Mapped(f, s) \in Seq(Nat) /\ Len(Mapped(f, s)) = Len(s)
        /\ \A i \in 1..Len(s) : Mapped(f, s)[i] = f[s[i]]
    BY <1>1, MappedParts
  <1>5. \A i \in 1..Len(s) : f[s[i]] = Ahead(b, s[i].version)
    BY <1>1, ElementOfSeq
  <1>6. ASSUME s # << >>
        PROVE  /\ AheadOf(b, s) # << >> /\ Head(AheadOf(b, s)) = Ahead(b, Head(s).version)
               /\ AheadOf(b, Tail(s)) = Tail(AheadOf(b, s))
    <2>1. Head(s) \in S /\ Tail(s) \in Seq(S)
      BY <1>6, HeadTailProperties
    <2>2. AheadOf(b, Tail(s)) = Mapped(f, Tail(s))
      BY <1>2, <2>1
    <2>3. /\ Mapped(f, Tail(s)) = Tail(Mapped(f, s)) /\ Mapped(f, s) # << >>
          /\ Head(Mapped(f, s)) = f[Head(s)]
      BY <1>1, <1>6, MappedTail
    <2> QED
      BY <1>1, <1>3, <2>1, <2>2, <2>3
  <1>7. ASSUME NEW e \in S
        PROVE  AheadOf(b, Append(s, e)) = Append(AheadOf(b, s), Ahead(b, e.version))
    <2>1. Append(s, e) \in Seq(S)
      BY AppendProperties
    <2>2. AheadOf(b, Append(s, e)) = Mapped(f, Append(s, e))
      BY <1>2, <2>1
    <2>3. Mapped(f, Append(s, e)) = Append(Mapped(f, s), f[e])
      BY <1>1, MappedAppend
    <2> QED
      BY <1>1, <1>3, <2>2, <2>3
  <1> QED
    BY <1>3, <1>4, <1>5, <1>6, <1>7

(***************************************************************************)
(* The versions ahead.                                                     *)
(***************************************************************************)
\* What is ahead of version b of a history of n versions.
LEMMA AheadLine ==
    ASSUME NEW S, NEW h \in Seq(S), NEW b \in 0..Len(h)
    PROVE  /\ SubSeq(h, b + 1, Len(h)) \in Seq(S)
           /\ Len(SubSeq(h, b + 1, Len(h))) = Len(h) - b
           /\ \A i \in 1..(Len(h) - b) : SubSeq(h, b + 1, Len(h))[i] = h[b + i]
  <1> DEFINE m == b + 1
             n == Len(h)
  <1>1. /\ m \in Int /\ n \in Int /\ \A i \in m..n : h[i] \in S
        /\ n - m + 1 = n - b /\ (m <= n <=> 1 <= n - b) /\ n - b \in Nat
        /\ \A i \in Nat : m + i - 1 = b + i
    OBVIOUS
  <1> HIDE DEF m, n
  <1>2. /\ SubSeq(h, m, n) \in Seq(S)
        /\ Len(SubSeq(h, m, n)) = IF m <= n THEN n - m + 1 ELSE 0
        /\ \A i \in 1..(n - m + 1) : SubSeq(h, m, n)[i] = h[m + i - 1]
    BY <1>1, SubSeqProperties
  <1>3. Len(SubSeq(h, m, n)) = n - b
    BY <1>1, <1>2
  <1>4. \A i \in 1..(n - b) : SubSeq(h, m, n)[i] = h[b + i]
    BY <1>1, <1>2
  <1> QED
    BY <1>2, <1>3, <1>4 DEF m, n

\* A new version comes last.
LEMMA AheadGrows ==
    ASSUME NEW S, NEW h \in Seq(S), NEW b \in 0..Len(h), NEW e \in S
    PROVE  SubSeq(Append(h, e), b + 1, Len(Append(h, e))) = Append(SubSeq(h, b + 1, Len(h)), e)
  <1> DEFINE a == Append(h, e)
             line == SubSeq(h, b + 1, Len(h))
             new == SubSeq(a, b + 1, Len(a))
             grown == Append(line, e)
  <1>1. /\ a \in Seq(S) /\ Len(a) = Len(h) + 1 /\ Len(h) \in Nat
        /\ \A i \in 1..Len(h) : a[i] = h[i]
        /\ a[Len(h) + 1] = e
    BY AppendProperties
  <1>2. /\ line \in Seq(S) /\ Len(line) = Len(h) - b
        /\ \A i \in 1..(Len(h) - b) : line[i] = h[b + i]
    BY AheadLine
  <1> HIDE DEF a, line
  <1>3. b \in 0..Len(a)
    BY <1>1
  <1>4. /\ new \in Seq(S) /\ Len(new) = Len(a) - b
        /\ \A i \in 1..(Len(a) - b) : new[i] = a[b + i]
    BY <1>1, <1>3, AheadLine
  <1>5. /\ grown \in Seq(S) /\ Len(grown) = Len(line) + 1
        /\ \A i \in 1..Len(line) : grown[i] = line[i]
        /\ grown[Len(line) + 1] = e
    BY <1>2, AppendProperties
  <1> HIDE DEF new, grown
  <1>6. Len(new) = Len(h) - b + 1 /\ Len(grown) = Len(h) - b + 1
    BY <1>1, <1>2, <1>4, <1>5
  <1>7. ASSUME NEW i \in 1..(Len(h) - b + 1)
        PROVE  new[i] = grown[i]
    <2>0. i \in 1..(Len(a) - b)
      BY <1>1
    <2>1. new[i] = a[b + i]
      BY <1>4, <2>0
    <2>2. CASE i = Len(h) - b + 1
      <3>0. Len(line) = Len(h) - b /\ Len(h) \in Nat
        BY <1>1, <1>2
      <3>1. b + i = Len(h) + 1 /\ i = Len(line) + 1
        BY <2>2, <3>0
      <3> QED
        BY <1>1, <1>5, <2>1, <3>1
    <2>3. CASE i # Len(h) - b + 1
      <3>0. Len(line) = Len(h) - b /\ Len(h) \in Nat
        BY <1>1, <1>2
      <3>1. i \in 1..(Len(h) - b) /\ b + i \in 1..Len(h) /\ i \in 1..Len(line)
        BY <2>3, <3>0
      <3> QED
        BY <1>1, <1>2, <1>5, <2>1, <3>1
    <2> QED
      BY <2>2, <2>3
  <1>8. new = grown
    BY <1>4, <1>5, <1>6, <1>7, SeqEqual
  <1> QED
    BY <1>8 DEF a, line, new, grown

\* The k-th version ahead of b is version b + k, and what is ahead of it comes behind it.
LEMMA AheadMoves ==
    ASSUME NEW S, NEW h \in Seq(S), NEW b \in 0..Len(h), NEW k \in 1..(Len(h) - b)
    PROVE  LET line == SubSeq(h, b + 1, Len(h))
           IN  /\ line[k] = h[b + k]
               /\ SubSeq(line, k + 1, Len(line)) = SubSeq(h, b + k + 1, Len(h))
  <1> DEFINE line == SubSeq(h, b + 1, Len(h))
             c == b + k
             rest == SubSeq(line, k + 1, Len(line))
             tail == SubSeq(h, c + 1, Len(h))
  <1>1. /\ line \in Seq(S) /\ Len(line) = Len(h) - b
        /\ \A i \in 1..(Len(h) - b) : line[i] = h[b + i]
    BY AheadLine
  <1>2. k \in 0..Len(line) /\ c \in 0..Len(h) /\ Len(line) - k = Len(h) - c
    BY <1>1
  <1> HIDE DEF line, c
  <1>3. /\ rest \in Seq(S) /\ Len(rest) = Len(line) - k
        /\ \A i \in 1..(Len(line) - k) : rest[i] = line[k + i]
    BY <1>1, <1>2, AheadLine
  <1>4. /\ tail \in Seq(S) /\ Len(tail) = Len(h) - c
        /\ \A i \in 1..(Len(h) - c) : tail[i] = h[c + i]
    BY <1>2, AheadLine
  <1> HIDE DEF rest, tail
  <1>5. ASSUME NEW i \in 1..(Len(h) - c)
        PROVE  rest[i] = tail[i]
    <2>1. k + i \in 1..(Len(h) - b) /\ b + (k + i) = c + i
      BY <1>2 DEF c
    <2> QED
      BY <1>1, <1>2, <1>3, <1>4, <2>1
  <1>6. rest = tail
    BY <1>2, <1>3, <1>4, <1>5, SeqEqual
  <1>7. line[k] = h[c]
    BY <1>1 DEF c
  <1> QED
    BY <1>6, <1>7 DEF line, c, rest, tail

(***************************************************************************)
(* What the mapping makes of the state.                                    *)
(***************************************************************************)
Kept == [patch : Patches, version : Nat]

LEMMA MappingTyped ==
    ASSUME RefinementInv
    PROVE  /\ history \in Seq(Documents) /\ Len(history) \in Nat \ {0} /\ Current \in Documents
           /\ sentBase \in Nat /\ sentBase \in 1..Len(history)
           /\ queue \in Seq(Batch) /\ acks \in Seq(Response) /\ unseen \in Seq(Kept)
           /\ Len(queue) \in Nat /\ Len(acks) \in Nat /\ Len(unseen) \in Nat
           /\ \A x \in Batch : x.patch \in Patches
           /\ \A x \in Kept : x.patch \in Patches /\ x.version \in Nat
           /\ \A x \in Response : x.version \in Nat
  <1>1. /\ history \in Seq(Documents) /\ history # << >> /\ sentBase \in 1..Len(history)
        /\ unseen \in Seq(Kept)
    BY DEF RefinementInv, ClientInv, TypeOK, VersionsSound, Kept
  <1>2. Len(history) \in Nat \ {0}
    BY <1>1, EmptySeq
  <1>3. Current \in Documents
    BY <1>1, <1>2, ElementOfSeq DEF Current
  <1>4. queue \in Seq(Batch) /\ acks \in Seq(Response)
    BY Facts DEF RefinementInv
  <1>5. Len(queue) \in Nat /\ Len(acks) \in Nat /\ Len(unseen) \in Nat
    BY <1>1, <1>4, LenProperties
  <1>6. sentBase \in Nat
    BY <1>1, <1>2
  <1>7. /\ \A x \in Batch : x.patch \in Patches
        /\ \A x \in Kept : x.patch \in Patches /\ x.version \in Nat
        /\ \A x \in Response : x.version \in Nat
    BY DEF Batch, Kept, Response
  <1> QED
    BY <1>1, <1>2, <1>3, <1>4, <1>5, <1>6, <1>7

\* The two halves of Own and At.
LEMMA HalvesTyped ==
    ASSUME RefinementInv
    PROVE  /\ PatchesOf(unseen) \in Seq(Patches) /\ PatchesOf(queue) \in Seq(Patches)
           /\ Len(PatchesOf(unseen)) = Len(unseen) /\ Len(PatchesOf(queue)) = Len(queue)
           /\ AheadOf(sentBase, unseen) \in Seq(Nat) /\ AheadOf(sentBase, acks) \in Seq(Nat)
           /\ Len(AheadOf(sentBase, unseen)) = Len(unseen)
           /\ Len(AheadOf(sentBase, acks)) = Len(acks)
           /\ Own \in Seq(Patches) /\ Len(Own) = Len(unseen) + Len(queue)
           /\ At \in Seq(Nat) /\ Len(At) = Len(unseen) + Len(acks)
  <1>1. /\ PatchesOf(unseen) \in Seq(Patches) /\ PatchesOf(queue) \in Seq(Patches)
        /\ Len(PatchesOf(unseen)) = Len(unseen) /\ Len(PatchesOf(queue)) = Len(queue)
    BY MappingTyped, PatchesParts
  <1>2. /\ AheadOf(sentBase, unseen) \in Seq(Nat) /\ AheadOf(sentBase, acks) \in Seq(Nat)
        /\ Len(AheadOf(sentBase, unseen)) = Len(unseen)
        /\ Len(AheadOf(sentBase, acks)) = Len(acks)
    BY SMTT(60), MappingTyped, AheadParts
  <1>3. Own \in Seq(Patches) /\ Len(Own) = Len(unseen) + Len(queue)
    <2> DEFINE u == PatchesOf(unseen)
               q == PatchesOf(queue)
    <2>1. Own = u \o q
      BY DEF Own
    <2> HIDE DEF u, q
    <2>2. u \in Seq(Patches) /\ q \in Seq(Patches) /\ Len(u) = Len(unseen) /\ Len(q) = Len(queue)
      BY <1>1 DEF u, q
    <2>3. u \o q \in Seq(Patches) /\ Len(u \o q) = Len(u) + Len(q)
      BY <2>2, ConcatProperties
    <2> QED
      BY <2>1, <2>2, <2>3
  <1>4. At \in Seq(Nat) /\ Len(At) = Len(unseen) + Len(acks)
    <2> DEFINE u == AheadOf(sentBase, unseen)
               a == AheadOf(sentBase, acks)
    <2>1. At = u \o a
      BY DEF At
    <2> HIDE DEF u, a
    <2>2. u \in Seq(Nat) /\ a \in Seq(Nat) /\ Len(u) = Len(unseen) /\ Len(a) = Len(acks)
      BY <1>2 DEF u, a
    <2>3. u \o a \in Seq(Nat) /\ Len(u \o a) = Len(u) + Len(a)
      BY <2>2, ConcatProperties
    <2> QED
      BY <2>1, <2>2, <2>3
  <1> QED
    BY <1>1, <1>2, <1>3, <1>4

\* The cache is as far ahead of what was sent as the last write in it.
LEMMA ShownIsCached ==
    ASSUME RefinementInv
    PROVE  /\ cached.version \in sentBase..Len(history)
           /\ cached.committed => sentBase < cached.version
           /\ Contract!Shown = cached.version - sentBase
  <1>1. CASE unseen = << >>
    <2>1. Len(unseen) = 0 /\ cached.version = sentBase /\ ~cached.committed
      BY <1>1 DEF RefinementInv, VersionsSound
    <2>2. Contract!Shown = 0
      BY <2>1 DEF Contract!Shown
    <2> QED
      BY <2>1, <2>2, MappingTyped
  <1>2. CASE unseen # << >>
    <2> DEFINE n == Len(unseen)
    <2>1. n \in 1..n /\ n \in DOMAIN unseen /\ n # 0
      BY <1>2, MappingTyped, EmptySeq, LenProperties
    <2>2. cached.version = unseen[n].version /\ unseen[n].version \in (sentBase + 1)..Len(history)
      BY <1>2, <2>1 DEF RefinementInv, VersionsSound
    <2>3. At[n] = AheadOf(sentBase, unseen)[n]
      <3> DEFINE u == AheadOf(sentBase, unseen)
                 a == AheadOf(sentBase, acks)
      <3>1. /\ At = u \o a /\ u \in Seq(Nat) /\ a \in Seq(Nat)
            /\ Len(u) = n /\ Len(a) \in Nat /\ n \in Nat
        BY MappingTyped, HalvesTyped DEF At
      <3> HIDE DEF u, a, n
      <3>2. \A i \in 1..(Len(u) + Len(a)) : (u \o a)[i] = IF i <= Len(u) THEN u[i] ELSE a[i - Len(u)]
        BY <3>1, ConcatProperties
      <3>3. n \in 1..(Len(u) + Len(a)) /\ n <= Len(u)
        BY <2>1, <3>1
      <3>4. At[n] = u[n]
        BY <3>1, <3>2, <3>3
      <3> QED
        BY <3>4 DEF u
    <2>4. AheadOf(sentBase, unseen)[n] = Ahead(sentBase, unseen[n].version)
      BY <2>1 DEF AheadOf
    <2>5. Contract!Shown = Ahead(sentBase, unseen[n].version)
      BY <2>1, <2>3, <2>4 DEF Contract!Shown
    <2>6. /\ cached.version \in (sentBase + 1)..Len(history)
          /\ Contract!Shown = Ahead(sentBase, cached.version)
      BY <2>2, <2>5
    <2>7. sentBase \in Nat /\ Len(history) \in Nat
      BY MappingTyped
    <2>8. Ahead(sentBase, cached.version) = cached.version - sentBase
      BY <2>6, <2>7 DEF Ahead
    <2> QED
      BY <2>6, <2>7, <2>8
  <1> QED
    BY <1>1, <1>2

(***************************************************************************)
(* Steps that leave versions, writes and responses alone.                  *)
(***************************************************************************)
LEMMA NothingMoves ==
    ASSUME RefinementInv, UNCHANGED <<history, sentBase, unseen, cached, queue, acks>>
    PROVE  VersionsSound' /\ UNCHANGED Contract!vars
  <1>1. VersionsSound'
    BY DEF RefinementInv, VersionsSound
  <1>2. UNCHANGED <<Feed, Own, At, Current>>
    BY DEF Feed, Own, At, Current, PatchesOf, AheadOf, Ahead
  <1> QED
    BY <1>1, <1>2 DEF Contract!vars

\* The responses on their way are lost with the stream, or with the process.
LEMMA ResponsesLost ==
    ASSUME RefinementInv, UNCHANGED <<history, sentBase, unseen, cached, queue>>, acks' = << >>
    PROVE  VersionsSound' /\ Contract!Break
  <1>1. VersionsSound'
    BY DEF RefinementInv, VersionsSound
  <1>2. UNCHANGED <<Feed, Own, Current>>
    BY DEF Feed, Own, Current, PatchesOf
  <1>3. At' = AheadOf(sentBase, unseen)
    <2>1. AheadOf(sentBase, << >>) = << >>
      BY DEF AheadOf
    <2>2. At' = AheadOf(sentBase, unseen) \o << >>
      <3>1. At' = AheadOf(sentBase', unseen') \o AheadOf(sentBase', acks')
        BY DEF At, AheadOf, Ahead
      <3> QED
        BY <2>1, <3>1
    <2> QED
      BY <2>2, HalvesTyped, ConcatEmptySeq
  <1>4. SubSeq(At, 1, Len(unseen)) = AheadOf(sentBase, unseen)
    BY HalvesTyped, Parts DEF At
  <1> QED
    BY <1>1, <1>2, <1>3, <1>4 DEF Contract!Break

(***************************************************************************)
(* Steps of the backend.                                                   *)
(***************************************************************************)
\* A commit is a new version at the end of those that are ahead, or none.
LEMMA VersionCommitted ==
    ASSUME RefinementInv, sentBase' = sentBase, NEW doc \in Documents, Committed(doc)
    PROVE  /\ Current' = doc /\ (history[sentBase])' = history[sentBase]
           /\ Feed' = IF doc = Current THEN Feed ELSE Append(Feed, doc)
           /\ Len(history') \in Nat /\ Len(history) <= Len(history')
           /\ Len(Feed') = Len(history') - sentBase
  <1>1. CASE doc = Current
    <2>1. history' = history
      BY <1>1 DEF Committed
    <2>2. Feed' = Feed /\ Current' = Current
      BY <2>1 DEF Feed, Current
    <2>3. Len(Feed) = Len(history) - sentBase
      <3>1. history \in Seq(Documents) /\ sentBase \in 0..Len(history)
        BY MappingTyped
      <3> QED
        BY <3>1, AheadLine DEF Feed
    <2> QED
      BY <1>1, <2>1, <2>2, <2>3, MappingTyped
  <1>2. CASE doc # Current
    <2>1. history' = Append(history, doc)
      BY <1>2 DEF Committed
    <2>2. /\ Len(history') = Len(history) + 1 /\ history'[Len(history) + 1] = doc
          /\ history'[sentBase] = history[sentBase] /\ history' \in Seq(Documents)
      BY <2>1, MappingTyped, AppendProperties
    <2>3. Current' = doc
      BY <2>2 DEF Current
    <2>4. Feed' = Append(Feed, doc)
      <3>1. Feed' = SubSeq(Append(history, doc), sentBase + 1, Len(Append(history, doc)))
        BY <2>1 DEF Feed
      <3>2. history \in Seq(Documents) /\ sentBase \in 0..Len(history)
        BY MappingTyped
      <3> QED
        BY <3>1, <3>2, AheadGrows DEF Feed
    <2>5. Len(Feed') = Len(history') - sentBase
      <3>1. history' \in Seq(Documents) /\ sentBase \in 0..Len(history')
        BY <2>2, MappingTyped
      <3>2. Feed' = SubSeq(history', sentBase + 1, Len(history'))
        BY DEF Feed
      <3> QED
        BY <3>1, <3>2, AheadLine
    <2>6. Len(history') \in Nat /\ Len(history) <= Len(history')
      BY <2>2, MappingTyped
    <2> QED
      BY <1>2, <2>2, <2>3, <2>4, <2>5, <2>6
  <1> QED
    BY <1>1, <1>2

\* A write of another device, or a request of a stream that is closed.
LEMMA OthersCommit ==
    ASSUME RefinementInv, UNCHANGED <<sentBase, unseen, cached, queue, acks>>,
           NEW doc \in Documents, Committed(doc)
    PROVE  VersionsSound' /\ Contract!ForeignCommit
  <1>1. /\ Current' = doc /\ (history[sentBase])' = history[sentBase]
        /\ Feed' = IF doc = Current THEN Feed ELSE Append(Feed, doc)
        /\ Len(history') \in Nat /\ Len(history) <= Len(history')
    BY VersionCommitted
  <1>2. VersionsSound'
    BY <1>1, MappingTyped DEF RefinementInv, VersionsSound
  <1>3. UNCHANGED <<Own, At, Len(unseen)>>
    BY DEF Own, At, PatchesOf, AheadOf, Ahead
  <1> QED
    BY <1>1, <1>2, <1>3 DEF Contract!ForeignCommit, Contract!Committed

\* What is added to the second half is added to the whole.
LEMMA SecondGrows ==
    ASSUME NEW S, NEW s \in Seq(S), NEW t \in Seq(S), NEW e \in S
    PROVE  s \o Append(t, e) = Append(s \o t, e)
  <1>1. Append(t, e) = t \o <<e>> /\ <<e>> \in Seq(S) /\ s \o t \in Seq(S)
    BY AppendIsConcat, ConcatProperties
  <1>2. (s \o t) \o <<e>> = s \o (t \o <<e>>)
    BY <1>1, ConcatAssociative
  <1>3. Append(s \o t, e) = (s \o t) \o <<e>>
    BY <1>1, AppendIsConcat
  <1> QED
    BY <1>1, <1>2, <1>3

\* The backend serves the first write it has not answered.
LEMMA CommitStepMaps ==
    ASSUME RefinementInv, ServerCommits
    PROVE  VersionsSound' /\ Contract!Commit
  <1> DEFINE n == Len(acks) + 1
             doc == Merge(Current, Head(wire).patch)
             response == [batch |-> Head(wire), version |-> Len(history')]
  <1>1. /\ Matches(acks, wire, << >>, pipeline) /\ IsHead(pipeline, queue)
        /\ wire \in Seq(Batch) /\ wire # << >> /\ pipeline \in Seq(Batch)
    BY Facts DEF RefinementInv, ServerCommits
  <1>2. n \in 1..Len(queue) /\ Head(wire) = queue[n] /\ Head(wire) \in Batch
    <2>1. /\ Len(wire) \in Nat \ {0} /\ Len(pipeline) \in Nat /\ Head(wire) = wire[1]
          /\ DOMAIN wire = 1..Len(wire) /\ Head(wire) \in Batch
      BY <1>1, EmptySeq, LenProperties, HeadTailProperties
    <2>2. Len(acks) + Len(wire) = Len(pipeline) /\ wire[1] = pipeline[n]
      BY <1>1, <2>1 DEF Matches
    <2>3. Len(pipeline) <= Len(queue) /\ \A i \in 1..Len(pipeline) : pipeline[i] = queue[i]
      BY <1>1 DEF IsHead
    <2>4. n \in 1..Len(pipeline)
      BY <2>1, <2>2, MappingTyped
    <2>5. n \in 1..Len(queue)
      BY <2>1, <2>3, <2>4, MappingTyped
    <2> QED
      BY <2>1, <2>2, <2>3, <2>4, <2>5
  <1>3. doc \in Documents
    <2>1. Head(wire).patch \in Patch
      BY <1>2, MappingTyped, PatchesAssumption
    <2> QED
      BY <2>1, MappingTyped DEF Merge, Documents, Patch
  <1>4. /\ Committed(doc) /\ acks' = Append(acks, response)
        /\ UNCHANGED <<sentBase, unseen, cached, queue>>
    BY DEF ServerCommits, disk
  <1> HIDE DEF doc
  <1>5. /\ Current' = doc /\ (history[sentBase])' = history[sentBase]
        /\ Feed' = IF doc = Current THEN Feed ELSE Append(Feed, doc)
        /\ Len(history') \in Nat /\ Len(history) <= Len(history')
        /\ Len(Feed') = Len(history') - sentBase
    BY <1>3, <1>4, VersionCommitted
  <1>6. response \in Response /\ response.version = Len(history')
    BY <1>2, <1>5 DEF Response
  <1> HIDE DEF response
  <1>7. VersionsSound'
    <2>1. \A i \in DOMAIN acks' : acks'[i].version \in 1..Len(history')
      <3>1. /\ Len(acks') = Len(acks) + 1 /\ DOMAIN acks' = 1..Len(acks')
            /\ \A i \in 1..Len(acks) : acks'[i] = acks[i]
            /\ acks'[Len(acks) + 1] = response
        BY <1>4, <1>6, MappingTyped, AppendProperties
      <3>2. \A i \in 1..Len(acks) : acks[i].version \in 1..Len(history)
        BY MappingTyped DEF RefinementInv, VersionsSound
      <3>3. Len(history') \in 1..Len(history')
        BY <1>5, MappingTyped
      <3>4. ASSUME NEW i \in DOMAIN acks'
            PROVE  acks'[i].version \in 1..Len(history')
        <4>1. CASE i = Len(acks) + 1
          BY <1>6, <3>1, <3>3, <4>1
        <4>2. CASE i # Len(acks) + 1
          <5>1. i \in 1..Len(acks)
            BY <3>1, <4>2, MappingTyped
          <5> QED
            BY SMTT(60), <1>5, <3>1, <3>2, <5>1, MappingTyped
        <4> QED
          BY <4>1, <4>2
      <3> QED
        BY <3>4
    <2> QED
      BY SMTT(60), <1>4, <1>5, <2>1, MappingTyped DEF RefinementInv, VersionsSound
  <1>8. At' = Append(At, Len(Feed'))
    <2>1. AheadOf(sentBase, Append(acks, response)) =
              Append(AheadOf(sentBase, acks), Ahead(sentBase, response.version))
      <3>1. sentBase \in Nat /\ acks \in Seq(Response) /\ \A x \in Response : x.version \in Nat
        BY MappingTyped
      <3>2. \A e \in Response : AheadOf(sentBase, Append(acks, e)) =
                                    Append(AheadOf(sentBase, acks), Ahead(sentBase, e.version))
        BY <3>1, AheadParts
      <3> QED
        BY <1>6, <3>2
    <2>2. Ahead(sentBase, response.version) = Len(Feed') /\ Len(Feed') \in Nat
      BY <1>5, <1>6, MappingTyped DEF Ahead
    <2>3. At' = AheadOf(sentBase, unseen) \o AheadOf(sentBase, Append(acks, response))
      BY <1>4 DEF At, AheadOf, Ahead
    <2>4. AheadOf(sentBase, unseen) \o Append(AheadOf(sentBase, acks), Len(Feed')) =
              Append(AheadOf(sentBase, unseen) \o AheadOf(sentBase, acks), Len(Feed'))
      <3> DEFINE u == AheadOf(sentBase, unseen)
                 a == AheadOf(sentBase, acks)
      <3>1. u \in Seq(Nat) /\ a \in Seq(Nat)
        BY HalvesTyped
      <3> HIDE DEF u, a
      <3>2. u \o Append(a, Len(Feed')) = Append(u \o a, Len(Feed'))
        BY <2>2, <3>1, SecondGrows
      <3> QED
        BY <3>2 DEF u, a
    <2> QED
      BY <2>1, <2>2, <2>3, <2>4 DEF At
  <1>9. Own' = Own /\ (Len(unseen))' = Len(unseen)
    BY <1>4 DEF Own, PatchesOf
  <1>10. Len(At) + 1 <= Len(Own) /\ Own[Len(At) + 1] = Head(wire).patch
    <2> DEFINE u == PatchesOf(unseen)
               q == PatchesOf(queue)
    <2>1. /\ u \in Seq(Patches) /\ q \in Seq(Patches) /\ Len(u) = Len(unseen) /\ Len(q) = Len(queue)
          /\ Own = u \o q
      BY HalvesTyped DEF Own
    <2>2. q[n] = Head(wire).patch
      <3>1. n \in DOMAIN queue
        BY <1>2, MappingTyped, LenProperties
      <3> QED
        BY <1>2, <3>1 DEF PatchesOf
    <2> HIDE DEF u, q, n
    <2>3. \A i \in 1..(Len(u) + Len(q)) : (u \o q)[i] = IF i <= Len(u) THEN u[i] ELSE q[i - Len(u)]
      BY <2>1, ConcatProperties
    <2>4. n \in Nat /\ n <= Len(queue) /\ 1 <= n /\ Len(queue) \in Nat /\ Len(unseen) \in Nat
      BY <1>2, MappingTyped
    <2>5. Len(At) + 1 = Len(u) + n
      <3>1. Len(At) = Len(unseen) + Len(acks) /\ n = Len(acks) + 1
        BY HalvesTyped DEF n
      <3> QED
        BY <2>1, <3>1, MappingTyped
    <2>6. /\ Len(u) + n \in 1..(Len(u) + Len(q)) /\ ~(Len(u) + n <= Len(u))
          /\ (Len(u) + n) - Len(u) = n
      BY <2>1, <2>4
    <2>7. Own[Len(u) + n] = q[n]
      BY <2>1, <2>3, <2>6
    <2>8. Len(u) + n <= Len(Own)
      BY <2>1, <2>4, HalvesTyped
    <2> QED
      BY <2>2, <2>5, <2>7, <2>8
  <1>11. Merge(Current, Own[Len(At) + 1]) = doc
    BY <1>10 DEF doc
  <1> QED
    BY <1>4, <1>5, <1>7, <1>8, <1>9, <1>10, <1>11 DEF Contract!Commit, Contract!Committed

(***************************************************************************)
(* Steps of the device.                                                    *)
(***************************************************************************)
\* The app writes.
LEMMA IssueStepMaps ==
    ASSUME RefinementInv, NEW patch \in Patches, Write(patch)
    PROVE  VersionsSound' /\ Contract!Issue
  <1> DEFINE batch == [id |-> nextBatchId, patch |-> patch]
             u == PatchesOf(unseen)
             q == PatchesOf(queue)
  <1>1. /\ queue' = Append(queue, batch)
        /\ UNCHANGED <<history, sentBase, unseen, cached, acks>>
    BY DEF Write, backend
  <1>2. batch \in Batch /\ batch.patch = patch
    BY DEF RefinementInv, ClientInv, TypeOK, Batch
  <1>3. VersionsSound'
    BY <1>1 DEF RefinementInv, VersionsSound
  <1> HIDE DEF batch
  <1>4. PatchesOf(queue') = Append(q, patch)
    <2>1. queue \in Seq(Batch) /\ \A x \in Batch : x.patch \in Patches
      BY MappingTyped
    <2>2. \A e \in Batch : PatchesOf(Append(queue, e)) = Append(PatchesOf(queue), e.patch)
      BY <2>1, PatchesParts
    <2> QED
      BY <1>1, <1>2, <2>2
  <1>5. u \in Seq(Patches) /\ q \in Seq(Patches) /\ Own = u \o q
    BY HalvesTyped DEF Own
  <1>6. Own' = u \o PatchesOf(queue')
    BY <1>1 DEF Own, PatchesOf
  <1> HIDE DEF u, q
  <1>7. Own' = Append(Own, patch)
    BY <1>4, <1>5, <1>6, SecondGrows
  <1>8. Own \in Seq(Patches)
    BY HalvesTyped
  <1>9. Len(Own') = Len(Own) + 1 /\ Own'[Len(Own) + 1] = patch
    BY <1>7, <1>8, AppendProperties
  <1>10. UNCHANGED <<Feed, At, Current, history[sentBase], Len(unseen)>>
    BY <1>1 DEF Feed, At, Current, AheadOf, Ahead
  <1> QED
    BY <1>3, <1>7, <1>9, <1>10 DEF Contract!Issue

\* An answer is about the first write of the queue.
LEMMA FirstAnswered ==
    ASSUME RefinementInv, pipeline # << >>
    PROVE  /\ queue # << >> /\ Head(pipeline) = Head(queue) /\ Head(pipeline) \in Batch
           /\ Removed(queue, Head(pipeline).id) = Tail(queue)
           /\ PatchesOf(Tail(queue)) = Tail(PatchesOf(queue)) /\ PatchesOf(queue) # << >>
           /\ Head(PatchesOf(queue)) = Head(queue).patch
  <1>1. /\ pipeline \in Seq(Batch) /\ queue \in Seq(Batch) /\ Ordered(queue)
        /\ IsHead(pipeline, queue)
    BY Facts DEF RefinementInv
  <1>2. queue # << >> /\ Head(pipeline) = queue[1] /\ Head(pipeline) \in Batch
    BY <1>1, PoppedHead
  <1>3. Removed(queue, queue[1].id) = Tail(queue)
    BY <1>1, <1>2, RemovedFirst
  <1>4. Head(queue) = queue[1]
    BY <1>1, <1>2
  <1>5. \A x \in Batch : x.patch \in Patches
    BY MappingTyped
  <1>6. /\ PatchesOf(Tail(queue)) = Tail(PatchesOf(queue)) /\ PatchesOf(queue) # << >>
        /\ Head(PatchesOf(queue)) = Head(queue).patch
    BY <1>1, <1>2, <1>5, PatchesParts
  <1> QED
    BY <1>2, <1>3, <1>4, <1>6

\* The first of the second half is forgotten.
LEMMA SecondPopped ==
    ASSUME NEW S, NEW s \in Seq(S), NEW t \in Seq(S), t # << >>
    PROVE  Contract!Without(s \o t, Len(s) + 1) = s \o Tail(t)
  <1>1. /\ SubSeq(s \o t, 1, Len(s)) = s
        /\ SubSeq(s \o t, Len(s) + 2, Len(s \o t)) = Tail(t)
    BY Parts
  <1> DEFINE u == s \o t
             n == Len(s) + 1
  <1>2. n \in Nat /\ n - 1 = Len(s) /\ n + 1 = Len(s) + 2
    BY LenProperties
  <1>3. SubSeq(u, 1, Len(s)) = s /\ SubSeq(u, Len(s) + 2, Len(u)) = Tail(t)
    BY <1>1
  <1>4. \A x, i : Contract!Without(x, i) = SubSeq(x, 1, i - 1) \o SubSeq(x, i + 1, Len(x))
    BY DEF Contract!Without
  <1> HIDE DEF u, n
  <1>5. Contract!Without(u, n) = s \o Tail(t)
    BY <1>2, <1>3, <1>4
  <1> QED
    BY <1>5 DEF u, n

\* A write is acknowledged: it goes into the cache, or is forgotten.
LEMMA AckStepMaps ==
    ASSUME RefinementInv, ReceiveResult
    PROVE  VersionsSound' /\ Contract!Ack
  <1> DEFINE version == Head(acks).version
             patch == Head(pipeline).patch
             u == PatchesOf(unseen)
             q == PatchesOf(queue)
             v == AheadOf(sentBase, unseen)
             a == AheadOf(sentBase, acks)
             n == Len(unseen) + 1
             kept == [patch |-> patch, version |-> version]
  <1>1. acks # << >> /\ pipeline # << >>
    <2>1. /\ Matches(acks, wire, refused, pipeline) /\ acks \in Seq(Response) /\ acks # << >>
          /\ wire \in Seq(Batch) /\ pipeline \in Seq(Batch)
      BY Facts DEF RefinementInv, ReceiveResult
    <2> QED
      BY <2>1, MatchesPopped
  <1>2. /\ queue # << >> /\ Head(pipeline) \in Batch
        /\ Removed(queue, Head(pipeline).id) = Tail(queue)
        /\ PatchesOf(Tail(queue)) = Tail(q) /\ q # << >> /\ Head(q) = patch
    BY <1>1, FirstAnswered
  <1>3. /\ acks' = Tail(acks) /\ queue' = Tail(queue) /\ UNCHANGED <<history, sentBase>>
        /\ IF cached.version < version
           THEN /\ cached' = [version |-> version, doc |-> Merge(cached.doc, patch),
                              committed |-> TRUE]
                /\ unseen' = Append(unseen, kept)
           ELSE UNCHANGED <<cached, unseen>>
    BY <1>2 DEF ReceiveResult, IsNewer, backend
  <1>4. /\ a # << >> /\ Head(a) = Ahead(sentBase, version) /\ AheadOf(sentBase, Tail(acks)) = Tail(a)
    <2>1. sentBase \in Nat /\ acks \in Seq(Response) /\ \A x \in Response : x.version \in Nat
      BY MappingTyped
    <2> QED
      BY <1>1, <2>1, AheadParts
  <1>5. /\ version \in 1..Len(history)
        /\ \A i \in DOMAIN Tail(acks) : Tail(acks)[i].version \in 1..Len(history)
    <2>1. \A i \in 1..Len(acks) : acks[i].version \in 1..Len(history)
      BY MappingTyped DEF RefinementInv, VersionsSound
    <2>2. /\ Len(acks) \in Nat \ {0} /\ Head(acks) = acks[1] /\ Len(Tail(acks)) = Len(acks) - 1
          /\ Tail(acks) \in Seq(Response) /\ DOMAIN Tail(acks) = 1..Len(Tail(acks))
          /\ \A i \in 1..Len(Tail(acks)) : Tail(acks)[i] = acks[i + 1]
      BY <1>1, MappingTyped, HeadTailProperties, EmptySeq, LenProperties
    <2>3. 1 \in 1..Len(acks) /\ \A i \in 1..Len(Tail(acks)) : i + 1 \in 1..Len(acks)
      <3>1. Len(acks) \in Nat \ {0} /\ Len(Tail(acks)) = Len(acks) - 1
        BY <2>2
      <3> QED
        BY <3>1
    <2> QED
      BY <2>1, <2>2, <2>3
  <1>6. kept \in Kept /\ kept.patch = patch /\ kept.version = version
    <2>1. patch \in Patches /\ version \in Nat
      BY <1>2, <1>5, MappingTyped
    <2> QED
      BY <2>1 DEF Kept
  <1>7. /\ u \in Seq(Patches) /\ q \in Seq(Patches) /\ v \in Seq(Nat) /\ a \in Seq(Nat)
        /\ Len(u) = Len(unseen) /\ Len(v) = Len(unseen) /\ Own = u \o q /\ At = v \o a
        /\ Len(unseen) \in Nat /\ unseen \in Seq(Kept)
    BY HalvesTyped, MappingTyped DEF Own, At
  <1>8. PatchesOf(queue') = Tail(q) /\ AheadOf(sentBase, acks') = Tail(a)
    BY <1>2, <1>3, <1>4
  <1>9. /\ Own' = PatchesOf(unseen') \o PatchesOf(queue')
        /\ At' = AheadOf(sentBase, unseen') \o AheadOf(sentBase, acks')
        /\ UNCHANGED <<Current, history[sentBase], Feed>>
    BY <1>3 DEF Own, At, PatchesOf, AheadOf, Ahead, Current, Feed
  <1>10. /\ cached.version \in sentBase..Len(history) /\ sentBase \in Nat /\ Len(history) \in Nat
         /\ Contract!Shown = cached.version - sentBase
    BY ShownIsCached, MappingTyped
  <1> HIDE DEF version, patch, u, q, v, a, kept
  <1>11. n <= Len(At) /\ At[n] = Ahead(sentBase, version)
    <2>1. (v \o a)[Len(v) + 1] = Head(a)
      BY <1>4, <1>7, Parts
    <2>2. Len(a) \in Nat \ {0} /\ Len(v \o a) = Len(v) + Len(a)
      BY <1>4, <1>7, EmptySeq, ConcatProperties
    <2>3. n <= Len(v \o a)
      BY <1>7, <2>2
    <2> QED
      BY <1>4, <1>7, <2>1, <2>3
  <1>12. At[n] <= Contract!Shown <=> version <= cached.version
    BY <1>5, <1>10, <1>11 DEF Ahead
  <1>13. CASE cached.version < version
    <2>1. /\ cached'.version = version /\ cached'.committed = TRUE
          /\ unseen' = Append(unseen, kept)
      BY <1>3, <1>13
    <2>2. /\ unseen' # << >> /\ Len(unseen') = n
          /\ \A i \in 1..Len(unseen) : unseen'[i] = unseen[i]
          /\ unseen'[n] = kept /\ DOMAIN unseen' = 1..Len(unseen')
      <3>1. /\ Append(unseen, kept) \in Seq(Kept) /\ Append(unseen, kept) # << >>
            /\ Len(Append(unseen, kept)) = Len(unseen) + 1
            /\ \A i \in 1..Len(unseen) : Append(unseen, kept)[i] = unseen[i]
            /\ Append(unseen, kept)[Len(unseen) + 1] = kept
        <4>1. kept \in Kept /\ unseen \in Seq(Kept)
          BY <1>6, <1>7
        <4> QED
          BY <4>1, AppendProperties
      <3>2. DOMAIN unseen' = 1..Len(unseen')
        BY <2>1, <3>1, LenProperties
      <3> QED
        BY <2>1, <3>1, <3>2
    <2>3. \A i \in DOMAIN unseen' : unseen'[i].version \in (sentBase + 1)..Len(history)
      <3>1. version \in (sentBase + 1)..Len(history)
        BY <1>5, <1>10, <1>13
      <3>2. \A i \in 1..Len(unseen) : unseen[i].version \in (sentBase + 1)..Len(history)
        BY <1>7, LenProperties DEF RefinementInv, VersionsSound
      <3>3. ASSUME NEW i \in 1..n
            PROVE  unseen'[i].version \in (sentBase + 1)..Len(history)
        <4>1. CASE i = n
          BY <1>6, <2>2, <3>1, <4>1
        <4>2. CASE i # n
          <5>1. i \in 1..Len(unseen)
            BY <1>7, <4>2
          <5> QED
            BY <2>2, <3>2, <5>1
        <4> QED
          BY <4>1, <4>2
      <3> QED
        BY <2>2, <3>3
    <2>4. VersionsSound'
      <3>1. unseen'[Len(unseen')].version = version
        BY <1>6, <2>2
      <3>2. sentBase \in 1..Len(history)
        BY MappingTyped
      <3> QED
        BY <1>3, <1>5, <2>1, <2>2, <2>3, <3>1, <3>2 DEF VersionsSound
    <2>5. PatchesOf(unseen') = Append(u, Head(q))
      <3>1. \A x \in Kept : x.patch \in Patches
        BY MappingTyped
      <3>2. \A e \in Kept : PatchesOf(Append(unseen, e)) = Append(PatchesOf(unseen), e.patch)
        BY <1>7, <3>1, PatchesParts
      <3> QED
        BY <1>2, <1>6, <2>1, <3>2 DEF u
    <2>6. AheadOf(sentBase, unseen') = Append(v, Head(a))
      <3>1. \A x \in Kept : x.version \in Nat
        BY MappingTyped
      <3>2. \A e \in Kept : AheadOf(sentBase, Append(unseen, e)) =
                                Append(AheadOf(sentBase, unseen), Ahead(sentBase, e.version))
        <4>1. unseen \in Seq(Kept) /\ sentBase \in Nat
          BY <1>7, <1>10
        <4> QED
          BY ONLY <3>1, <4>1, AheadParts
      <3>3. AheadOf(sentBase, unseen') = Append(AheadOf(sentBase, unseen), Ahead(sentBase, kept.version))
        BY <1>6, <2>1, <3>2
      <3> QED
        BY <1>4, <1>6, <3>3 DEF v
    <2>7. Own' = Own
      <3>1. Append(u, Head(q)) \o Tail(q) = u \o q
        BY <1>2, <1>7, HeadMoves
      <3> QED
        BY <1>7, <1>8, <1>9, <2>5, <3>1
    <2>8. At' = At
      <3>1. Append(v, Head(a)) \o Tail(a) = v \o a
        BY <1>4, <1>7, HeadMoves
      <3> QED
        BY <1>7, <1>8, <1>9, <2>6, <3>1
    <2>9. ~(At[n] <= Contract!Shown)
      BY <1>5, <1>10, <1>12, <1>13
    <2>10. (Len(unseen))' = n
      BY <2>2
    <2> QED
      BY <1>9, <1>11, <2>4, <2>7, <2>8, <2>9, <2>10 DEF Contract!Ack
  <1>14. CASE ~(cached.version < version)
    <2>1. UNCHANGED <<cached, unseen>>
      BY <1>3, <1>14
    <2>2. VersionsSound'
      BY <1>3, <1>5, <2>1 DEF RefinementInv, VersionsSound
    <2>3. Own' = Contract!Without(Own, n)
      <3>1. Contract!Without(u \o q, Len(u) + 1) = u \o Tail(q)
        BY <1>2, <1>7, SecondPopped
      <3>2. PatchesOf(unseen') = u
        BY <2>1 DEF u
      <3> QED
        BY <1>7, <1>8, <1>9, <3>1, <3>2
    <2>4. At' = Contract!Without(At, n)
      <3>1. Contract!Without(v \o a, Len(v) + 1) = v \o Tail(a)
        BY <1>4, <1>7, SecondPopped
      <3>2. AheadOf(sentBase, unseen') = v
        BY <2>1 DEF v
      <3> QED
        BY <1>7, <1>8, <1>9, <3>1, <3>2
    <2>5. At[n] <= Contract!Shown
      BY <1>5, <1>10, <1>12, <1>14
    <2>6. (Len(unseen))' = Len(unseen)
      BY <2>1
    <2> QED
      BY <1>9, <1>11, <2>2, <2>3, <2>4, <2>5, <2>6 DEF Contract!Ack
  <1> QED
    BY <1>13, <1>14

\* A write is refused.
LEMMA RejectStepMaps ==
    ASSUME RefinementInv, ReceiveRefusal
    PROVE  VersionsSound' /\ Contract!Reject
  <1> DEFINE u == PatchesOf(unseen)
             q == PatchesOf(queue)
  <1>1. acks = << >> /\ acks' = << >> /\ pipeline # << >>
    <2>1. Matches(acks, wire, refused, pipeline) /\ refused # << >> /\ pipeline \in Seq(Batch)
      BY Facts DEF RefinementInv, ReceiveRefusal
    <2>2. acks = << >> /\ Len(acks) = 0 /\ acks' = << >>
      BY DEF ReceiveRefusal, Disconnected
    <2>3. 0 < Len(pipeline)
      BY <2>1, <2>2 DEF Matches
    <2> QED
      BY <2>2, <2>3
  <1>2. /\ Removed(queue, Head(pipeline).id) = Tail(queue)
        /\ PatchesOf(Tail(queue)) = Tail(q) /\ q # << >>
    BY <1>1, FirstAnswered
  <1>3. queue' = Tail(queue) /\ UNCHANGED <<history, sentBase, unseen, cached>>
    BY <1>2 DEF ReceiveRefusal
  <1>4. VersionsSound'
    BY <1>1, <1>3 DEF RefinementInv, VersionsSound
  <1>5. /\ u \in Seq(Patches) /\ q \in Seq(Patches) /\ Len(u) = Len(unseen) /\ Own = u \o q
        /\ Len(unseen) \in Nat /\ Len(Own) = Len(unseen) + Len(queue)
        /\ Len(At) = Len(unseen) + Len(acks) /\ Len(q) = Len(queue)
    BY HalvesTyped, MappingTyped DEF Own
  <1>6. Own' = u \o Tail(q)
    <2>1. Own' = PatchesOf(unseen') \o PatchesOf(queue') /\ PatchesOf(unseen') = u
      BY <1>3 DEF Own, PatchesOf
    <2> QED
      BY <1>2, <1>3, <2>1
  <1>7. UNCHANGED <<Current, history[sentBase], Feed, At, Len(unseen)>>
    BY <1>1, <1>3 DEF At, AheadOf, Ahead, Current, Feed
  <1> HIDE DEF u, q
  <1>8. Len(At) = Len(unseen) /\ Len(At) + 1 <= Len(Own)
    <2>1. Len(q) \in Nat \ {0} /\ Len(acks) = 0
      BY <1>1, <1>2, <1>5, EmptySeq
    <2> QED
      BY <1>5, <2>1
  <1>9. Own' = Contract!Without(Own, Len(At) + 1)
    <2>1. Contract!Without(u \o q, Len(u) + 1) = u \o Tail(q)
      BY <1>2, <1>5, SecondPopped
    <2> QED
      BY <1>5, <1>6, <1>8, <2>1
  <1> QED
    BY <1>4, <1>7, <1>8, <1>9 DEF Contract!Reject

\* Seen from a later version, a response is less far ahead.
LEMMA AheadShifts ==
    ASSUME NEW b \in Nat, NEW k \in Nat, NEW v \in Nat
    PROVE  Ahead(b + k, v) = IF Ahead(b, v) <= k THEN 0 ELSE Ahead(b, v) - k
  BY DEF Ahead

\* A version is told: it becomes what the device builds on, unless the cache is newer.
LEMMA WatchStepMaps ==
    ASSUME RefinementInv, NEW v \in 1..Len(history), Watch(v)
    PROVE  VersionsSound' /\ ((\E k \in 1..Len(Feed) : Contract!Watch(k)) \/ UNCHANGED Contract!vars)
  <1>1. UNCHANGED <<history, queue, acks>>
    BY DEF Watch, backend, connection
  <1>2. CASE ~IsTaken(v)
    <2>1. UNCHANGED <<sentBase, unseen, cached>>
      BY <1>2 DEF Watch
    <2> QED
      BY <1>1, <2>1, NothingMoves
  <1>3. CASE IsTaken(v)
    <2> DEFINE k == v - sentBase
               u == PatchesOf(unseen)
               q == PatchesOf(queue)
               w == AheadOf(sentBase, unseen)
               a == AheadOf(sentBase, acks)
               left == SubSeq(At, Len(unseen) + 1, Len(At))
    <2>1. /\ cached'.version = v /\ cached'.committed = FALSE /\ sentBase' = v /\ unseen' = << >>
      BY <1>3 DEF Watch
    <2>2. /\ cached.version \in sentBase..Len(history) /\ sentBase \in Nat /\ Len(history) \in Nat
          /\ sentBase \in 0..Len(history)
          /\ cached.committed => sentBase < cached.version
          /\ Contract!Shown = cached.version - sentBase
          /\ history \in Seq(Documents)
      BY ShownIsCached, MappingTyped
    <2>3. cached.version <= v /\ sentBase < v
      <3>1. v > cached.version \/ (v = cached.version /\ cached.committed)
        BY <1>3 DEF IsTaken
      <3> QED
        BY <2>2, <3>1
    <2>4. k \in 1..(Len(history) - sentBase) /\ sentBase + k = v /\ Contract!Shown <= k
      BY <2>2, <2>3
    <2>5. VersionsSound'
      BY <1>1, <2>1 DEF RefinementInv, VersionsSound
    <2> HIDE DEF k
    <2>6. Len(Feed) = Len(history) - sentBase
      BY <2>2, AheadLine DEF Feed
    <2>7. /\ Feed[k] = history[sentBase + k]
          /\ SubSeq(Feed, k + 1, Len(Feed)) = SubSeq(history, sentBase + k + 1, Len(history))
      BY <2>2, <2>4, AheadMoves DEF Feed
    <2>8. (history[sentBase])' = Feed[k] /\ Feed' = SubSeq(Feed, k + 1, Len(Feed))
      <3>1. (history[sentBase])' = history[v] /\ Feed' = SubSeq(history, v + 1, Len(history))
        BY <1>1, <2>1 DEF Feed
      <3> QED
        BY <2>4, <2>7, <3>1
    <2>9. /\ u \in Seq(Patches) /\ q \in Seq(Patches) /\ w \in Seq(Nat) /\ a \in Seq(Nat)
          /\ Len(u) = Len(unseen) /\ Len(w) = Len(unseen) /\ Own = u \o q /\ At = w \o a
          /\ Len(a) = Len(acks) /\ Len(acks) \in Nat /\ DOMAIN acks = 1..Len(acks)
          /\ DOMAIN a = 1..Len(acks)
      BY HalvesTyped, MappingTyped, LenProperties DEF Own, At
    <2>10. /\ Own' = PatchesOf(<< >>) \o q
           /\ At' = AheadOf(v, << >>) \o AheadOf(v, acks)
      BY <1>1, <2>1 DEF Own, At, PatchesOf, AheadOf, Ahead
    <2>11. PatchesOf(<< >>) = << >> /\ AheadOf(v, << >>) = << >>
      BY DEF PatchesOf, AheadOf
    <2>12. /\ \A i \in 1..Len(acks) : acks[i].version \in Nat
           /\ \A i \in 1..Len(acks) : a[i] = Ahead(sentBase, acks[i].version)
      BY <2>9, MappingTyped DEF AheadOf
    <2>13. AheadOf(v, acks) \in Seq(Nat)
      <3>1. v \in Nat
        BY <2>2
      <3>2. acks \in Seq(Response) /\ \A x \in Response : x.version \in Nat
        BY MappingTyped
      <3> QED
        BY <3>1, <3>2, AheadParts
    <2> HIDE DEF u, q, w, a
    <2>14. Own' = SubSeq(Own, Len(unseen) + 1, Len(Own))
      <3>1. SubSeq(u \o q, Len(u) + 1, Len(u \o q)) = q
        BY <2>9, Parts
      <3>2. << >> \o q = q
        BY <2>9, ConcatEmptySeq
      <3>3. Own' = q
        BY <2>10, <2>11, <3>2
      <3>4. Own = u \o q /\ Len(u) = Len(unseen)
        BY <2>9
      <3> QED
        BY <3>1, <3>3, <3>4
    <2>15. left = a
      <3>1. w \in Seq(Nat) /\ a \in Seq(Nat) /\ At = w \o a /\ Len(w) = Len(unseen)
        BY <2>9
      <3>2. SubSeq(w \o a, Len(w) + 1, Len(w \o a)) = a
        BY ONLY <3>1, Parts
      <3> QED
        BY <3>1, <3>2
    <2> HIDE DEF left
    <2>16. At' = [i \in DOMAIN left |-> IF left[i] <= k THEN 0 ELSE left[i] - k]
      <3>1. At' = AheadOf(v, acks)
        BY <2>10, <2>11, <2>13, ConcatEmptySeq
      <3>2. ASSUME NEW i \in 1..Len(acks)
            PROVE  Ahead(v, acks[i].version) = IF a[i] <= k THEN 0 ELSE a[i] - k
        <4>1. k \in Nat /\ sentBase \in Nat /\ acks[i].version \in Nat
          BY <2>2, <2>4, <2>12
        <4>2. Ahead(sentBase + k, acks[i].version) =
                  IF Ahead(sentBase, acks[i].version) <= k THEN 0
                  ELSE Ahead(sentBase, acks[i].version) - k
          BY <4>1, AheadShifts
        <4> QED
          BY <2>4, <2>12, <4>2
      <3>3. AheadOf(v, acks) = [i \in 1..Len(acks) |-> Ahead(v, acks[i].version)]
        BY <2>9 DEF AheadOf
      <3>4. [i \in 1..Len(acks) |-> Ahead(v, acks[i].version)]
                = [i \in 1..Len(acks) |-> IF a[i] <= k THEN 0 ELSE a[i] - k]
        BY <3>2
      <3> QED
        BY <2>9, <2>15, <3>1, <3>3, <3>4
    <2>17. Len(unseen') = 0 /\ Current' = Current
      BY <1>1, <2>1 DEF Current
    <2>18. Contract!Watch(k)
      BY <2>4, <2>8, <2>14, <2>16, <2>17 DEF Contract!Watch, left
    <2>19. k \in 1..Len(Feed)
      BY <2>4, <2>6
    <2> QED
      BY <2>5, <2>18, <2>19
  <1> QED
    BY <1>2, <1>3

(***************************************************************************)
(* The refinement.                                                         *)
(***************************************************************************)
LEMMA InitMaps == Init => VersionsSound /\ Contract!Init
  <1> SUFFICES ASSUME Init
               PROVE  VersionsSound /\ Contract!Init
    OBVIOUS
  <1>1. PICK doc \in FirstDocuments : history = <<doc>>
    BY DEF Init
  <1>2. history \in Seq(Documents) /\ Len(history) = 1 /\ history[1] = doc /\ doc \in Documents
    BY <1>1, PatchesAssumption
  <1>3. /\ unseen = << >> /\ acks = << >> /\ queue = << >> /\ sentBase = 1
        /\ cached.version = 1 /\ cached.committed = FALSE
    BY DEF Init
  <1>4. VersionsSound
    BY <1>2, <1>3 DEF VersionsSound
  <1>5. Feed = << >>
    <2>1. Feed = SubSeq(history, 2, 1)
      BY <1>2, <1>3 DEF Feed
    <2> QED
      BY <2>1, SubSeqEmpty
  <1>6. Own = << >> /\ At = << >>
    <2>1. PatchesOf(<< >>) = << >> /\ AheadOf(1, << >>) = << >>
      BY DEF PatchesOf, AheadOf
    <2>2. << >> \o << >> = << >>
      OBVIOUS
    <2> QED
      BY <1>3, <2>1, <2>2 DEF Own, At
  <1>7. Current = doc /\ history[sentBase] = doc /\ Len(unseen) = 0
    BY <1>2, <1>3 DEF Current
  <1> QED
    BY <1>2, <1>4, <1>5, <1>6, <1>7 DEF Contract!Init

LEMMA CommitsDocuments ==
    ASSUME RefinementInv, NEW patch \in Patch
    PROVE  Merge(Current, patch) \in Documents
  BY MappingTyped DEF Merge, Documents, Patch

LEMMA StepMaps ==
    ASSUME RefinementInv, [Next]_vars
    PROVE  VersionsSound' /\ [Contract!Next]_(Contract!vars)
  <1>1. ASSUME NEW patch \in Patches, Write(patch)
        PROVE  VersionsSound' /\ Contract!Next
    BY <1>1, IssueStepMaps DEF Contract!Next
  <1>2. CASE Client
    <2>1. CASE BackoffElapses \/ (\E c \in tokens : TokenArrives(c)) \/ StreamOpens
               \/ HandshakeCompletes \/ Start
      <3>1. UNCHANGED <<history, sentBase, unseen, cached, queue, acks>>
        BY <2>1 DEF BackoffElapses, TokenArrives, StreamOpens, HandshakeCompletes, Start,
            backend, disk, connection
      <3> QED
        BY <3>1, NothingMoves
    <2>2. CASE ReceiveResult
      BY <2>2, AckStepMaps DEF Contract!Next
    <2>3. CASE ReceiveRefusal
      BY <2>3, RejectStepMaps DEF Contract!Next
    <2> QED
      BY <1>2, <2>1, <2>2, <2>3 DEF Client
  <1>3. CASE ServerCommits
    BY <1>3, CommitStepMaps DEF Contract!Next
  <1>4. ASSUME NEW patch \in ForeignPatches, ForeignCommits(patch)
        PROVE  VersionsSound' /\ Contract!Next
    <2>1. UNCHANGED <<sentBase, unseen, cached, queue, acks>> /\ Committed(Merge(Current, patch))
      BY <1>4 DEF ForeignCommits, disk, connection
    <2>2. Merge(Current, patch) \in Documents
      BY PatchesAssumption, CommitsDocuments
    <2> QED
      BY <2>1, <2>2, OthersCommit DEF Contract!Next
  <1>5. ASSUME NEW v \in 1..Len(history), Watch(v)
        PROVE  VersionsSound' /\ [Contract!Next]_(Contract!vars)
    BY <1>5, WatchStepMaps DEF Contract!Next
  <1>6. CASE Trouble
    <2>1. CASE (\E ok \in BOOLEAN : ConnectionLost(ok)) \/ IdleTimeout \/ ConnectivityChanges \/ Crash
      <3>1. UNCHANGED <<history, sentBase, unseen, cached, queue>> /\ acks' = << >>
        BY <2>1 DEF ConnectionLost, IdleTimeout, ConnectivityChanges, Crash, Disconnected, disk
      <3> QED
        BY <3>1, ResponsesLost DEF Contract!Next
    <2>2. CASE ServerRefuses
      <3>1. UNCHANGED <<history, sentBase, unseen, cached, queue, acks>>
        BY <2>2 DEF ServerRefuses, backend, disk
      <3> QED
        BY <3>1, NothingMoves
    <2>3. CASE OrphanCommits
      <3>1. /\ UNCHANGED <<sentBase, unseen, cached, queue, acks>>
            /\ Committed(Merge(Current, Head(orphans).patch))
        BY <2>3 DEF OrphanCommits, disk, connection
      <3>2. Head(orphans).patch \in Patch
        <4>1. orphans \in Seq(Batch) /\ orphans # << >>
          BY <2>3 DEF RefinementInv, ClientInv, TypeOK, OrphanCommits
        <4>2. Head(orphans) \in Batch
          BY <4>1, HeadTailProperties
        <4> QED
          BY <4>2, MappingTyped, PatchesAssumption
      <3>3. Merge(Current, Head(orphans).patch) \in Documents
        BY <3>2, CommitsDocuments
      <3> QED
        BY <3>1, <3>3, OthersCommit DEF Contract!Next
    <2> QED
      BY <1>6, <2>1, <2>2, <2>3 DEF Trouble
  <1>7. CASE UNCHANGED vars
    <2>1. UNCHANGED <<history, sentBase, unseen, cached, queue, acks>>
      BY <1>7 DEF vars, backend, disk, connection
    <2> QED
      BY <2>1, NothingMoves
  <1> QED
    BY <1>1, <1>2, <1>3, <1>4, <1>5, <1>6, <1>7 DEF Next

(***************************************************************************)
(* The cache.                                                              *)
(***************************************************************************)
\* A write on top of others is merged into what they make of the document.
LEMMA OverlayAppended ==
    ASSUME NEW S, NEW s \in Seq(S), NEW e \in S, NEW doc
    PROVE  Overlay(doc, Append(s, e)) = Merge(Overlay(doc, s), e.patch)
  <1> DEFINE a == Append(s, e)
             n == Len(s) + 1
  <1>1. /\ Len(s) \in Nat /\ DOMAIN s = 1..Len(s) /\ DOMAIN a = 1..n /\ a[n] = e
        /\ \A i \in 1..Len(s) : a[i] = s[i]
    <2>1. /\ a \in Seq(S) /\ Len(a) = n /\ a[n] = e
          /\ \A i \in 1..Len(s) : a[i] = s[i]
      BY AppendProperties
    <2> HIDE DEF a
    <2> QED
      BY <2>1, LenProperties
  <1> HIDE DEF a
  <1>2. ASSUME NEW f \in Fields
        PROVE  Overlay(doc, a)[f] = Merge(Overlay(doc, s), e.patch)[f]
    <2>1. n \in DOMAIN a /\ \A i \in DOMAIN a : i \in Nat /\ i <= n
      BY <1>1
    <2>2. CASE f \in DOMAIN e.patch
      <3>1. n \in DOMAIN a /\ IsLatest(f, a, n)
        BY <1>1, <2>1, <2>2 DEF IsLatest
      <3>2. ASSUME NEW i \in DOMAIN a, IsLatest(f, a, i)
            PROVE  i = n
        <4>1. n <= i
          BY <1>1, <2>1, <2>2, <3>2 DEF IsLatest
        <4> QED
          BY <1>1, <2>1, <4>1
      <3>3. (CHOOSE i \in DOMAIN a : IsLatest(f, a, i)) = n
        BY <3>1, <3>2
      <3>4. Overlay(doc, a)[f] = a[n].patch[f]
        BY <3>1, <3>3 DEF Overlay
      <3> QED
        BY <1>1, <2>2, <3>4 DEF Merge
    <2>3. CASE f \notin DOMAIN e.patch
      <3>1. ASSUME NEW i \in DOMAIN s
            PROVE  i \in DOMAIN a /\ (IsLatest(f, a, i) <=> IsLatest(f, s, i))
        <4>1. i \in DOMAIN a /\ a[i] = s[i] /\ \A j \in DOMAIN s : j \in DOMAIN a /\ a[j] = s[j]
          BY <1>1
        <4>2. \A j \in DOMAIN a : f \in DOMAIN a[j].patch => j \in DOMAIN s
          BY <1>1, <2>3
        <4> QED
          BY <4>1, <4>2 DEF IsLatest
      <3>2. \A i \in DOMAIN a : IsLatest(f, a, i) => i \in DOMAIN s
        BY <1>1, <2>3 DEF IsLatest
      <3>3. Merge(Overlay(doc, s), e.patch)[f] = Overlay(doc, s)[f]
        BY <2>3 DEF Merge
      <3>4. CASE \E i \in DOMAIN s : IsLatest(f, s, i)
        <4>1. PICK i \in DOMAIN s : IsLatest(f, s, i)
          BY <3>4
        <4>2. \A j \in DOMAIN s : IsLatest(f, s, j) => j = i
          <5>1. \A j \in DOMAIN s : IsLatest(f, s, j) => i <= j /\ j <= i
            BY <4>1 DEF IsLatest
          <5> QED
            BY <1>1, <5>1
        <4>3. (CHOOSE j \in DOMAIN s : IsLatest(f, s, j)) = i
          BY <4>1, <4>2
        <4>4. (CHOOSE j \in DOMAIN a : IsLatest(f, a, j)) = i
          BY <3>1, <3>2, <4>1, <4>2
        <4>5. Overlay(doc, s)[f] = s[i].patch[f]
          BY <4>1, <4>3 DEF Overlay
        <4>6. Overlay(doc, a)[f] = a[i].patch[f]
          BY <3>1, <4>1, <4>4 DEF Overlay
        <4> QED
          BY <1>1, <3>3, <4>5, <4>6
      <3>5. CASE ~\E i \in DOMAIN s : IsLatest(f, s, i)
        <4>1. ~\E i \in DOMAIN a : IsLatest(f, a, i)
          BY <3>1, <3>2, <3>5
        <4> QED
          BY <3>3, <3>5, <4>1 DEF Overlay
      <3> QED
        BY <3>4, <3>5
    <2> QED
      BY <2>2, <2>3
  <1>3. Overlay(doc, a) = Merge(Overlay(doc, s), e.patch)
    BY <1>2 DEF Overlay, Merge
  <1> QED
    BY <1>3 DEF a

\* Under no writes a document is what it is.
LEMMA OverlayEmpty ==
    ASSUME NEW doc \in Documents
    PROVE  Overlay(doc, << >>) = doc
  BY DEF Overlay, Documents

\* What is committed later does not change a version.
LEMMA CommitKeepsVersions ==
    ASSUME RefinementInv, NEW doc \in Documents, Committed(doc)
    PROVE  history'[sentBase] = history[sentBase]
  <1>1. CASE doc = Current
    BY <1>1 DEF Committed
  <1>2. CASE doc # Current
    BY <1>2, MappingTyped, AppendProperties DEF Committed
  <1> QED
    BY <1>1, <1>2

\* Every step keeps the cache: an acknowledged write is merged into it, a version
\* replaces it.
LEMMA CacheKept ==
    ASSUME RefinementInv, [Next]_vars
    PROVE  CacheIsOverlay'
  <1>1. ASSUME UNCHANGED <<sentBase, unseen, cached>>, history'[sentBase] = history[sentBase]
        PROVE  CacheIsOverlay'
    BY <1>1 DEF RefinementInv, CacheIsOverlay
  <1>2. CASE ReceiveResult
    <2> DEFINE version == Head(acks).version
               kept == [patch |-> Head(pipeline).patch, version |-> version]
    <2>1. UNCHANGED <<history, sentBase>>
      BY <1>2 DEF ReceiveResult, backend
    <2>2. CASE IsNewer(version)
      <3>1. cached'.doc = Merge(cached.doc, kept.patch) /\ unseen' = Append(unseen, kept)
        BY <1>2, <2>2 DEF ReceiveResult
      <3>2. kept \in Kept
        <4>1. /\ Matches(acks, wire, refused, pipeline) /\ acks \in Seq(Response) /\ acks # << >>
              /\ wire \in Seq(Batch) /\ pipeline \in Seq(Batch)
          BY <1>2, Facts DEF RefinementInv, ReceiveResult
        <4>2. pipeline # << >>
          BY <4>1, MatchesPopped
        <4>3. Head(pipeline) \in Batch /\ Head(acks) \in Response
          BY <4>1, <4>2, HeadTailProperties
        <4> QED
          BY <4>3, MappingTyped DEF Kept
      <3> HIDE DEF kept
      <3>3. Overlay(history[sentBase], Append(unseen, kept))
                = Merge(Overlay(history[sentBase], unseen), kept.patch)
        BY <3>2, MappingTyped, OverlayAppended
      <3> QED
        BY <2>1, <3>1, <3>3 DEF RefinementInv, CacheIsOverlay
    <2>3. CASE ~IsNewer(version)
      <3>1. UNCHANGED <<cached, unseen>>
        BY <1>2, <2>3 DEF ReceiveResult
      <3> QED
        BY <1>1, <2>1, <3>1
    <2> QED
      BY <2>2, <2>3
  <1>3. ASSUME NEW v \in 1..Len(history), Watch(v)
        PROVE  CacheIsOverlay'
    <2>1. history' = history
      BY <1>3 DEF Watch, backend
    <2>2. CASE IsTaken(v)
      <3>1. cached'.doc = history[v] /\ sentBase' = v /\ unseen' = << >>
        BY <1>3, <2>2 DEF Watch
      <3>2. history[v] \in Documents
        BY MappingTyped
      <3> QED
        BY <2>1, <3>1, <3>2, OverlayEmpty DEF CacheIsOverlay
    <2>3. CASE ~IsTaken(v)
      <3>1. UNCHANGED <<cached, sentBase, unseen>>
        BY <1>3, <2>3 DEF Watch
      <3> QED
        BY <1>1, <2>1, <3>1
    <2> QED
      BY <2>2, <2>3
  <1>4. CASE ServerCommits \/ OrphanCommits \/ \E patch \in ForeignPatches : ForeignCommits(patch)
    <2>1. UNCHANGED <<sentBase, unseen, cached>>
      BY <1>4 DEF ServerCommits, OrphanCommits, ForeignCommits, disk
    <2>2. \A b \in Batch : b.patch \in Patch
      BY MappingTyped, PatchesAssumption
    <2>3. \E patch \in Patch : Committed(Merge(Current, patch))
      <3>1. CASE ServerCommits
        <4>1. Head(wire) \in Batch
          BY <3>1, Facts, HeadTailProperties DEF RefinementInv, ServerCommits
        <4> QED
          BY <2>2, <3>1, <4>1 DEF ServerCommits
      <3>2. CASE OrphanCommits
        <4>1. Head(orphans) \in Batch
          BY <3>2, HeadTailProperties DEF RefinementInv, ClientInv, TypeOK, OrphanCommits
        <4> QED
          BY <2>2, <3>2, <4>1 DEF OrphanCommits
      <3>3. CASE \E patch \in ForeignPatches : ForeignCommits(patch)
        BY <3>3, PatchesAssumption DEF ForeignCommits
      <3> QED
        BY <1>4, <3>1, <3>2, <3>3
    <2>4. PICK patch \in Patch : Committed(Merge(Current, patch))
      BY <2>3
    <2>5. Merge(Current, patch) \in Documents
      BY CommitsDocuments
    <2>6. history'[sentBase] = history[sentBase]
      BY <2>4, <2>5, CommitKeepsVersions
    <2> QED
      BY <1>1, <2>1, <2>6
  <1>5. CASE \/ \E patch \in Patches : Write(patch)
             \/ BackoffElapses \/ (\E c \in tokens : TokenArrives(c)) \/ StreamOpens
             \/ HandshakeCompletes \/ ReceiveRefusal \/ Start
             \/ (\E ok \in BOOLEAN : ConnectionLost(ok)) \/ IdleTimeout \/ ConnectivityChanges
             \/ Crash \/ ServerRefuses
             \/ UNCHANGED vars
    <2>1. UNCHANGED <<history, sentBase, unseen, cached>>
      BY <1>5 DEF Write, BackoffElapses, TokenArrives, StreamOpens, HandshakeCompletes,
          ReceiveRefusal, Start, ConnectionLost, IdleTimeout, ConnectivityChanges, Crash,
          ServerRefuses, Disconnected, vars, backend, disk
    <2> QED
      BY <1>1, <2>1
  <1> QED
    BY <1>2, <1>3, <1>4, <1>5 DEF Next, Client, Trouble

\* The cache stays at the version of the last write applied to it, above the version
\* from the watch stream on which it is built (ApplyBatchResult, ApplyRemoteEvent).
THEOREM RefinementInvariance == Spec => []RefinementInv
  <1>1. Init => RefinementInv
    <2> SUFFICES ASSUME Init
                 PROVE  CacheIsOverlay
      BY InitEstablishes, InitMaps DEF RefinementInv
    <2>1. PICK doc \in FirstDocuments : history = <<doc>>
      BY DEF Init
    <2>2. /\ cached.doc = history[1] /\ sentBase = 1 /\ unseen = << >>
          /\ history[1] = doc /\ doc \in Documents
      BY <2>1, PatchesAssumption DEF Init
    <2> QED
      BY <2>2, OverlayEmpty DEF CacheIsOverlay
  <1>2. RefinementInv /\ [Next]_vars => RefinementInv'
    BY NextKeeps, StepMaps, CacheKept DEF RefinementInv
  <1> QED
    BY <1>1, <1>2, PTL DEF Spec

\* What the app is shown is the last version it was sent under the writes that are not
\* in it, those acknowledged included (LocalDocumentsView, ApplyBatchResult).
THEOREM ViewIsTheOverlay == Spec => []ViewIsOverlay
  <1>1. RefinementInv => ViewIsOverlay
    BY DEF RefinementInv, CacheIsOverlay, ViewIsOverlay
  <1> QED
    BY <1>1, RefinementInvariance, PTL

\* RemoteStore, WriteStream and LocalStore keep what DocumentSync promises one device of
\* one document: writes are committed and acknowledged in order and once for as long as a
\* connection holds, made again when it is lost, and never hidden behind an older version.
THEOREM ClientKeepsContract == Spec => ContractSpec
  <1>1. Init => Contract!Init
    BY InitMaps
  <1>2. RefinementInv /\ [Next]_vars => [Contract!Next]_(Contract!vars)
    BY StepMaps
  <1> QED
    BY <1>1, <1>2, RefinementInvariance, PTL DEF Spec, ContractSpec, Contract!Spec
=============================================================================
