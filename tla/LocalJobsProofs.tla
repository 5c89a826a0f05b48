--------------------------- MODULE LocalJobsProofs ---------------------------
(***************************************************************************)
(* Theorems about LocalJobs, for any set of jobs, owners and waits, any    *)
(* limits and caps, and writes of any size.                                *)
(***************************************************************************)
EXTENDS LocalJobs, FiniteSetTheorems, WellFoundedInduction, TLAPS

----------------------------------------------------------------------------
\* The output ring

\* A set of naturals has a least element, which a CHOOSE of it is.
LEMMA Least ==
  ASSUME NEW S \in SUBSET Nat, S # {}
  PROVE  \E m \in S : \A n \in S : m <= n
<1>. DEFINE R == {ss \in Nat \X Nat : ss[1] < ss[2]}
<1>1. IsWellFoundedOn(R, Nat)
  BY NatLessThanWellFounded, Zenon DEF OpToRel
<1>2. \E m \in S : \A n \in S : ~ (<<n, m>> \in R)
  <2>. HIDE DEF R
  <2>. QED BY <1>1, WFMin, Zenon
<1>3. PICK m \in S : \A n \in S : ~ (<<n, m>> \in R)
  BY <1>2, Zenon
<1>4. ASSUME NEW n \in S PROVE m <= n
  <2>1. ~ (<<n, m>> \in R)
    BY <1>3, Zenon
  <2>2. ~ (n < m)
    BY <2>1
  <2>. QED BY <2>2
<1>. QED BY <1>4

\* The retained chunks of a ring: in order, none empty.
Chunks(c, e) ==
  /\ c \in Seq(Nat)
  /\ \A i, k \in 1 .. Len(c) : i < k => c[i] < c[k]
  /\ \A i \in 1 .. Len(c) : c[i] < e

\* Where a reader's offset may be: at the end, before the ring, or at the
\* start of a chunk.
OnChunk(c, e, x) ==
  \/ x = e
  \/ x < Earliest(c, e)
  \/ \E i \in 1 .. Len(c) : c[i] = x

\* trim drops the chunks before the first one that fits, or all but the last.
LEMMA TrimCut ==
  ASSUME NEW c, NEW e \in Nat, NEW cap \in Nat, Chunks(c, e), c # <<>>
  PROVE  \E k \in 1 .. Len(c) :
           /\ Trim(c, e, cap) = IF k = Len(c) /\ e - c[k] > cap THEN <<e - cap>> ELSE SubSeq(c, k, Len(c))
           /\ k < Len(c) => e - c[k] <= cap
           /\ \A n \in 1 .. Len(c) : n < k => e - c[n] > cap
<1>. DEFINE fits == {k \in 1 .. Len(c) : e - c[k] <= cap \/ k = Len(c)}
            k == CHOOSE k \in fits : \A n \in fits : k <= n
<1>0. c \in Seq(Nat) /\ Len(c) \in Nat /\ Len(c) >= 1
  BY DEF Chunks
<1>1. fits \in SUBSET Nat /\ Len(c) \in fits
  BY <1>0
<1>2. \E m \in fits : \A n \in fits : m <= n
  <2>. HIDE DEF fits
  <2>. QED BY <1>1, Least, Zenon
<1>3. k \in fits /\ \A n \in fits : k <= n
  <2>. HIDE DEF fits
  <2>. QED BY <1>2, Zenon
<1>4. Trim(c, e, cap) = LET rest == SubSeq(c, k, Len(c)) IN
         IF Len(rest) = 1 /\ e - rest[1] > cap THEN <<e - cap>> ELSE rest
  BY Zenon DEF Trim
<1>. HIDE DEF k
<1>5. k \in 1 .. Len(c) /\ (k < Len(c) => e - c[k] <= cap)
  BY <1>0, <1>3
<1>6. ASSUME NEW n \in 1 .. Len(c), n < k PROVE e - c[n] > cap
  <2>1. n \notin fits
    BY <1>3, <1>5, <1>6, <1>0
  <2>2. c[n] \in Nat
    BY <1>0
  <2>. QED BY <2>1, <2>2
<1>7. Len(SubSeq(c, k, Len(c))) = Len(c) - k + 1 /\ SubSeq(c, k, Len(c))[1] = c[k]
  BY <1>0, <1>5
<1>8. Trim(c, e, cap) = IF k = Len(c) /\ e - c[k] > cap THEN <<e - cap>> ELSE SubSeq(c, k, Len(c))
  BY <1>4, <1>7, <1>5, <1>0
<1>. QED BY <1>5, <1>6, <1>8

\* A suffix of a sequence.
LEMMA Suffix ==
  ASSUME NEW S, NEW s \in Seq(S), NEW k \in 1 .. Len(s)
  PROVE  /\ SubSeq(s, k, Len(s)) \in Seq(S) /\ Len(SubSeq(s, k, Len(s))) = Len(s) - k + 1
         /\ \A i \in 1 .. Len(s) - k + 1 : SubSeq(s, k, Len(s))[i] = s[i + k - 1]
         /\ SubSeq(s, k, Len(s))[1] = s[k]
<1>1. \A i \in k .. Len(s) : s[i] \in S
  OBVIOUS
<1>. QED BY <1>1

\* The start of the ring is a natural up to its end.
LEMMA EarliestBound ==
  ASSUME NEW c, NEW e \in Nat, Chunks(c, e)
  PROVE  /\ Earliest(c, e) \in Nat /\ Earliest(c, e) <= e
         /\ \A i \in 1 .. Len(c) : Earliest(c, e) <= c[i]
<1>1. CASE c = <<>>
  BY <1>1 DEF Earliest
<1>2. CASE c # <<>>
  <2>1. c \in Seq(Nat) /\ Len(c) \in Nat /\ Len(c) >= 1
    BY <1>2 DEF Chunks
  <2>2. Earliest(c, e) = c[1]
    BY <1>2 DEF Earliest
  <2>. QED BY <2>1, <2>2 DEF Chunks
<1>. QED BY <1>1, <1>2

\* trim keeps the ring well formed and within the cap, moves its start forward
\* only, and leaves a reader's offset before the ring or at a chunk.
LEMMA TrimRing ==
  ASSUME NEW c, NEW e \in Nat, NEW cap \in Nat \ {0}, Chunks(c, e)
  PROVE  /\ Chunks(Trim(c, e, cap), e)
         /\ Earliest(c, e) <= Earliest(Trim(c, e, cap), e)
         /\ e - Earliest(Trim(c, e, cap), e) <= cap
         /\ \A x \in Nat : OnChunk(c, e, x) => OnChunk(Trim(c, e, cap), e, x)
<1>1. CASE c = <<>>
  <2>1. Trim(c, e, cap) = c
    BY <1>1 DEF Trim
  <2>2. Earliest(c, e) = e
    BY <1>1 DEF Earliest
  <2>. QED BY <2>1, <2>2
<1>2. CASE c # <<>>
  <2>. DEFINE r == Trim(c, e, cap)
  <2>0. c \in Seq(Nat) /\ Len(c) \in Nat /\ Len(c) >= 1 /\ \A i \in 1 .. Len(c) : c[i] \in Nat /\ c[i] < e
    BY <1>2 DEF Chunks
  <2>1. PICK k \in 1 .. Len(c) :
           /\ r = IF k = Len(c) /\ e - c[k] > cap THEN <<e - cap>> ELSE SubSeq(c, k, Len(c))
           /\ k < Len(c) => e - c[k] <= cap
           /\ \A n \in 1 .. Len(c) : n < k => e - c[n] > cap
    BY <1>2, TrimCut
  <2>. HIDE DEF r
  <2>2. Earliest(c, e) = c[1]
    BY <1>2 DEF Earliest
  <2>3. \A i \in 1 .. Len(c) : i < k => c[i] < c[k]
    BY DEF Chunks
  <2>4. c[1] <= c[k] /\ c[1] \in Nat /\ c[k] \in Nat /\ c[k] < e
    BY <2>0, <2>3
  <2>5. CASE k = Len(c) /\ e - c[k] > cap
    <3>1. r = <<e - cap>>
      BY <2>1, <2>5
    <3>2. e - cap \in Nat /\ c[k] < e - cap /\ e - cap < e
      BY <2>4, <2>5
    <3>3. r \in Seq(Nat) /\ Len(r) = 1 /\ r[1] = e - cap
      BY <3>1, <3>2
    <3>4. Earliest(r, e) = e - cap
      BY <3>1, <3>3 DEF Earliest
    <3>5. Chunks(r, e)
      BY <3>2, <3>3 DEF Chunks
    <3>6. ASSUME NEW x \in Nat, OnChunk(c, e, x) PROVE OnChunk(r, e, x)
      <4>1. \A i \in 1 .. Len(c) : c[i] <= c[k]
        BY <2>0, <2>3, <2>5
      <4>2. x = e \/ x < e - cap
        BY <3>6, <4>1, <2>0, <2>2, <2>4, <3>2 DEF OnChunk
      <4>. QED BY <4>2, <3>4 DEF OnChunk
    <3>7. Earliest(c, e) <= Earliest(r, e) /\ e - Earliest(r, e) <= cap
      BY <3>2, <3>4, <2>2, <2>4
    <3>. QED BY <3>5, <3>6, <3>7, Zenon DEF r
  <2>6. CASE ~ (k = Len(c) /\ e - c[k] > cap)
    <3>1. r = SubSeq(c, k, Len(c)) /\ e - c[k] <= cap
      BY <2>0, <2>1, <2>4, <2>6
    <3>2. r \in Seq(Nat) /\ Len(r) = Len(c) - k + 1 /\ \A i \in 1 .. Len(r) : r[i] = c[i + k - 1]
      <4>1. /\ r \in Seq(Nat) /\ Len(r) = Len(c) - k + 1 /\ r[1] = c[k]
            /\ \A i \in 1 .. Len(c) - k + 1 : r[i] = c[i + k - 1]
        <5>1. c \in Seq(Nat)
          BY <2>0
        <5>2. /\ SubSeq(c, k, Len(c)) \in Seq(Nat) /\ Len(SubSeq(c, k, Len(c))) = Len(c) - k + 1
              /\ SubSeq(c, k, Len(c))[1] = c[k]
              /\ \A i \in 1 .. Len(c) - k + 1 : SubSeq(c, k, Len(c))[i] = c[i + k - 1]
          BY <5>1, Suffix, Zenon
        <5>. QED BY <3>1, <5>2, Zenon
      <4>. QED BY <4>1, Zenon
    <3>3. r # <<>> /\ r[1] = c[k]
      BY <3>2, <2>0
    <3>4. Earliest(r, e) = c[k]
      BY <3>3 DEF Earliest
    <3>5. Chunks(r, e)
      <4>1. \A i \in 1 .. Len(r) : i + k - 1 \in 1 .. Len(c)
        BY <3>2, <2>0
      <4>2. \A i, m \in 1 .. Len(r) : i < m => r[i] < r[m]
        <5>. TAKE i, m \in 1 .. Len(r)
        <5>1. i + k - 1 < m + k - 1 => c[i + k - 1] < c[m + k - 1]
          BY <4>1 DEF Chunks
        <5>. QED BY <5>1, <3>2
      <4>. QED BY <3>2, <4>1, <4>2, <2>0 DEF Chunks
    <3>6. ASSUME NEW x \in Nat, OnChunk(c, e, x) PROVE OnChunk(r, e, x)
      <4>1. CASE x = e
        BY <4>1 DEF OnChunk
      <4>2. CASE x < c[1]
        BY <4>2, <3>4, <2>4, <2>0 DEF OnChunk
      <4>3. ASSUME NEW i \in 1 .. Len(c), c[i] = x PROVE OnChunk(r, e, x)
        <5>1. CASE i < k
          BY <5>1, <4>3, <2>3, <3>4 DEF OnChunk
        <5>2. CASE i >= k
          <6>1. i - k + 1 \in 1 .. Len(r) /\ (i - k + 1) + k - 1 = i
            BY <5>2, <3>2, <2>0
          <6>2. r[i - k + 1] = x
            BY <6>1, <4>3, <3>2
          <6>. QED BY <6>1, <6>2 DEF OnChunk
        <5>. QED BY <5>1, <5>2, <2>0
      <4>. QED BY <3>6, <4>1, <4>2, <4>3, <2>2 DEF OnChunk
    <3>7. Earliest(c, e) <= Earliest(r, e) /\ e - Earliest(r, e) <= cap
      BY <3>1, <3>4, <2>2, <2>4
    <3>. QED BY <3>5, <3>6, <3>7, Zenon DEF r
  <2>. QED BY <2>5, <2>6
<1>. QED BY <1>1, <1>2

\* A trim that spares what comes after an offset does not lose it (settle's cap).
LEMMA TrimSpares ==
  ASSUME NEW c, NEW e \in Nat, NEW cap \in Nat \ {0}, Chunks(c, e),
         NEW x \in Nat, OnChunk(c, e, x), x <= e, e - x <= cap
  PROVE  Earliest(Trim(c, e, cap), e) <= Larger(Earliest(c, e), x)
<1>1. CASE c = <<>>
  <2>1. Trim(c, e, cap) = c
    BY <1>1 DEF Trim
  <2>. QED BY <2>1, EarliestBound DEF Larger
<1>2. CASE c # <<>>
  <2>. DEFINE r == Trim(c, e, cap)
  <2>0. c \in Seq(Nat) /\ Len(c) \in Nat /\ Len(c) >= 1 /\ \A i \in 1 .. Len(c) : c[i] \in Nat /\ c[i] < e
    BY <1>2 DEF Chunks
  <2>1. PICK k \in 1 .. Len(c) :
           /\ r = IF k = Len(c) /\ e - c[k] > cap THEN <<e - cap>> ELSE SubSeq(c, k, Len(c))
           /\ k < Len(c) => e - c[k] <= cap
           /\ \A n \in 1 .. Len(c) : n < k => e - c[n] > cap
    BY <1>2, TrimCut
  <2>. HIDE DEF r
  <2>2. Earliest(c, e) = c[1]
    BY <1>2 DEF Earliest
  <2>5. CASE k = Len(c) /\ e - c[k] > cap
    <3>1. r = <<e - cap>>
      BY <2>1, <2>5
    <3>2. Earliest(r, e) = e - cap
      BY <3>1 DEF Earliest
    <3>. QED BY <3>2, <2>0, <2>2 DEF Larger, r
  <2>6. CASE ~ (k = Len(c) /\ e - c[k] > cap)
    <3>1. r = SubSeq(c, k, Len(c))
      BY <2>1, <2>6
    <3>2. r # <<>> /\ r[1] = c[k]
      <4>1. Len(r) = Len(c) - k + 1 /\ r[1] = c[k]
        BY <3>1, <2>0, Suffix
      <4>. QED BY <4>1, <2>0
    <3>3. Earliest(r, e) = c[k]
      BY <3>2 DEF Earliest
    <3>4. CASE k = 1
      BY <3>3, <3>4, <2>0, <2>2 DEF Larger, r
    <3>5. CASE k > 1
      <4>0. k - 1 \in 1 .. Len(c) /\ k - 1 < k
        BY <3>5, <2>0
      <4>1. c[k - 1] \in Nat /\ c[k - 1] < x
        <5>1. c[k - 1] \in Nat /\ e - c[k - 1] > cap
          BY <4>0, <2>0, <2>1
        <5>. QED BY <5>1
      <4>2. c[1] <= c[k - 1] /\ c[k] < e
        <5>1. \A i, m \in 1 .. Len(c) : i < m => c[i] < c[m]
          BY DEF Chunks
        <5>2. 1 < k - 1 \/ k - 1 = 1
          BY <4>0
        <5>3. 1 \in 1 .. Len(c)
          BY <2>0
        <5>4. c[1] \in Nat /\ (1 < k - 1 => c[1] < c[k - 1])
          BY <5>1, <5>3, <4>0, <2>0
        <5>5. c[k] < e
          BY <2>0
        <5>. QED BY <5>2, <5>4, <5>5, <4>1
      <4>3. CASE x = e
        BY <4>3, <4>2, <3>3, <2>0, <2>2 DEF Larger, r
      <4>4. ASSUME NEW i \in 1 .. Len(c), c[i] = x PROVE c[k] <= x
        <5>1. ~ (i <= k - 1)
          <6>1. i < k - 1 => c[i] < c[k - 1]
            BY <4>0 DEF Chunks
          <6>. QED BY <6>1, <4>0, <4>1, <4>4
        <5>2. k < i \/ k = i
          BY <5>1, <2>0
        <5>. QED BY <5>2, <4>4, <2>0 DEF Chunks
      <4>5. x = e \/ c[k] <= x
        BY <4>0, <4>1, <4>2, <4>4, <2>0, <2>2 DEF OnChunk
      <4>. QED BY <4>3, <4>5, <3>3, <2>0, <2>2 DEF Larger, r
    <3>. QED BY <3>4, <3>5, <2>0
  <2>. QED BY <2>5, <2>6
<1>. QED BY <1>1, <1>2

\* append puts one chunk at the end: neither the start of the ring nor a
\* reader's offset moves.
LEMMA AppendRing ==
  ASSUME NEW c, NEW e \in Nat, NEW n \in Nat \ {0}, Chunks(c, e)
  PROVE  /\ Chunks(Append(c, e), e + n)
         /\ Earliest(Append(c, e), e + n) = Earliest(c, e)
         /\ \A x \in Nat : OnChunk(c, e, x) => OnChunk(Append(c, e), e + n, x)
<1>. DEFINE d == Append(c, e)
<1>1. c \in Seq(Nat) /\ Len(c) \in Nat
  BY DEF Chunks
<1>2. /\ d \in Seq(Nat) /\ Len(d) = Len(c) + 1 /\ d[Len(c) + 1] = e
      /\ \A i \in 1 .. Len(c) : d[i] = c[i]
  BY <1>1
<1>. HIDE DEF d
<1>3. d # <<>> /\ d[1] = Earliest(c, e)
  <2>1. CASE c = <<>>
    BY <2>1, <1>1, <1>2 DEF Earliest
  <2>2. CASE c # <<>>
    <3>1. 1 \in 1 .. Len(c)
      BY <2>2, <1>1
    <3>. QED BY <3>1, <2>2, <1>1, <1>2 DEF Earliest
  <2>. QED BY <2>1, <2>2
<1>4. Earliest(d, e + n) = Earliest(c, e)
  BY <1>3 DEF Earliest
<1>5. Chunks(d, e + n)
  <2>1. \A i \in 1 .. Len(c) : c[i] \in Nat /\ c[i] < e
    BY <1>1 DEF Chunks
  <2>2. ASSUME NEW i \in 1 .. Len(d), NEW k \in 1 .. Len(d), i < k PROVE d[i] < d[k]
    <3>1. i \in 1 .. Len(c)
      BY <2>2, <1>1, <1>2
    <3>2. k \in 1 .. Len(c) => c[i] < c[k]
      BY <2>2, <3>1 DEF Chunks
    <3>3. k \in 1 .. Len(c) \/ k = Len(c) + 1
      BY <1>1, <1>2
    <3>. QED BY <3>1, <3>2, <3>3, <2>1, <1>2
  <2>3. \A i \in 1 .. Len(d) : d[i] < e + n
    <3>. TAKE i \in 1 .. Len(d)
    <3>1. i \in 1 .. Len(c) \/ i = Len(c) + 1
      BY <1>1, <1>2
    <3>. QED BY <3>1, <2>1, <1>2
  <2>. QED BY <2>2, <2>3, <1>2 DEF Chunks
<1>6. ASSUME NEW x \in Nat, OnChunk(c, e, x) PROVE OnChunk(d, e + n, x)
  <2>1. Len(c) + 1 \in 1 .. Len(d)
    BY <1>1, <1>2
  <2>2. CASE x = e
    BY <2>1, <2>2, <1>2 DEF OnChunk
  <2>3. CASE x < Earliest(c, e)
    BY <2>3, <1>4 DEF OnChunk
  <2>4. ASSUME NEW i \in 1 .. Len(c), c[i] = x PROVE OnChunk(d, e + n, x)
    <3>1. i \in 1 .. Len(d) /\ d[i] = x
      BY <2>4, <1>1, <1>2
    <3>. QED BY <3>1 DEF OnChunk
  <2>. QED BY <1>6, <2>2, <2>3, <2>4 DEF OnChunk
<1>. QED BY <1>4, <1>5, <1>6, Zenon DEF d

\* readFrom hands out everything from the offset on, or from the start of the
\* ring when that is later, and says so.
LEMMA ReadFromBytes ==
  ASSUME NEW j, total[j] \in Nat, Chunks(ring[j], total[j]),
         NEW from \in Nat, from <= total[j], OnChunk(ring[j], total[j], from)
  PROVE  /\ ReadFrom(j, from).bytes = total[j] - Larger(from, Earliest(ring[j], total[j]))
         /\ ReadFrom(j, from).lossy = (from < Earliest(ring[j], total[j]))
<1>. DEFINE c == ring[j]
            e == total[j]
            end(k) == IF k = Len(c) THEN e ELSE c[k + 1]
            kept == {k \in 1 .. Len(c) : end(k) > from}
            first == CHOOSE k \in kept : \A n \in kept : k <= n
<1>1. /\ ReadFrom(j, from).bytes = IF kept = {} THEN 0 ELSE e - c[first]
      /\ ReadFrom(j, from).lossy = (from < Earliest(c, e))
  BY DEF ReadFrom
<1>2. c \in Seq(Nat) /\ Len(c) \in Nat /\ \A i \in 1 .. Len(c) : c[i] \in Nat /\ c[i] < e
  BY DEF Chunks
<1>3. \A k \in 1 .. Len(c) : end(k) \in Nat /\ c[k] < end(k) /\ end(k) <= e
  <2>. TAKE k \in 1 .. Len(c)
  <2>1. CASE k = Len(c)
    BY <2>1, <1>2
  <2>2. CASE k # Len(c)
    <3>1. k + 1 \in 1 .. Len(c)
      BY <2>2, <1>2
    <3>. QED BY <2>2, <3>1, <1>2 DEF Chunks
  <2>. QED BY <2>1, <2>2
<1>4. ASSUME NEW i \in kept, \A n \in kept : i <= n PROVE first = i
  <2>1. first \in kept /\ \A n \in kept : first <= n
    <3>. HIDE DEF kept
    <3>. QED BY <1>4, Zenon
  <2>2. kept \subseteq Nat
    BY <1>2
  <2>. HIDE DEF first, kept
  <2>3. first <= i /\ i <= first /\ first \in Nat /\ i \in Nat
    BY <1>4, <2>1, <2>2
  <2>. QED BY <2>3
<1>. HIDE DEF first
<1>5. CASE from = e
  <2>1. kept = {}
    BY <1>3, <1>5
  <2>2. Earliest(c, e) \in Nat /\ Earliest(c, e) <= e
    BY EarliestBound
  <2>. QED BY <1>1, <1>5, <2>1, <2>2 DEF Larger
<1>6. CASE from < Earliest(c, e)
  <2>1. CASE c = <<>>
    <3>1. kept = {} /\ Earliest(c, e) = e
      BY <2>1 DEF Earliest
    <3>. QED BY <3>1, <1>1, <1>6 DEF Larger
  <2>2. CASE c # <<>>
    <3>1. 1 \in 1 .. Len(c) /\ Earliest(c, e) = c[1]
      BY <2>2, <1>2 DEF Earliest
    <3>2. 1 \in kept
      <4>1. end(1) \in Nat /\ c[1] < end(1) /\ c[1] \in Nat
        BY <3>1, <1>2, <1>3, Zenon
      <4>. HIDE DEF end
      <4>2. end(1) > from
        BY <4>1, <3>1, <1>6
      <4>. QED BY <3>1, <4>2
    <3>3. first = 1
      <4>1. \A n \in kept : 1 <= n
        BY <1>2
      <4>. HIDE DEF kept
      <4>. QED BY <3>2, <4>1, <1>4, Zenon
    <3>4. Larger(from, Earliest(c, e)) = c[1]
      BY <3>1, <1>2, <1>6 DEF Larger
    <3>5. kept # {}
      <4>. HIDE DEF kept
      <4>. QED BY <3>2, Zenon
    <3>. HIDE DEF kept
    <3>. QED BY <3>3, <3>4, <3>5, <1>1, Zenon
  <2>. QED BY <2>1, <2>2
<1>7. ASSUME NEW i \in 1 .. Len(c), c[i] = from
      PROVE  ReadFrom(j, from).bytes = e - Larger(from, Earliest(c, e))
  <2>1. i \in kept
    BY <1>2, <1>3, <1>7
  <2>2. ASSUME NEW n \in kept PROVE i <= n
    <3>1. CASE n < i
      <4>1. n # Len(c) /\ n + 1 \in 1 .. Len(c)
        BY <3>1, <1>2
      <4>2. c[n + 1] > from
        BY <4>1
      <4>3. n + 1 < i => c[n + 1] < c[i]
        BY <4>1 DEF Chunks
      <4>4. FALSE
        BY <4>1, <4>2, <4>3, <3>1, <1>2, <1>7
      <4>. QED BY <4>4
    <3>. QED BY <3>1
  <2>3. first = i /\ kept # {}
    <3>. HIDE DEF kept
    <3>. QED BY <2>1, <2>2, <1>4, Zenon
  <2>4. Earliest(c, e) \in Nat /\ Earliest(c, e) <= from
    BY EarliestBound, <1>7
  <2>5. Larger(from, Earliest(c, e)) = c[i]
    BY <2>4, <1>7 DEF Larger
  <2>. HIDE DEF kept
  <2>. QED BY <2>3, <2>5, <1>1, Zenon
<1>8. from = e \/ from < Earliest(c, e) \/ \E i \in 1 .. Len(c) : c[i] = from
  BY DEF OnChunk
<1>. QED BY <1>1, <1>5, <1>6, <1>7, <1>8, Zenon

----------------------------------------------------------------------------
\* The output of one job

\* What is known of one job's output: the parts of the invariant that speak
\* of its ring and of its reads.
Out(j) ==
  /\ total[j] \in Nat /\ cursor[j] \in Nat /\ given[j] \in Nat /\ missed[j] \in Nat
  /\ Chunks(ring[j], total[j]) /\ OnChunk(ring[j], total[j], cursor[j])
  /\ cursor[j] <= total[j] /\ given[j] + missed[j] = cursor[j]
  /\ resultDelivered[j] => isTerminal(j)
  /\ total[j] - Earliest(ring[j], total[j]) <= IF resultDelivered[j] THEN SettledRetainBytes ELSE RetainBytes

\* The limits are positive, and no write is empty.
LEMMA Constants ==
  /\ RetainBytes \in Nat \ {0} /\ SettledRetainBytes \in Nat \ {0}
  /\ MaxConcurrentJobsPerOwner \in Nat \ {0}
  /\ Sizes \subseteq Nat \ {0} /\ MaxBytes \in [Jobs -> Nat]
  BY JobsAssumption

\* A step that does not touch the output.
LEMMA OutSame ==
  ASSUME NEW j, Out(j), isTerminal(j) => isTerminal(j)',
         ring'[j] = ring[j], total'[j] = total[j], cursor'[j] = cursor[j],
         given'[j] = given[j], missed'[j] = missed[j], resultDelivered'[j] = resultDelivered[j]
  PROVE  Out(j)'
  BY Zenon DEF Out

\* A step that appends to a live job.
LEMMA OutAppend ==
  ASSUME NEW j, Out(j), ~ isTerminal(j), NEW n \in Nat \ {0},
         ring'[j] = Appended(j, n), total'[j] = total[j] + n, cursor'[j] = cursor[j],
         given'[j] = given[j], missed'[j] = missed[j], resultDelivered'[j] = resultDelivered[j]
  PROVE  Out(j)'
<1>. DEFINE e == total[j] + n
            d == Append(ring[j], total[j])
            r == Trim(d, e, RetainBytes)
<1>0. total[j] \in Nat /\ e \in Nat /\ cursor[j] \in Nat /\ cursor[j] <= e
  BY DEF Out
<1>1. Chunks(d, e) /\ OnChunk(d, e, cursor[j])
  BY AppendRing DEF Out
<1>2. ring'[j] = r /\ total'[j] = e
  BY Zenon DEF Appended
<1>. HIDE DEF d, e
<1>3. RetainBytes \in Nat \ {0}
  BY Constants
<1>4. Chunks(r, e) /\ OnChunk(r, e, cursor[j]) /\ e - Earliest(r, e) <= RetainBytes
  BY <1>0, <1>1, <1>3, TrimRing
<1>. HIDE DEF r
<1>5. ~ resultDelivered[j]
  BY Zenon DEF Out
<1>. QED BY <1>0, <1>2, <1>4, <1>5, Zenon DEF Out

\* A step that trims: to any cap, or to the settled cap once the result is out.
LEMMA OutTrim ==
  ASSUME NEW j, Out(j), isTerminal(j) => isTerminal(j)', NEW cap \in Nat \ {0},
         ring'[j] = Trim(ring[j], total[j], cap), total'[j] = total[j], cursor'[j] = cursor[j],
         given'[j] = given[j], missed'[j] = missed[j], resultDelivered'[j] = resultDelivered[j]
  PROVE  Out(j)'
<1>. DEFINE r == Trim(ring[j], total[j], cap)
            kept == IF resultDelivered[j] THEN SettledRetainBytes ELSE RetainBytes
<1>0. total[j] \in Nat /\ cursor[j] \in Nat /\ Chunks(ring[j], total[j])
      /\ OnChunk(ring[j], total[j], cursor[j])
  BY DEF Out
<1>1. Chunks(r, total[j]) /\ OnChunk(r, total[j], cursor[j])
      /\ Earliest(ring[j], total[j]) <= Earliest(r, total[j])
  BY <1>0, TrimRing
<1>. HIDE DEF r
<1>2. total[j] - Earliest(ring[j], total[j]) <= kept
  BY Zenon DEF Out
<1>3. kept \in Nat
  BY Constants
<1>. HIDE DEF kept
<1>4. Earliest(ring[j], total[j]) \in Nat /\ Earliest(r, total[j]) \in Nat
  BY <1>0, <1>1, EarliestBound
<1>5. total[j] - Earliest(r, total[j]) <= kept
  BY <1>0, <1>1, <1>2, <1>3, <1>4
<1>. QED BY <1>0, <1>1, <1>5, Zenon DEF Out, r, kept

\* A read: what it hands out and what it reports lost reach to the end.
LEMMA OutRead ==
  ASSUME NEW j \in Jobs, TypeOK, Out(j), Read(j)
  PROVE  Out(j)'
<1>. DEFINE got == ReadFrom(j, cursor[j])
            c == ring[j]
            e == total[j]
            r == Trim(c, e, SettledRetainBytes)
            lost == IF got.lossy THEN missed[j] + Earliest(c, e) - cursor[j] ELSE missed[j]
<1>0. /\ e \in Nat /\ cursor[j] \in Nat /\ given[j] \in Nat /\ missed[j] \in Nat
      /\ Chunks(c, e) /\ OnChunk(c, e, cursor[j])
      /\ cursor[j] <= e /\ given[j] + missed[j] = cursor[j]
  BY DEF Out
<1>1. /\ total'[j] = e /\ cursor'[j] = e /\ given'[j] = given[j] + got.bytes /\ missed'[j] = lost
      /\ resultDelivered'[j] = (resultDelivered[j] \/ isTerminal(j))
      /\ ring'[j] = IF isTerminal(j) THEN r ELSE c
      /\ isTerminal(j)' = isTerminal(j)
  BY Zenon DEF Read, TypeOK, isTerminal
<1>2. Earliest(c, e) \in Nat /\ Earliest(c, e) <= e
  BY <1>0, EarliestBound
<1>3. got.bytes = e - Larger(cursor[j], Earliest(c, e)) /\ got.lossy = (cursor[j] < Earliest(c, e))
  BY <1>0, ReadFromBytes
<1>. HIDE DEF got
<1>4. got.bytes \in Nat /\ lost \in Nat /\ given[j] + got.bytes + lost = e
  <2>1. CASE cursor[j] < Earliest(c, e)
    <3>1. got.lossy
      BY <2>1, <1>3, Zenon
    <3>2. lost = missed[j] + Earliest(c, e) - cursor[j]
      BY <3>1, Zenon
    <3>. QED BY <3>2, <2>1, <1>0, <1>2, <1>3 DEF Larger
  <2>2. CASE ~ (cursor[j] < Earliest(c, e))
    <3>1. ~ got.lossy
      BY <2>2, <1>3, Zenon
    <3>2. lost = missed[j]
      BY <3>1, Zenon
    <3>. QED BY <3>2, <2>2, <1>0, <1>2, <1>3 DEF Larger
  <2>. QED BY <2>1, <2>2
<1>. HIDE DEF lost
<1>5. given'[j] \in Nat /\ given'[j] + missed'[j] = e
  BY <1>0, <1>1, <1>4
<1>6. SettledRetainBytes \in Nat \ {0} /\ e <= e
  BY <1>0, Constants
<1>7. CASE isTerminal(j)
  <2>1. ring'[j] = r /\ resultDelivered'[j] /\ isTerminal(j)'
    BY <1>1, <1>7, Zenon
  <2>2. Chunks(r, e) /\ OnChunk(r, e, e) /\ e - Earliest(r, e) <= SettledRetainBytes
    <3>1. OnChunk(r, e, e)
      BY Zenon DEF OnChunk
    <3>. QED BY <3>1, <1>0, <1>6, TrimRing
  <2>. HIDE DEF r
  <2>. QED BY <2>1, <2>2, <1>0, <1>1, <1>4, <1>5, <1>6, Zenon DEF Out
<1>8. CASE ~ isTerminal(j)
  <2>1. ~ resultDelivered[j]
    BY <1>8, Zenon DEF Out
  <2>2. ring'[j] = c /\ ~ resultDelivered'[j]
    BY <1>1, <1>8, <2>1, Zenon
  <2>3. e - Earliest(c, e) <= RetainBytes
    BY <2>1, Zenon DEF Out
  <2>4. OnChunk(c, e, e)
    BY Zenon DEF OnChunk
  <2>. QED BY <2>2, <2>3, <2>4, <1>0, <1>1, <1>4, <1>5, <1>6, Zenon DEF Out
<1>. QED BY <1>7, <1>8

----------------------------------------------------------------------------
\* One lemma per action: it preserves the registry's invariant

\* The invariant gives what is known of each job's output, and back.
LEMMA OutOf ==
  ASSUME JobsInv
  PROVE  \A j \in Jobs : Out(j)
<1>. TAKE j \in Jobs
<1>1. TypeOK /\ RingInv /\ OutputAccounted /\ RingBounded
  BY Zenon DEF JobsInv
<1>2. total[j] \in Nat /\ cursor[j] \in Nat /\ given[j] \in Nat /\ missed[j] \in Nat /\ ring[j] \in Seq(Nat)
  BY <1>1 DEF TypeOK
<1>3. Chunks(ring[j], total[j]) /\ OnChunk(ring[j], total[j], cursor[j]) /\ (resultDelivered[j] => isTerminal(j))
  BY <1>1, <1>2, Zenon DEF RingInv, Chunks, OnChunk
<1>. QED BY <1>1, <1>2, <1>3, Zenon DEF Out, OutputAccounted, RingBounded

\* The parts make up the invariant.
LEMMA Assembled ==
  ASSUME TypeOK', PumpInv', \A j \in Jobs : Out(j)', StarterInv', HoldUntilReported',
         NobodyStranded', TeardownInv', TornDown', SettleInv'
  PROVE  JobsInv'
<1>1. RingInv'
  BY Zenon DEF RingInv, Out, Chunks, OnChunk
<1>2. OutputAccounted'
  BY Zenon DEF OutputAccounted, Out
<1>3. RingBounded'
  BY Zenon DEF RingBounded, Out
<1>. QED BY <1>1, <1>2, <1>3, Zenon DEF JobsInv

\* A step that leaves all output alone, and settled jobs settled.
LEMMA OutFrame ==
  ASSUME \A k \in Jobs : Out(k), \A k \in Jobs : isTerminal(k) => isTerminal(k)',
         UNCHANGED <<ring, total, cursor, given, missed, resultDelivered>>
  PROVE  \A k \in Jobs : Out(k)'
<1>. TAKE k \in Jobs
<1>1. ring' = ring /\ total' = total /\ cursor' = cursor /\ given' = given /\ missed' = missed
      /\ resultDelivered' = resultDelivered
  OBVIOUS
<1>. QED BY <1>1, OutSame, Zenon

\* The stack after a run call.
LEMMA Pushed ==
  ASSUME NEW j \in Jobs, starters \in Seq(Jobs), starters' = Append(starters, j)
  PROVE  /\ starters' \in Seq(Jobs) /\ Len(starters) \in Nat /\ Len(starters') = Len(starters) + 1
         /\ starters'[Len(starters) + 1] = j
         /\ \A i \in 1 .. Len(starters) : starters'[i] = starters[i]
  OBVIOUS

\* A prefix of a sequence.
LEMMA Prefix ==
  ASSUME NEW S, NEW s \in Seq(S), NEW n \in Nat, n <= Len(s)
  PROVE  /\ SubSeq(s, 1, n) \in Seq(S) /\ Len(SubSeq(s, 1, n)) = n
         /\ \A i \in 1 .. n : SubSeq(s, 1, n)[i] = s[i]
<1>1. \A i \in 1 .. n : s[i] \in S
  OBVIOUS
<1>. QED BY <1>1

\* The stack after the innermost run call has ended.
LEMMA Popped ==
  ASSUME NEW j \in Jobs, starters \in Seq(Jobs), InStarter(j), Returns
  PROVE  /\ starters' \in Seq(Jobs) /\ Len(starters) \in Nat \ {0} /\ Len(starters') = Len(starters) - 1
         /\ starters[Len(starters)] = j
         /\ \A i \in 1 .. Len(starters') : i \in 1 .. Len(starters) /\ i < Len(starters) /\ starters'[i] = starters[i]
<1>1. starters # <<>> /\ Len(starters) \in Nat \ {0} /\ starters[Len(starters)] = j
  BY DEF InStarter
<1>2. starters' = SubSeq(starters, 1, Len(starters) - 1)
  BY DEF Returns
<1>0. Len(starters) - 1 \in Nat /\ Len(starters) - 1 <= Len(starters)
  BY <1>1
<1>3. starters' \in Seq(Jobs) /\ Len(starters') = Len(starters) - 1
  BY <1>0, <1>2, Prefix
<1>4. \A i \in 1 .. Len(starters') : starters'[i] = starters[i]
  BY <1>0, <1>2, <1>3, Prefix
<1>. QED BY <1>1, <1>3, <1>4

\* What the drop of a call leaves: the jobs that are starting are those on the
\* stack, each once, as before.
LEMMA StackAfterReturn ==
  ASSUME TypeOK, StarterInv, NEW j \in Jobs, InStarter(j), Returns, NEW s, s # "starting",
         status' = [status EXCEPT ![j] = s]
  PROVE  /\ status[j] = "starting"
         /\ \A i \in 1 .. Len(starters') : starters'[i] \in Jobs /\ starters'[i] # j /\ status'[starters'[i]] = "starting"
         /\ \A i, k \in 1 .. Len(starters') : starters'[i] = starters'[k] => i = k
         /\ \A k \in Jobs : status'[k] = "starting" => \E i \in 1 .. Len(starters') : starters'[i] = k
<1>0. starters \in Seq(Jobs) /\ DOMAIN status = Jobs
  BY DEF TypeOK
<1>1. starters \in Seq(Jobs) /\ \A k \in Jobs : status'[k] = IF k = j THEN s ELSE status[k]
  BY <1>0
<1>2. /\ starters' \in Seq(Jobs) /\ Len(starters) \in Nat \ {0} /\ Len(starters') = Len(starters) - 1
      /\ starters[Len(starters)] = j
      /\ \A i \in 1 .. Len(starters') : i \in 1 .. Len(starters) /\ i < Len(starters) /\ starters'[i] = starters[i]
  BY <1>1, Popped
<1>3. Len(starters) \in 1 .. Len(starters)
  BY <1>2
<1>4. status[j] = "starting"
  BY <1>2, <1>3 DEF StarterInv
<1>5. \A i \in 1 .. Len(starters') : starters'[i] \in Jobs /\ starters'[i] # j
  BY <1>1, <1>2, <1>3 DEF StarterInv
<1>6. \A i \in 1 .. Len(starters') : status'[starters'[i]] = "starting"
  BY <1>1, <1>2, <1>5 DEF StarterInv
<1>7. \A i, k \in 1 .. Len(starters') : starters'[i] = starters'[k] => i = k
  BY <1>2 DEF StarterInv
<1>8. ASSUME NEW k \in Jobs, status'[k] = "starting" PROVE \E i \in 1 .. Len(starters') : starters'[i] = k
  <2>1. k # j /\ status[k] = "starting"
    BY <1>1, <1>8
  <2>2. PICK i \in 1 .. Len(starters) : starters[i] = k
    BY <2>1 DEF StarterInv
  <2>3. i # Len(starters)
    BY <2>1, <2>2, <1>2
  <2>4. i \in 1 .. Len(starters')
    BY <2>3, <1>2
  <2>. QED BY <2>2, <2>4, <1>2
<1>. QED BY <1>4, <1>5, <1>6, <1>7, <1>8

\* A drain appends to a live job, or moves the pump's offset only.
LEMMA DrainedOut ==
  ASSUME TypeOK, \A k \in Jobs : Out(k), NEW j \in Jobs, written[j] >= copied[j],
         Drained(j), \A k \in Jobs : isTerminal(k) => isTerminal(k)',
         UNCHANGED <<cursor, given, missed, resultDelivered>>
  PROVE  /\ \A k \in Jobs : Out(k)'
         /\ ring' \in [Jobs -> Seq(Nat)] /\ total' \in [Jobs -> Nat]
         /\ copied' = [copied EXCEPT ![j] = written[j]]
         /\ \A k \in Jobs \ {j} : total'[k] = total[k]
         /\ total'[j] = total[j] \/ total'[j] = total[j] + (written[j] - copied[j])
         /\ ~ isTerminal(j) => total'[j] = total[j] + (written[j] - copied[j])
<1>. DEFINE n == written[j] - copied[j]
            keep == n > 0 /\ ~ isTerminal(j)
<1>1. /\ ring \in [Jobs -> Seq(Nat)] /\ total \in [Jobs -> Nat] /\ n \in Nat
      /\ cursor' = cursor /\ given' = given /\ missed' = missed /\ resultDelivered' = resultDelivered
  BY DEF TypeOK
<1>2. /\ copied' = [copied EXCEPT ![j] = written[j]]
      /\ ring' = IF keep THEN [ring EXCEPT ![j] = Appended(j, n)] ELSE ring
      /\ total' = IF keep THEN [total EXCEPT ![j] = @ + n] ELSE total
  BY Zenon DEF Drained
<1>. HIDE DEF keep
<1>3. CASE keep
  <2>1. ring' = [ring EXCEPT ![j] = Appended(j, n)] /\ total' = [total EXCEPT ![j] = total[j] + n]
    BY <1>2, <1>3, Zenon
  <2>2. n \in Nat \ {0} /\ ~ isTerminal(j)
    BY <1>1, <1>3 DEF keep
  <2>. HIDE DEF n
  <2>3. /\ ring'[j] = Appended(j, n) /\ total'[j] = total[j] + n
        /\ \A k \in Jobs \ {j} : ring'[k] = ring[k] /\ total'[k] = total[k]
    BY <1>1, <2>1
  <2>4. Out(j)'
    BY <1>1, <2>2, <2>3, OutAppend, Zenon
  <2>5. \A k \in Jobs \ {j} : Out(k)'
    BY <1>1, <2>3, OutSame, Zenon
  <2>6. \A k \in Jobs : Out(k)'
    BY <2>4, <2>5, Zenon
  <2>7. \A k \in Jobs : ring'[k] \in Seq(Nat) /\ total'[k] \in Nat
    BY <2>6, Zenon DEF Out, Chunks
  <2>8. ring' \in [Jobs -> Seq(Nat)] /\ total' \in [Jobs -> Nat]
    BY <2>7, <2>1, <1>1, Zenon
  <2>. QED BY <1>2, <2>3, <2>6, <2>8 DEF n
<1>4. CASE ~ keep
  <2>1. ring' = ring /\ total' = total
    BY <1>2, <1>4, Zenon
  <2>2. \A k \in Jobs : Out(k)'
    BY <1>1, <2>1, OutFrame, Zenon
  <2>3. ~ isTerminal(j) => n = 0
    BY <1>1, <1>4 DEF keep
  <2>4. ~ isTerminal(j) => total'[j] = total[j] + n
    BY <1>1, <2>1, <2>3
  <2>. QED BY <1>1, <1>2, <2>1, <2>2, <2>4
<1>. QED BY <1>3, <1>4

\* Settlement of some jobs trims their rings and releases their waits.
LEMMA EndedOut ==
  ASSUME TypeOK, \A k \in Jobs : Out(k), NEW first, Ended(first),
         \A k \in Jobs : isTerminal(k) => isTerminal(k)',
         UNCHANGED <<total, cursor, given, missed, resultDelivered>>
  PROVE  /\ \A k \in Jobs : Out(k)'
         /\ ring' \in [Jobs -> Seq(Nat)]
         /\ waiting' \in [Waits -> Jobs \cup {"none"}]
         /\ \A w \in Waits : waiting'[w] \in Jobs => waiting'[w] = waiting[w] /\ waiting[w] \notin first
<1>1. /\ ring' = [j \in Jobs |-> IF j \in first
            THEN Trim(ring[j], total[j], Larger(SettledRetainBytes, total[j] - cursor[j])) ELSE ring[j]]
      /\ waiting' = [w \in Waits |-> IF waiting[w] \in first THEN "none" ELSE waiting[w]]
  BY Zenon DEF Ended
<1>2. total' = total /\ cursor' = cursor /\ given' = given /\ missed' = missed /\ resultDelivered' = resultDelivered
  OBVIOUS
<1>3. ASSUME NEW k \in Jobs PROVE Out(k)'
  <2>. DEFINE cap == Larger(SettledRetainBytes, total[k] - cursor[k])
  <2>1. cap \in Nat \ {0}
    BY Constants DEF Larger, Out
  <2>. HIDE DEF cap
  <2>2. CASE k \in first
    <3>1. ring'[k] = Trim(ring[k], total[k], cap)
      BY <1>1, <2>2, Zenon DEF cap
    <3>. QED BY <3>1, <2>1, <1>2, OutTrim, Zenon
  <2>3. CASE k \notin first
    <3>1. ring'[k] = ring[k]
      BY <1>1, <2>3, Zenon
    <3>. QED BY <3>1, <1>2, OutSame, Zenon
  <2>. QED BY <2>2, <2>3
<1>4. \A k \in Jobs : ring'[k] \in Seq(Nat)
  BY <1>3, Zenon DEF Out, Chunks
<1>5. ring' \in [Jobs -> Seq(Nat)]
  BY <1>1, <1>4, Zenon
<1>6. waiting \in [Waits -> Jobs \cup {"none"}] /\ "none" \notin Jobs
  BY JobsAssumption DEF TypeOK
<1>7. waiting' \in [Waits -> Jobs \cup {"none"}]
  BY <1>1, <1>6
<1>8. \A w \in Waits : waiting'[w] \in Jobs => waiting'[w] = waiting[w] /\ waiting[w] \notin first
  BY <1>1, <1>6
<1>. QED BY <1>3, <1>5, <1>7, <1>8

\* The preflight counts the job before run is called, on an owner that still takes jobs.
LEMMA StartStep ==
  ASSUME JobsInv, NEW j \in Jobs, Start(j)
  PROVE  JobsInv'
<1>0. TypeOK /\ StarterInv /\ HoldUntilReported /\ NobodyStranded /\ TeardownInv /\ TornDown /\ PumpInv /\ SettleInv
  BY DEF JobsInv
<1>a. \A k \in Jobs : Out(k)
  BY OutOf
<1>b. /\ status[j] = "new" /\ ~ closed /\ teardown[Owner[j]] = "no"
      /\ holds' = holds \cup {j} /\ status' = [status EXCEPT ![j] = "starting"]
      /\ store' = store /\ closed' = closed /\ cause' = cause /\ ring' = ring /\ total' = total
      /\ cursor' = cursor /\ resultDelivered' = resultDelivered /\ pump' = pump /\ copied' = copied /\ producer' = producer
      /\ written' = written /\ waiting' = waiting /\ teardown' = teardown /\ captured' = captured /\ given' = given
      /\ missed' = missed
  BY DEF Start, MayOwn, history
<1>c. /\ starters' \in Seq(Jobs) /\ Len(starters) \in Nat /\ Len(starters') = Len(starters) + 1
      /\ starters'[Len(starters) + 1] = j
      /\ \A i \in 1 .. Len(starters) : starters'[i] = starters[i]
  <2>1. starters \in Seq(Jobs) /\ starters' = Append(starters, j)
    BY <1>0 DEF TypeOK, Start
  <2>. QED BY <2>1, Pushed
<1>d. \A i \in 1 .. Len(starters') : i \in 1 .. Len(starters) \/ i = Len(starters) + 1
  BY <1>c
<1>1. TypeOK'
  BY <1>0, <1>b, <1>c DEF TypeOK, Active, Terminal
<1>2. PumpInv'
  BY <1>0 DEF Start, PumpInv
<1>3. \A k \in Jobs : Out(k)'
  BY <1>0, <1>a, OutFrame DEF Start, MayOwn, history, Terminal, Active, isTerminal, TypeOK
<1>4. StarterInv'
  <2>0. \A k \in Jobs : status'[k] = IF k = j THEN "starting" ELSE status[k]
    <3>1. DOMAIN status = Jobs
      BY <1>0 DEF TypeOK
    <3>. QED BY <3>1, <1>b
  <2>1. \A i \in 1 .. Len(starters) : starters[i] \in Jobs /\ starters[i] # j /\ status[starters[i]] = "starting"
    <3>1. starters \in Seq(Jobs)
      BY <1>0 DEF TypeOK
    <3>2. \A i \in 1 .. Len(starters) : status[starters[i]] = "starting"
      BY <1>0 DEF StarterInv
    <3>. QED BY <3>1, <3>2, <1>b
  <2>2. \A i \in 1 .. Len(starters') : status'[starters'[i]] = "starting"
    BY <2>0, <2>1, <1>c, <1>d
  <2>3. \A i, k \in 1 .. Len(starters') : starters'[i] = starters'[k] => i = k
    BY <2>1, <1>0, <1>c, <1>d DEF StarterInv
  <2>4. \A k \in Jobs : status'[k] = "starting" => \E i \in 1 .. Len(starters') : starters'[i] = k
    <3>1. Len(starters) + 1 \in 1 .. Len(starters') /\ \A i \in 1 .. Len(starters) : i \in 1 .. Len(starters')
      BY <1>c
    <3>. QED BY <3>1, <2>0, <1>0, <1>c DEF StarterInv
  <2>5. \A k \in Jobs : status'[k] \in Active => k \in store'
    BY <2>0, <1>0, <1>b DEF StarterInv, Active
  <2>6. \A k \in store' : status'[k] \in Active \cup Terminal
    BY <2>0, <1>0, <1>b DEF StarterInv, Active, Terminal, TypeOK
  <2>. QED BY <2>2, <2>3, <2>4, <2>5, <2>6 DEF StarterInv
<1>5. HoldUntilReported'
  BY <1>0 DEF Start, HoldUntilReported
<1>6. NobodyStranded'
  BY <1>0, JobsAssumption DEF Start, MayOwn, history, Terminal, Active, isTerminal, TypeOK,
       NobodyStranded, StarterInv
<1>7. TeardownInv'
  <2>1. \A i \in 1 .. Len(starters') : ~ closed' /\ teardown'[Owner[starters'[i]]] = "no"
    BY <1>0, <1>b, <1>c, <1>d DEF TeardownInv, MayOwn
  <2>. QED BY <2>1, <1>0, <1>b, Zenon DEF TeardownInv, MayOwn
<1>8. TornDown'
  BY <1>0, <1>b, Zenon DEF TornDown
<1>9. SettleInv'
  <2>1. DOMAIN status = Jobs
    BY <1>0 DEF TypeOK
  <2>. QED BY <2>1, <1>0, <1>b DEF SettleInv, Until, isTerminal, Active, Terminal
<1>. QED BY <1>1, <1>2, <1>3, <1>4, <1>5, <1>6, <1>7, <1>8, <1>9, Assembled

\* A run that throws leaves the stack and its hold, and registers nothing.
LEMMA StarterThrowsStep ==
  ASSUME JobsInv, NEW j \in Jobs, StarterThrows(j)
  PROVE  JobsInv'
<1>0. TypeOK /\ StarterInv /\ HoldUntilReported /\ NobodyStranded /\ TeardownInv /\ TornDown /\ PumpInv /\ SettleInv
  BY DEF JobsInv
<1>a. \A k \in Jobs : Out(k)
  BY OutOf
<1>b. /\ InStarter(j) /\ Returns /\ holds' = holds \ {j} /\ status' = [status EXCEPT ![j] = "thrown"]
      /\ store' = store /\ closed' = closed /\ cause' = cause /\ ring' = ring /\ total' = total
      /\ cursor' = cursor /\ resultDelivered' = resultDelivered /\ pump' = pump /\ copied' = copied /\ producer' = producer
      /\ written' = written /\ waiting' = waiting /\ teardown' = teardown /\ captured' = captured /\ given' = given
      /\ missed' = missed
  BY DEF StarterThrows, history
<1>c. starters \in Seq(Jobs) /\ starters' \in Seq(Jobs)
      /\ \A i \in 1 .. Len(starters') : i \in 1 .. Len(starters) /\ starters'[i] = starters[i]
  <2>1. starters \in Seq(Jobs)
    BY <1>0 DEF TypeOK
  <2>. QED BY <2>1, <1>b, Popped
<1>d. /\ status[j] = "starting"
      /\ \A i \in 1 .. Len(starters') : starters'[i] \in Jobs /\ starters'[i] # j /\ status'[starters'[i]] = "starting"
      /\ \A i, k \in 1 .. Len(starters') : starters'[i] = starters'[k] => i = k
      /\ \A k \in Jobs : status'[k] = "starting" => \E i \in 1 .. Len(starters') : starters'[i] = k
  BY <1>0, <1>b, StackAfterReturn
<1>e. \A k \in Jobs : status'[k] = IF k = j THEN "thrown" ELSE status[k]
  <2>1. DOMAIN status = Jobs
    BY <1>0 DEF TypeOK
  <2>. QED BY <2>1, <1>b
<1>1. TypeOK'
  BY <1>0, <1>b, <1>c DEF TypeOK, Active, Terminal
<1>2. PumpInv'
  BY <1>0 DEF StarterThrows, PumpInv
<1>3. \A k \in Jobs : Out(k)'
  <2>1. \A k \in Jobs : isTerminal(k) => isTerminal(k)'
    BY <1>d, <1>e DEF isTerminal, Terminal
  <2>. QED BY <2>1, <1>a, <1>b, OutFrame, Zenon
<1>4. StarterInv'
  <2>1. \A k \in Jobs : status'[k] \in Active => k \in store'
    BY <1>0, <1>b, <1>e DEF StarterInv, Active
  <2>2. \A k \in store' : status'[k] \in Active \cup Terminal
    BY <1>0, <1>b, <1>d, <1>e DEF StarterInv, Active, Terminal, TypeOK
  <2>. QED BY <2>1, <2>2, <1>d, Zenon DEF StarterInv
<1>5. HoldUntilReported'
  BY <1>0, JobsAssumption DEF StarterThrows, InStarter, Returns, history, Terminal, Active,
       isTerminal, TypeOK, HoldUntilReported, StarterInv
<1>6. NobodyStranded'
  BY <1>0, JobsAssumption DEF StarterThrows, InStarter, Returns, history, Terminal, Active,
       isTerminal, TypeOK, NobodyStranded, StarterInv
<1>7. TeardownInv'
  <2>1. \A i \in 1 .. Len(starters') : ~ closed' /\ teardown'[Owner[starters'[i]]] = "no"
    BY <1>0, <1>b, <1>c DEF TeardownInv, MayOwn
  <2>. QED BY <2>1, <1>0, <1>b, Zenon DEF TeardownInv, MayOwn
<1>8. TornDown'
  BY <1>0 DEF StarterThrows, TornDown
<1>9. SettleInv'
  BY <1>0, <1>b, <1>d, <1>e DEF SettleInv, Until, isTerminal, Active, Terminal
<1>. QED BY <1>1, <1>2, <1>3, <1>4, <1>5, <1>6, <1>7, <1>8, <1>9, Assembled

\* The commit of a record, with the pump's first drain.
LEMMA StarterReturnsStep ==
  ASSUME JobsInv, NEW j \in Jobs, StarterReturns(j)
  PROVE  JobsInv'
<1>0. TypeOK /\ StarterInv /\ HoldUntilReported /\ NobodyStranded /\ TeardownInv /\ TornDown /\ PumpInv /\ SettleInv
  BY DEF JobsInv
<1>a. \A k \in Jobs : Out(k)
  BY OutOf
<1>b. /\ InStarter(j) /\ Returns /\ store' = store \cup {j} /\ status' = [status EXCEPT ![j] = "running"]
      /\ closed' = closed /\ cause' = cause /\ cursor' = cursor /\ resultDelivered' = resultDelivered /\ producer' = producer
      /\ holds' = holds /\ written' = written /\ waiting' = waiting /\ teardown' = teardown /\ captured' = captured
      /\ given' = given /\ missed' = missed
  BY DEF StarterReturns, history
<1>c. starters \in Seq(Jobs) /\ starters' \in Seq(Jobs) /\ starters[Len(starters)] = j /\ Len(starters) \in 1 .. Len(starters)
      /\ \A i \in 1 .. Len(starters') : i \in 1 .. Len(starters) /\ starters'[i] = starters[i]
  <2>1. starters \in Seq(Jobs)
    BY <1>0 DEF TypeOK
  <2>. QED BY <2>1, <1>b, Popped
<1>d. /\ status[j] = "starting"
      /\ \A i \in 1 .. Len(starters') : starters'[i] \in Jobs /\ starters'[i] # j /\ status'[starters'[i]] = "starting"
      /\ \A i, k \in 1 .. Len(starters') : starters'[i] = starters'[k] => i = k
      /\ \A k \in Jobs : status'[k] = "starting" => \E i \in 1 .. Len(starters') : starters'[i] = k
  BY <1>0, <1>b, StackAfterReturn
<1>e. \A k \in Jobs : status'[k] = IF k = j THEN "running" ELSE status[k]
  <2>1. DOMAIN status = Jobs
    BY <1>0 DEF TypeOK
  <2>. QED BY <2>1, <1>b
<1>f. \A k \in Jobs : isTerminal(k) => isTerminal(k)'
  BY <1>d, <1>e DEF isTerminal, Terminal
<1>g. /\ \A k \in Jobs : Out(k)'
      /\ ring' \in [Jobs -> Seq(Nat)] /\ total' \in [Jobs -> Nat]
      /\ pump' \in [Jobs -> {"none", "polling", "done"}] /\ copied' \in [Jobs -> Nat]
      /\ \A k \in Jobs : total'[k] <= MaxBytes[k]
      /\ PumpInv' /\ SettleInv'
  <2>0. /\ \A k \in Jobs : copied[k] <= written[k] /\ (pump[k] # "none" => k \in Pulled) /\ (k \in Pulled => total[k] <= copied[k])
        /\ \A k \in Jobs : total[k] <= MaxBytes[k] /\ written[k] <= MaxBytes[k]
        /\ ring \in [Jobs -> Seq(Nat)] /\ pump \in [Jobs -> {"none", "polling", "done"}]
        /\ total \in [Jobs -> Nat] /\ copied \in [Jobs -> Nat] /\ written \in [Jobs -> Nat]
    BY <1>0 DEF PumpInv, TypeOK
  <2>1. CASE j \in Pulled
    <3>1. pump' = [pump EXCEPT ![j] = "polling"] /\ Drained(j)
      BY <2>1, Zenon DEF StarterReturns
    <3>2. /\ \A k \in Jobs : Out(k)'
          /\ ring' \in [Jobs -> Seq(Nat)] /\ total' \in [Jobs -> Nat]
          /\ copied' = [copied EXCEPT ![j] = written[j]]
          /\ \A k \in Jobs \ {j} : total'[k] = total[k]
          /\ total'[j] = total[j] \/ total'[j] = total[j] + (written[j] - copied[j])
          /\ ~ isTerminal(j) => total'[j] = total[j] + (written[j] - copied[j])
      BY <3>1, <2>0, <1>0, <1>a, <1>b, <1>f, DrainedOut
    <3>3. \A k \in Jobs : total'[k] <= MaxBytes[k]
      <4>1. MaxBytes[j] \in Nat /\ total[j] \in Nat /\ written[j] \in Nat /\ copied[j] \in Nat
        BY <2>0, Constants
      <4>2. total[j] + (written[j] - copied[j]) <= MaxBytes[j]
        BY <4>1, <2>0, <2>1
      <4>. QED BY <4>2, <3>2, <2>0
    <3>4. PumpInv'
      BY <3>1, <3>2, <2>0, <2>1, <1>b DEF PumpInv
    <3>5. SettleInv'
      <4>1. status[j] = "starting" /\ ~ isTerminal(j) /\ total[j] = copied[j] /\ total'[j] = written[j]
        <5>1. status[j] = "starting" /\ ~ isTerminal(j)
          BY <1>d DEF isTerminal, Terminal
        <5>2. total[j] = copied[j]
          BY <5>1, <2>1, <1>0 DEF SettleInv
        <5>. QED BY <5>1, <5>2, <3>2, <2>0
      <4>2. copied'[j] = written[j] /\ pump'[j] = "polling" /\ status'[j] = "running"
        BY <3>1, <3>2, <2>0, <1>e
      <4>3. \A k \in Jobs \ {j} : copied'[k] = copied[k] /\ pump'[k] = pump[k] /\ status'[k] = status[k] /\ total'[k] = total[k]
        BY <3>1, <3>2, <2>0, <1>e
      <4>. QED BY <4>1, <4>2, <4>3, <1>0, <1>b DEF SettleInv, Until, isTerminal, Active, Terminal
    <3>. QED BY <3>1, <3>2, <3>3, <3>4, <3>5, <2>0
  <2>2. CASE j \notin Pulled
    <3>1. pump' = pump /\ ring' = ring /\ total' = total /\ copied' = copied
      BY <2>2, Zenon DEF StarterReturns
    <3>2. \A k \in Jobs : Out(k)'
      BY <3>1, <1>a, <1>b, <1>f, OutFrame, Zenon
    <3>3. PumpInv'
      BY <3>1, <1>0, <1>b, Zenon DEF PumpInv
    <3>4. pump[j] = "none"
      BY <2>0, <2>2
    <3>5. SettleInv'
      BY <3>1, <3>4, <2>2, <1>0, <1>b, <1>d, <1>e DEF SettleInv, Until, isTerminal, Active, Terminal
    <3>. QED BY <3>1, <3>2, <3>3, <3>5, <2>0
  <2>. QED BY <2>1, <2>2
<1>1. TypeOK'
  <2>1. status' \in [Jobs -> {"new", "starting", "thrown"} \cup Active \cup Terminal]
    BY <1>0, <1>b DEF TypeOK, Active
  <2>2. store' \subseteq Jobs /\ \A k \in Jobs : written'[k] <= MaxBytes[k]
    BY <1>0, <1>b DEF TypeOK
  <2>3. /\ TypeOK /\ ring' \in [Jobs -> Seq(Nat)] /\ total' \in [Jobs -> Nat] /\ starters' \in Seq(Jobs)
        /\ pump' \in [Jobs -> {"none", "polling", "done"}] /\ copied' \in [Jobs -> Nat]
        /\ \A k \in Jobs : total'[k] <= MaxBytes[k]
    BY <1>0, <1>c, <1>g
  <2>4. {total', cursor', written', copied', given', missed'} \subseteq [Jobs -> Nat]
    <3>1. {cursor, written, given, missed} \subseteq [Jobs -> Nat]
      BY <2>3 DEF TypeOK
    <3>. QED BY <3>1, <2>3, <1>b
  <2>5. \A k \in Jobs : total'[k] <= MaxBytes[k] /\ written'[k] <= MaxBytes[k]
    BY <2>2, <2>3
  <2>. QED BY <2>1, <2>2, <2>3, <2>4, <2>5, <1>b, Zenon DEF TypeOK
<1>2. PumpInv'
  BY <1>g
<1>3. \A k \in Jobs : Out(k)'
  BY <1>g
<1>4. StarterInv'
  <2>1. \A k \in Jobs : status'[k] \in Active => k \in store'
    BY <1>0, <1>b, <1>e DEF StarterInv, Active
  <2>2. \A k \in store' : status'[k] \in Active \cup Terminal
    BY <1>0, <1>b, <1>d, <1>e DEF StarterInv, Active, Terminal, TypeOK
  <2>. QED BY <2>1, <2>2, <1>d, Zenon DEF StarterInv
<1>5. HoldUntilReported'
  BY <1>0, <1>b, <1>d, <1>e DEF HoldUntilReported
<1>6. NobodyStranded'
  BY <1>0, <1>b, <1>d, <1>e DEF NobodyStranded, isTerminal, Terminal
<1>7. TeardownInv'
  <2>1. \A i \in 1 .. Len(starters') : ~ closed' /\ teardown'[Owner[starters'[i]]] = "no"
    BY <1>0, <1>b, <1>c DEF TeardownInv, MayOwn
  <2>2. ~ closed /\ teardown[Owner[j]] = "no" /\ teardown["service"] = "no"
    BY <1>0, <1>c DEF TeardownInv, MayOwn
  <2>3. \A t \in Teardowns : teardown'[t] = "waiting" =>
          {k \in store' : t = "service" \/ Owner[k] = t} \subseteq captured'[t]
    BY <2>2, <1>0, <1>b DEF TeardownInv
  <2>. QED BY <2>1, <2>3, <1>0, <1>b, Zenon DEF TeardownInv, MayOwn
<1>8. TornDown'
  <2>1. ~ closed /\ teardown[Owner[j]] = "no" /\ teardown["service"] = "no"
    BY <1>0, <1>c DEF TeardownInv, MayOwn
  <2>. QED BY <2>1, <1>0, <1>b DEF TornDown
<1>9. SettleInv'
  BY <1>g
<1>. QED BY <1>1, <1>2, <1>3, <1>4, <1>5, <1>6, <1>7, <1>8, <1>9, Assembled

\* A producer writes to its source or appends to the ring of a live job.
LEMMA WriteStep ==
  ASSUME JobsInv, NEW j \in Jobs, NEW n \in Sizes, Write(j, n)
  PROVE  JobsInv'
<1>0. TypeOK /\ StarterInv /\ HoldUntilReported /\ NobodyStranded /\ TeardownInv /\ TornDown /\ PumpInv /\ SettleInv
  BY DEF JobsInv
<1>a. \A k \in Jobs : Out(k)
  BY OutOf
<1>b. /\ starters' = starters /\ store' = store /\ closed' = closed /\ status' = status /\ cause' = cause
      /\ cursor' = cursor /\ resultDelivered' = resultDelivered /\ pump' = pump /\ copied' = copied /\ producer' = producer
      /\ holds' = holds /\ waiting' = waiting /\ teardown' = teardown /\ captured' = captured /\ given' = given
      /\ missed' = missed
  BY DEF Write, history
<1>c. /\ ring \in [Jobs -> Seq(Nat)] /\ total \in [Jobs -> Nat] /\ written \in [Jobs -> Nat] /\ copied \in [Jobs -> Nat]
      /\ MaxBytes \in [Jobs -> Nat] /\ \A k \in Jobs : total[k] <= MaxBytes[k] /\ written[k] <= MaxBytes[k]
      /\ \A k \in Jobs : copied[k] <= written[k] /\ (pump[k] # "none" => k \in Pulled) /\ (k \in Pulled => total[k] <= copied[k])
  BY <1>0, Constants DEF TypeOK, PumpInv
<1>d. n \in Nat \ {0}
  BY Constants
<1>e. \A k \in Jobs : isTerminal(k) => isTerminal(k)'
  BY <1>b, Zenon DEF isTerminal
<1>f. ~ isTerminal(j)
  <2>1. CASE InStarter(j)
    <3>1. starters \in Seq(Jobs) /\ starters # <<>> /\ starters[Len(starters)] = j
      BY <2>1, <1>0 DEF InStarter, TypeOK
    <3>2. status[j] = "starting"
      BY <3>1, <1>0 DEF StarterInv
    <3>. QED BY <3>2 DEF isTerminal, Terminal
  <2>2. CASE status[j] \in Active
    BY <2>2 DEF isTerminal, Active, Terminal
  <2>. QED BY <2>1, <2>2 DEF Write
<1>g. /\ \A k \in Jobs : Out(k)'
      /\ ring' \in [Jobs -> Seq(Nat)] /\ total' \in [Jobs -> Nat] /\ written' \in [Jobs -> Nat]
      /\ \A k \in Jobs : total'[k] <= MaxBytes[k] /\ written'[k] <= MaxBytes[k]
      /\ PumpInv'
  <2>1. CASE j \in Pulled
    <3>1. /\ written[j] + n <= MaxBytes[j] /\ written' = [written EXCEPT ![j] = written[j] + n]
          /\ ring' = ring /\ total' = total
      BY <2>1 DEF Write
    <3>2. \A k \in Jobs : Out(k)'
      BY <3>1, <1>a, <1>b, <1>e, OutFrame, Zenon
    <3>3. PumpInv'
      BY <3>1, <1>b, <1>c, <1>d DEF PumpInv
    <3>. QED BY <3>1, <3>2, <3>3, <1>c, <1>d
  <2>2. CASE j \notin Pulled
    <3>1. /\ total[j] + n <= MaxBytes[j] /\ written' = written
          /\ ring' = [ring EXCEPT ![j] = Appended(j, n)] /\ total' = [total EXCEPT ![j] = total[j] + n]
      BY <2>2 DEF Write
    <3>2. /\ ring'[j] = Appended(j, n) /\ total'[j] = total[j] + n
          /\ \A k \in Jobs \ {j} : ring'[k] = ring[k] /\ total'[k] = total[k]
      BY <3>1, <1>c, Zenon
    <3>3. Out(j)'
      BY <3>2, <1>a, <1>b, <1>d, <1>f, OutAppend, Zenon
    <3>4. \A k \in Jobs \ {j} : Out(k)'
      BY <3>2, <1>a, <1>b, <1>e, OutSame, Zenon
    <3>5. \A k \in Jobs : Out(k)'
      BY <3>3, <3>4, Zenon
    <3>6. \A k \in Jobs : ring'[k] \in Seq(Nat) /\ total'[k] \in Nat
      BY <3>5, Zenon DEF Out, Chunks
    <3>7. ring' \in [Jobs -> Seq(Nat)] /\ total' \in [Jobs -> Nat]
      BY <3>6, <3>1, <1>c, Zenon
    <3>8. \A k \in Jobs : total'[k] <= MaxBytes[k]
      BY <3>1, <3>2, <1>c
    <3>9. PumpInv'
      BY <3>1, <3>2, <2>2, <1>b, <1>c DEF PumpInv
    <3>. QED BY <3>1, <3>5, <3>7, <3>8, <3>9, <1>c
  <2>. QED BY <2>1, <2>2
<1>1. TypeOK'
  BY <1>0, <1>b, <1>g DEF TypeOK
<1>2. PumpInv'
  BY <1>g
<1>3. \A k \in Jobs : Out(k)'
  BY <1>g
<1>4. StarterInv'
  BY <1>0 DEF Write, StarterInv
<1>5. HoldUntilReported'
  BY <1>0 DEF Write, HoldUntilReported
<1>6. NobodyStranded'
  BY <1>0 DEF Write, NobodyStranded, isTerminal
<1>7. TeardownInv'
  BY <1>0 DEF Write, TeardownInv, MayOwn
<1>8. TornDown'
  BY <1>0 DEF Write, TornDown
<1>9. SettleInv'
  <2>1. CASE j \in Pulled
    <3>1. written' = [written EXCEPT ![j] = written[j] + n] /\ total' = total
      BY <2>1 DEF Write
    <3>2. pump[j] # "done"
      <4>1. CASE InStarter(j)
        <5>1. starters \in Seq(Jobs) /\ starters # <<>> /\ starters[Len(starters)] = j
          BY <4>1, <1>0 DEF InStarter, TypeOK
        <5>2. status[j] = "starting"
          BY <5>1, <1>0 DEF StarterInv
        <5>3. producer[j] = "pending"
          BY <5>2, <1>0 DEF SettleInv, Active, Terminal
        <5>. QED BY <5>3, <1>0, <1>f DEF SettleInv, Until
      <4>2. CASE producer[j] = "pending"
        BY <4>2, <1>0, <1>f DEF SettleInv, Until
      <4>. QED BY <4>1, <4>2 DEF Write
    <3>. QED BY <3>1, <3>2, <1>0, <1>b, <1>c DEF SettleInv, Until, isTerminal
  <2>2. CASE j \notin Pulled
    <3>1. written' = written /\ \A k \in Jobs \ {j} : total'[k] = total[k]
      BY <2>2, <1>c DEF Write
    <3>. QED BY <3>1, <2>2, <1>0, <1>b DEF SettleInv, Until, isTerminal
  <2>. QED BY <2>1, <2>2
<1>. QED BY <1>1, <1>2, <1>3, <1>4, <1>5, <1>6, <1>7, <1>8, <1>9, Assembled

\* The pump copies what is new; it ends when no more can come.
LEMMA PumpDrainsStep ==
  ASSUME JobsInv, NEW j \in Jobs, PumpDrains(j)
  PROVE  JobsInv'
<1>0. TypeOK /\ StarterInv /\ HoldUntilReported /\ NobodyStranded /\ TeardownInv /\ TornDown /\ PumpInv /\ SettleInv
  BY DEF JobsInv
<1>a. \A k \in Jobs : Out(k)
  BY OutOf
<1>b. /\ starters' = starters /\ store' = store /\ closed' = closed /\ status' = status /\ cause' = cause
      /\ cursor' = cursor /\ resultDelivered' = resultDelivered /\ producer' = producer /\ holds' = holds /\ written' = written
      /\ waiting' = waiting /\ teardown' = teardown /\ captured' = captured /\ given' = given /\ missed' = missed
      /\ Drained(j) /\ pump[j] = "polling" /\ pump' = [pump EXCEPT ![j] = IF Until(j) THEN "done" ELSE pump[j]]
  BY DEF PumpDrains, history
<1>c. /\ ring \in [Jobs -> Seq(Nat)] /\ total \in [Jobs -> Nat] /\ written \in [Jobs -> Nat] /\ copied \in [Jobs -> Nat]
      /\ MaxBytes \in [Jobs -> Nat] /\ \A k \in Jobs : total[k] <= MaxBytes[k] /\ written[k] <= MaxBytes[k]
      /\ \A k \in Jobs : copied[k] <= written[k] /\ (pump[k] # "none" => k \in Pulled) /\ (k \in Pulled => total[k] <= copied[k])
  BY <1>0, Constants DEF TypeOK, PumpInv
<1>d. j \in Pulled /\ pump' \in [Jobs -> {"none", "polling", "done"}] /\ \A k \in Jobs : pump'[k] # "none" => pump[k] # "none"
  <2>1. pump \in [Jobs -> {"none", "polling", "done"}]
    BY <1>0 DEF TypeOK
  <2>2. pump' = [pump EXCEPT ![j] = "done"] \/ pump' = [pump EXCEPT ![j] = "polling"]
    BY <1>b, Zenon
  <2>. QED BY <2>1, <2>2, <1>b, <1>c
<1>e. \A k \in Jobs : isTerminal(k) => isTerminal(k)'
  BY <1>b, Zenon DEF isTerminal
<1>f. written[j] >= copied[j]
  BY <1>c
<1>g. /\ \A k \in Jobs : Out(k)'
      /\ ring' \in [Jobs -> Seq(Nat)] /\ total' \in [Jobs -> Nat]
      /\ copied' = [copied EXCEPT ![j] = written[j]]
      /\ \A k \in Jobs \ {j} : total'[k] = total[k]
      /\ total'[j] = total[j] \/ total'[j] = total[j] + (written[j] - copied[j])
      /\ ~ isTerminal(j) => total'[j] = total[j] + (written[j] - copied[j])
  BY <1>0, <1>a, <1>b, <1>e, <1>f, DrainedOut
<1>h. copied' \in [Jobs -> Nat] /\ \A k \in Jobs : total'[k] <= MaxBytes[k]
  <2>1. MaxBytes[j] \in Nat /\ total[j] \in Nat /\ written[j] \in Nat /\ copied[j] \in Nat
    BY <1>c
  <2>2. total[j] + (written[j] - copied[j]) <= MaxBytes[j]
    BY <2>1, <1>c, <1>d
  <2>. QED BY <2>2, <1>c, <1>g
<1>1. TypeOK'
  <2>1. TypeOK /\ ring' \in [Jobs -> Seq(Nat)] /\ total' \in [Jobs -> Nat]
    BY <1>0, <1>g
  <2>2. \A k \in Jobs : total'[k] <= MaxBytes[k] /\ written'[k] <= MaxBytes[k]
    BY <1>b, <1>c, <1>h
  <2>3. {total', cursor', written', copied', given', missed'} \subseteq [Jobs -> Nat]
    <3>1. {cursor, written, given, missed} \subseteq [Jobs -> Nat] /\ copied' \in [Jobs -> Nat]
      BY <2>1, <1>h DEF TypeOK
    <3>. QED BY <3>1, <2>1, <1>b
  <2>. QED BY <2>1, <2>2, <2>3, <1>b, <1>d, Zenon DEF TypeOK
<1>2. PumpInv'
  <2>1. \A k \in Jobs : copied'[k] <= written'[k] /\ (k \in Pulled => total'[k] <= copied'[k])
    <3>1. \A k \in Jobs : written'[k] = written[k] /\ copied'[k] = IF k = j THEN written[k] ELSE copied[k]
      BY <1>b, <1>c, <1>g
    <3>2. written[j] \in Nat /\ copied[j] \in Nat /\ total[j] \in Nat /\ total[j] <= copied[j] /\ copied[j] <= written[j]
      BY <1>c, <1>d
    <3>3. total'[j] <= written[j]
      BY <3>2, <1>g
    <3>4. \A k \in Jobs \ {j} : copied'[k] <= written'[k] /\ (k \in Pulled => total'[k] <= copied'[k])
      BY <3>1, <1>c, <1>g
    <3>5. copied'[j] <= written'[j] /\ total'[j] <= copied'[j]
      BY <3>1, <3>2, <3>3
    <3>. QED BY <3>4, <3>5
  <2>. QED BY <2>1, <1>c, <1>d DEF PumpInv
<1>3. \A k \in Jobs : Out(k)'
  BY <1>g
<1>4. StarterInv'
  BY <1>0 DEF PumpDrains, Drained, StarterInv
<1>5. HoldUntilReported'
  BY <1>0 DEF PumpDrains, Drained, HoldUntilReported
<1>6. NobodyStranded'
  BY <1>0 DEF PumpDrains, Drained, NobodyStranded, isTerminal
<1>7. TeardownInv'
  BY <1>0 DEF PumpDrains, Drained, TeardownInv, MayOwn
<1>8. TornDown'
  BY <1>0 DEF PumpDrains, Drained, TornDown
<1>9. SettleInv'
  <2>1. /\ \A k \in Jobs \ {j} : copied'[k] = copied[k] /\ pump'[k] = pump[k]
        /\ copied'[j] = written[j] /\ pump'[j] # "none" /\ (pump'[j] = "done" => Until(j))
    <3>1. DOMAIN pump = Jobs
      BY <1>0 DEF TypeOK
    <3>2. \A k \in Jobs \ {j} : pump'[k] = pump[k]
      BY <3>1, <1>b, Zenon
    <3>3. pump'[j] = IF Until(j) THEN "done" ELSE "polling"
      BY <3>1, <1>b, Zenon
    <3>. QED BY <3>2, <3>3, <1>c, <1>g
  <2>2. ~ isTerminal(j) => total'[j] = written[j]
    BY <1>0, <1>c, <1>d, <1>g DEF SettleInv
  <2>. QED BY <2>1, <2>2, <1>0, <1>b, <1>g DEF SettleInv, Until, isTerminal
<1>. QED BY <1>1, <1>2, <1>3, <1>4, <1>5, <1>6, <1>7, <1>8, <1>9, Assembled

\* A read moves the model's cursor to the end of the ring.
LEMMA ReadStep ==
  ASSUME JobsInv, NEW j \in Jobs, Read(j)
  PROVE  JobsInv'
<1>0. TypeOK /\ StarterInv /\ HoldUntilReported /\ NobodyStranded /\ TeardownInv /\ TornDown /\ PumpInv /\ SettleInv
  BY DEF JobsInv
<1>a. \A k \in Jobs : Out(k)
  BY OutOf
<1>b. /\ starters' = starters /\ store' = store /\ closed' = closed /\ status' = status /\ cause' = cause
      /\ total' = total /\ pump' = pump /\ copied' = copied /\ producer' = producer /\ holds' = holds
      /\ written' = written /\ waiting' = waiting /\ teardown' = teardown /\ captured' = captured
  BY DEF Read
<1>c. \A k \in Jobs : Out(k)'
  <2>1. ASSUME NEW k \in Jobs, k # j PROVE Out(k)'
    <3>1. /\ cursor \in [Jobs -> Nat] /\ given \in [Jobs -> Nat] /\ missed \in [Jobs -> Nat]
          /\ resultDelivered \in [Jobs -> BOOLEAN] /\ ring \in [Jobs -> Seq(Nat)]
      BY <1>0 DEF TypeOK
    <3>2. /\ cursor'[k] = cursor[k] /\ given'[k] = given[k] /\ missed'[k] = missed[k]
          /\ resultDelivered'[k] = resultDelivered[k] /\ ring'[k] = ring[k]
      BY <3>1, <2>1, Zenon DEF Read
    <3>3. isTerminal(k) => isTerminal(k)'
      BY <1>b, Zenon DEF isTerminal
    <3>. QED BY <3>2, <3>3, <1>a, <1>b, OutSame, Zenon
  <2>2. Out(j)'
    BY <1>0, <1>a, OutRead, Zenon
  <2>. QED BY <2>1, <2>2, Zenon
<1>1. TypeOK'
  <2>1. /\ cursor \in [Jobs -> Nat] /\ given \in [Jobs -> Nat] /\ missed \in [Jobs -> Nat]
        /\ resultDelivered \in [Jobs -> BOOLEAN] /\ ring \in [Jobs -> Seq(Nat)]
    BY <1>0 DEF TypeOK
  <2>2. \A k \in Jobs : cursor'[k] \in Nat /\ given'[k] \in Nat /\ missed'[k] \in Nat /\ ring'[k] \in Seq(Nat)
    BY <1>c, Zenon DEF Out, Chunks
  <2>3. cursor' \in [Jobs -> Nat]
    BY <2>1, <2>2, Zenon DEF Read
  <2>4. given' \in [Jobs -> Nat]
    BY <2>1, <2>2, Zenon DEF Read
  <2>5. missed' \in [Jobs -> Nat]
    BY <2>1, <2>2, Zenon DEF Read
  <2>6. ring' \in [Jobs -> Seq(Nat)]
    BY <2>1, <2>2, Zenon DEF Read
  <2>7. resultDelivered' \in [Jobs -> BOOLEAN]
    BY <2>1, Zenon DEF Read
  <2>8. {total', cursor', written', copied', given', missed'} \subseteq [Jobs -> Nat]
    <3>1. {total, written, copied} \subseteq [Jobs -> Nat]
      BY <1>0 DEF TypeOK
    <3>. QED BY <3>1, <2>3, <2>4, <2>5, <1>b
  <2>. QED BY <2>6, <2>7, <2>8, <1>0, <1>b, Zenon DEF TypeOK
<1>2. PumpInv'
  BY <1>0 DEF Read, PumpInv
<1>3. \A k \in Jobs : Out(k)'
  BY <1>c
<1>4. StarterInv'
  BY <1>0 DEF Read, StarterInv
<1>5. HoldUntilReported'
  BY <1>0 DEF Read, HoldUntilReported
<1>6. NobodyStranded'
  BY <1>0 DEF Read, NobodyStranded, isTerminal
<1>7. TeardownInv'
  BY <1>0 DEF Read, TeardownInv, MayOwn
<1>8. TornDown'
  BY <1>0 DEF Read, TornDown
<1>9. SettleInv'
  BY <1>0 DEF Read, SettleInv, Until, isTerminal
<1>. QED BY <1>1, <1>2, <1>3, <1>4, <1>5, <1>6, <1>7, <1>8, <1>9, Assembled

\* The producer's promise settles, for a committed record only.
LEMMA ProducerSettlesStep ==
  ASSUME JobsInv, NEW j \in Jobs, NEW outcome \in Outcomes \cup {"rejected"}, ProducerSettles(j, outcome)
  PROVE  JobsInv'
<1>0. TypeOK /\ StarterInv /\ HoldUntilReported /\ NobodyStranded /\ TeardownInv /\ TornDown /\ PumpInv /\ SettleInv
  BY DEF JobsInv
<1>a. \A k \in Jobs : Out(k)
  BY OutOf
<1>1. TypeOK'
  BY <1>0, JobsAssumption DEF ProducerSettles, Idle, record, history, Terminal, Active,
       isTerminal, TypeOK
<1>2. PumpInv'
  BY <1>0 DEF ProducerSettles, record, PumpInv
<1>3. \A k \in Jobs : Out(k)'
  BY <1>a, OutFrame DEF ProducerSettles, record, history, isTerminal
<1>4. StarterInv'
  BY <1>0 DEF ProducerSettles, record, StarterInv
<1>5. HoldUntilReported'
  BY <1>0 DEF ProducerSettles, record, HoldUntilReported
<1>6. NobodyStranded'
  BY <1>0 DEF ProducerSettles, record, NobodyStranded, isTerminal
<1>7. TeardownInv'
  BY <1>0 DEF ProducerSettles, record, TeardownInv, MayOwn
<1>8. TornDown'
  BY <1>0 DEF ProducerSettles, record, TornDown
<1>9. SettleInv'
  <2>1. /\ status[j] \in Active \cup Terminal /\ outcome # "pending" /\ producer' = [producer EXCEPT ![j] = outcome]
        /\ DOMAIN producer = Jobs
        /\ total' = total /\ copied' = copied /\ pump' = pump /\ written' = written /\ status' = status
    BY <1>0, JobsAssumption DEF ProducerSettles, TypeOK, record
  <2>. QED BY <2>1, <1>0 DEF SettleInv, Until, isTerminal
<1>. QED BY <1>1, <1>2, <1>3, <1>4, <1>5, <1>6, <1>7, <1>8, <1>9, Assembled

\* The record follows its producer, and the hold is given up.
LEMMA SettleByProducerStep ==
  ASSUME JobsInv, NEW j \in Jobs, SettleByProducer(j)
  PROVE  JobsInv'
<1>0. TypeOK /\ StarterInv /\ HoldUntilReported /\ NobodyStranded /\ TeardownInv /\ TornDown /\ PumpInv /\ SettleInv
  BY DEF JobsInv
<1>a. \A k \in Jobs : Out(k)
  BY OutOf
<1>b. /\ starters' = starters /\ store' = store /\ closed' = closed /\ total' = total /\ cursor' = cursor
      /\ resultDelivered' = resultDelivered /\ pump' = pump /\ copied' = copied /\ producer' = producer /\ written' = written
      /\ teardown' = teardown /\ captured' = captured /\ given' = given /\ missed' = missed
      /\ Idle /\ DoneIsHeard(j) /\ Released(j)
  BY DEF SettleByProducer, history
<1>c. /\ producer[j] # "pending" /\ j \in holds
      /\ holds' = IF producer[j] = "rejected" THEN holds ELSE holds \ {j}
      /\ DOMAIN status = Jobs /\ DOMAIN cause = Jobs /\ producer[j] \in {"rejected"} \cup Terminal /\ holds \subseteq Jobs
  BY <1>0, <1>b DEF DoneIsHeard, Released, TypeOK
<1>d. CASE isTerminal(j)
  <2>1. status' = status /\ cause' = cause /\ ring' = ring /\ waiting' = waiting
    BY <1>d, Zenon DEF SettleByProducer, Counts
  <2>2. \A k \in Jobs : isTerminal(k) => isTerminal(k)'
    BY <2>1, Zenon DEF isTerminal
  <2>3. \A k \in Jobs : Out(k)'
    BY <2>1, <2>2, <1>a, <1>b, OutFrame, Zenon
  <2>4. TypeOK'
    BY <2>1, <1>0, <1>b, <1>c DEF TypeOK
  <2>5. HoldUntilReported'
    BY <2>1, <1>0, <1>b, <1>c DEF HoldUntilReported, Terminal
  <2>6. StarterInv' /\ NobodyStranded'
    BY <2>1, <1>0, <1>b, Zenon DEF StarterInv, NobodyStranded, isTerminal
  <2>7. PumpInv' /\ TeardownInv' /\ TornDown'
    BY <1>0, <1>b, Zenon DEF PumpInv, TeardownInv, TornDown, MayOwn
  <2>8. SettleInv'
    BY <2>1, <1>0, <1>b, Zenon DEF SettleInv, Until, isTerminal
  <2>. QED BY <2>3, <2>4, <2>5, <2>6, <2>7, <2>8, Assembled
<1>e. CASE ~ isTerminal(j)
  <2>. DEFINE s == IF producer[j] = "rejected" THEN "failed" ELSE producer[j]
  <2>1. /\ status' = [status EXCEPT ![j] = s]
        /\ cause' = [cause EXCEPT ![j] = IF @ = "none" THEN "producer" ELSE @] /\ Ended({j})
    BY <1>e, Zenon DEF SettleByProducer, Counts
  <2>2. s \in Terminal
    BY <1>c DEF Terminal
  <2>. HIDE DEF s
  <2>3. \A k \in Jobs : status'[k] = IF k = j THEN s ELSE status[k]
    BY <2>1, <1>c
  <2>4. \A k \in Jobs : isTerminal(k) => isTerminal(k)'
    BY <2>2, <2>3 DEF isTerminal
  <2>5. /\ \A k \in Jobs : Out(k)'
        /\ ring' \in [Jobs -> Seq(Nat)]
        /\ waiting' \in [Waits -> Jobs \cup {"none"}]
        /\ \A w \in Waits : waiting'[w] \in Jobs => waiting'[w] = waiting[w] /\ waiting[w] \notin {j}
    BY <2>1, <2>4, <1>0, <1>a, <1>b, EndedOut
  <2>6. TypeOK'
    <3>1. TypeOK /\ ring' \in [Jobs -> Seq(Nat)] /\ waiting' \in [Waits -> Jobs \cup {"none"}]
      BY <1>0, <2>5
    <3>2. cause' \in [Jobs -> {"none", "kill", "teardown", "producer"}] /\ holds' \subseteq Jobs
      BY <1>0, <1>c, <2>1 DEF TypeOK
    <3>3. status' \in [Jobs -> {"new", "starting", "thrown"} \cup Active \cup Terminal]
      BY <1>0, <2>1, <2>2 DEF TypeOK
    <3>. QED BY <3>1, <3>2, <3>3, <1>b DEF TypeOK
  <2>7. HoldUntilReported'
    <3>1. status[j] \notin {"new", "thrown"} /\ producer[j] = "rejected" => j \in holds'
      BY <1>c
    <3>2. ASSUME NEW k \in Jobs, k # j, status'[k] \notin {"new", "thrown"}, producer'[k] \in {"pending", "rejected"}
          PROVE  k \in holds'
      BY <3>2, <2>3, <1>0, <1>b, <1>c DEF HoldUntilReported
    <3>3. producer'[j] \in {"pending", "rejected"} => j \in holds'
      BY <1>b, <1>c
    <3>. QED BY <3>2, <3>3 DEF HoldUntilReported
  <2>8. StarterInv'
    <3>1. starters = <<>> /\ starters' = <<>> /\ Len(starters') = 0
      BY <1>b DEF Idle
    <3>2. \A k \in Jobs : status[k] # "starting"
      BY <3>1, <1>0 DEF StarterInv
    <3>3. \A k \in Jobs : status'[k] # "starting"
      BY <3>2, <2>2, <2>3 DEF Terminal
    <3>4. \A k \in Jobs : status'[k] \in Active => k \in store'
      BY <2>2, <2>3, <1>0, <1>b DEF StarterInv, Active, Terminal
    <3>5. \A k \in store' : status'[k] \in Active \cup Terminal
      <4>1. \A k \in store : k \in Jobs /\ status[k] \in Active \cup Terminal
        BY <1>0 DEF StarterInv, TypeOK
      <4>. QED BY <4>1, <2>2, <2>3, <1>b
    <3>. QED BY <3>1, <3>3, <3>4, <3>5 DEF StarterInv
  <2>9. NobodyStranded'
    BY <2>3, <2>5, <1>0 DEF NobodyStranded, isTerminal
  <2>10. PumpInv' /\ TeardownInv' /\ TornDown'
    BY <1>0, <1>b, Zenon DEF PumpInv, TeardownInv, TornDown, MayOwn
  <2>11. SettleInv'
    BY <2>2, <2>3, <1>0, <1>b, <1>c DEF SettleInv, Until, isTerminal, Active, Terminal
  <2>. QED BY <2>5, <2>6, <2>7, <2>8, <2>9, <2>10, <2>11, Assembled
<1>. QED BY <1>d, <1>e

\* A kill marks a live record as stopping.
LEMMA KillStep ==
  ASSUME JobsInv, NEW j \in Jobs, Kill(j)
  PROVE  JobsInv'
<1>0. TypeOK /\ StarterInv /\ HoldUntilReported /\ NobodyStranded /\ TeardownInv /\ TornDown /\ PumpInv /\ SettleInv
  BY DEF JobsInv
<1>a. \A k \in Jobs : Out(k)
  BY OutOf
<1>b. /\ j \in store /\ ~ isTerminal(j) /\ status' = [status EXCEPT ![j] = "stopping"]
      /\ cause' = [cause EXCEPT ![j] = "kill"]
      /\ starters' = starters /\ store' = store /\ closed' = closed /\ ring' = ring /\ total' = total
      /\ cursor' = cursor /\ resultDelivered' = resultDelivered /\ pump' = pump /\ copied' = copied /\ producer' = producer
      /\ holds' = holds /\ written' = written /\ waiting' = waiting /\ teardown' = teardown /\ captured' = captured
      /\ given' = given /\ missed' = missed
  BY DEF Kill, history
<1>c. DOMAIN status = Jobs /\ status[j] \in Active
  BY <1>0, <1>b DEF TypeOK, StarterInv, isTerminal
<1>d. \A k \in Jobs : status'[k] = IF k = j THEN "stopping" ELSE status[k]
  BY <1>b, <1>c
<1>e. "stopping" \in Active /\ "stopping" \notin Terminal /\ "starting" \notin Active
  BY DEF Active, Terminal
<1>1. TypeOK'
  <2>1. status' \in [Jobs -> {"new", "starting", "thrown"} \cup Active \cup Terminal]
    BY <1>0, <1>b, <1>e DEF TypeOK
  <2>2. cause' \in [Jobs -> {"none", "kill", "teardown", "producer"}]
    BY <1>0, <1>b DEF TypeOK
  <2>. QED BY <2>1, <2>2, <1>0, <1>b, Zenon DEF TypeOK
<1>2. PumpInv'
  BY <1>0 DEF Kill, PumpInv
<1>3. \A k \in Jobs : Out(k)'
  BY <1>a, OutFrame DEF Kill, history, isTerminal
<1>4. StarterInv'
  <2>1. \A i \in 1 .. Len(starters') : FALSE
    BY DEF Kill, Idle
  <2>2. \A k \in Jobs : status'[k] # "starting"
    <3>1. \A i \in 1 .. Len(starters) : FALSE
      BY <2>1, <1>b
    <3>2. \A k \in Jobs : status[k] # "starting"
      BY <3>1, <1>0 DEF StarterInv
    <3>. QED BY <3>2, <1>d
  <2>3. \A k \in Jobs : status'[k] \in Active => k \in store'
    BY <1>0, <1>b, <1>d DEF StarterInv
  <2>4. \A k \in store' : status'[k] \in Active \cup Terminal
    <3>1. \A k \in store : k \in Jobs /\ status[k] \in Active \cup Terminal
      BY <1>0 DEF StarterInv, TypeOK
    <3>. QED BY <3>1, <1>b, <1>d, <1>e
  <2>. QED BY <2>1, <2>2, <2>3, <2>4, Zenon DEF StarterInv
<1>5. HoldUntilReported'
  BY <1>0, <1>b, <1>c, <1>d DEF HoldUntilReported, Active
<1>6. NobodyStranded'
  <2>1. \A k \in Jobs : ~ isTerminal(k) => ~ isTerminal(k)'
    BY <1>d, <1>e DEF isTerminal
  <2>2. \A w \in Waits : waiting[w] \in Jobs => ~ (status'[waiting[w]] \in Terminal)
    BY <2>1, <1>0, Zenon DEF NobodyStranded, isTerminal
  <2>. QED BY <2>2, <1>b, Zenon DEF NobodyStranded, isTerminal
<1>7. TeardownInv'
  BY <1>0 DEF Kill, TeardownInv, MayOwn
<1>8. TornDown'
  BY <1>0 DEF Kill, TornDown
<1>9. SettleInv'
  <2>1. \A k \in Jobs : isTerminal(k) <=> isTerminal(k)'
    BY <1>b, <1>d, <1>e DEF isTerminal
  <2>2. \A k \in Jobs : status'[k] \in Active <=> status[k] \in Active
    BY <1>c, <1>d, <1>e
  <2>3. \A k \in Jobs : status[k] \in Active \cup Terminal => status'[k] \in Active \cup Terminal
    BY <1>d, <1>e
  <2>. QED BY <2>1, <2>2, <2>3, <1>0, <1>b, Zenon DEF SettleInv, Until
<1>. QED BY <1>1, <1>2, <1>3, <1>4, <1>5, <1>6, <1>7, <1>8, <1>9, Assembled

\* A wait registers with a live job.
LEMMA WaitStep ==
  ASSUME JobsInv, NEW w \in Waits, NEW j \in Jobs, Wait(w, j)
  PROVE  JobsInv'
<1>0. TypeOK /\ StarterInv /\ HoldUntilReported /\ NobodyStranded /\ TeardownInv /\ TornDown /\ PumpInv /\ SettleInv
  BY DEF JobsInv
<1>a. \A k \in Jobs : Out(k)
  BY OutOf
<1>1. TypeOK'
  BY <1>0 DEF Wait, record, history, TypeOK
<1>2. PumpInv'
  BY <1>0 DEF Wait, record, PumpInv
<1>3. \A k \in Jobs : Out(k)'
  BY <1>a, OutFrame DEF Wait, record, history, isTerminal
<1>4. StarterInv'
  BY <1>0 DEF Wait, record, StarterInv
<1>5. HoldUntilReported'
  BY <1>0 DEF Wait, record, HoldUntilReported
<1>6. NobodyStranded'
  BY <1>0 DEF Wait, record, NobodyStranded, isTerminal
<1>7. TeardownInv'
  BY <1>0 DEF Wait, record, TeardownInv, MayOwn
<1>8. TornDown'
  BY <1>0 DEF Wait, record, TornDown
<1>9. SettleInv'
  BY <1>0 DEF Wait, record, SettleInv, Until, isTerminal
<1>. QED BY <1>1, <1>2, <1>3, <1>4, <1>5, <1>6, <1>7, <1>8, <1>9, Assembled

\* A wait runs out.
LEMMA WaitEndsStep ==
  ASSUME JobsInv, NEW w \in Waits, WaitEnds(w)
  PROVE  JobsInv'
<1>0. TypeOK /\ StarterInv /\ HoldUntilReported /\ NobodyStranded /\ TeardownInv /\ TornDown /\ PumpInv /\ SettleInv
  BY DEF JobsInv
<1>a. \A k \in Jobs : Out(k)
  BY OutOf
<1>1. TypeOK'
  BY <1>0 DEF WaitEnds, record, history, TypeOK
<1>2. PumpInv'
  BY <1>0 DEF WaitEnds, record, PumpInv
<1>3. \A k \in Jobs : Out(k)'
  BY <1>a, OutFrame DEF WaitEnds, record, history, isTerminal
<1>4. StarterInv'
  BY <1>0 DEF WaitEnds, record, StarterInv
<1>5. HoldUntilReported'
  BY <1>0 DEF WaitEnds, record, HoldUntilReported
<1>6. NobodyStranded'
  BY <1>0, JobsAssumption DEF WaitEnds, Idle, record, history, Terminal, Active, isTerminal,
       TypeOK, NobodyStranded, StarterInv
<1>7. TeardownInv'
  BY <1>0 DEF WaitEnds, record, TeardownInv, MayOwn
<1>8. TornDown'
  BY <1>0 DEF WaitEnds, record, TornDown
<1>9. SettleInv'
  BY <1>0 DEF WaitEnds, record, SettleInv, Until, isTerminal
<1>. QED BY <1>1, <1>2, <1>3, <1>4, <1>5, <1>6, <1>7, <1>8, <1>9, Assembled

\* A settled record is removed.
LEMMA RemoveStep ==
  ASSUME JobsInv, NEW j \in Jobs, Remove(j)
  PROVE  JobsInv'
<1>0. TypeOK /\ StarterInv /\ HoldUntilReported /\ NobodyStranded /\ TeardownInv /\ TornDown /\ PumpInv /\ SettleInv
  BY DEF JobsInv
<1>a. \A k \in Jobs : Out(k)
  BY OutOf
<1>1. TypeOK'
  BY <1>0 DEF Remove, record, history, TypeOK
<1>2. PumpInv'
  BY <1>0 DEF Remove, record, PumpInv
<1>3. \A k \in Jobs : Out(k)'
  BY <1>a, OutFrame DEF Remove, record, history, isTerminal
<1>4. StarterInv'
  BY <1>0, JobsAssumption DEF Remove, Idle, record, history, Terminal, Active, isTerminal, TypeOK,
       StarterInv
<1>5. HoldUntilReported'
  BY <1>0 DEF Remove, record, HoldUntilReported
<1>6. NobodyStranded'
  BY <1>0 DEF Remove, record, NobodyStranded, isTerminal
<1>7. TeardownInv'
  BY <1>0 DEF Remove, record, TeardownInv, MayOwn
<1>8. TornDown'
  BY <1>0 DEF Remove, record, TornDown
<1>9. SettleInv'
  BY <1>0 DEF Remove, record, SettleInv, Until, isTerminal
<1>. QED BY <1>1, <1>2, <1>3, <1>4, <1>5, <1>6, <1>7, <1>8, <1>9, Assembled

\* A teardown takes what its scope has in the store and cancels it.
LEMMA DisposeStep ==
  ASSUME JobsInv, NEW t \in Teardowns, Dispose(t)
  PROVE  JobsInv'
<1>0. TypeOK /\ StarterInv /\ HoldUntilReported /\ NobodyStranded /\ TeardownInv /\ TornDown /\ PumpInv /\ SettleInv
  BY DEF JobsInv
<1>a. \A k \in Jobs : Out(k)
  BY OutOf
<1>. DEFINE taken == {j \in store : t = "service" \/ Owner[j] = t}
            live == {j \in taken : ~ isTerminal(j)}
<1>b. /\ Idle /\ teardown[t] = "no" /\ teardown' = [teardown EXCEPT ![t] = "waiting"]
      /\ captured' = [captured EXCEPT ![t] = taken] /\ closed' = (closed \/ t = "service")
      /\ starters' = starters /\ store' = store /\ total' = total /\ cursor' = cursor /\ resultDelivered' = resultDelivered
      /\ pump' = pump /\ copied' = copied /\ producer' = producer /\ holds' = holds /\ written' = written
      /\ given' = given /\ missed' = missed
  BY DEF Dispose, history
<1>c. PICK thrown \in SUBSET live : cancelForTeardown(live, thrown)
  BY DEF Dispose
<1>d. taken \subseteq store /\ store \subseteq Jobs /\ live \subseteq Jobs /\ \A k \in live : ~ isTerminal(k) /\ k \in store
  BY <1>0 DEF TypeOK
<1>. HIDE DEF live
<1>e. /\ cause' = [j \in Jobs |-> IF j \in live THEN "teardown" ELSE cause[j]]
      /\ status' \in [Jobs -> {"new", "starting", "thrown"} \cup Active \cup Terminal] /\ Ended(thrown)
      /\ \A k \in Jobs : status'[k] = IF k \in thrown THEN "failed" ELSE IF k \in live THEN "stopping" ELSE status[k]
  BY <1>0, <1>c DEF cancelForTeardown, TypeOK, Active, Terminal
<1>f. \A k \in Jobs : isTerminal(k) => isTerminal(k)'
  BY <1>c, <1>d, <1>e DEF isTerminal
<1>g. /\ \A k \in Jobs : Out(k)'
      /\ ring' \in [Jobs -> Seq(Nat)]
      /\ waiting' \in [Waits -> Jobs \cup {"none"}]
      /\ \A w \in Waits : waiting'[w] \in Jobs => waiting'[w] = waiting[w] /\ waiting[w] \notin thrown
  BY <1>0, <1>a, <1>b, <1>e, <1>f, EndedOut
<1>h. starters = <<>> /\ starters' = <<>> /\ Len(starters') = 0
  BY <1>b DEF Idle
<1>1. TypeOK'
  <2>0. ring' \in [Jobs -> Seq(Nat)] /\ waiting' \in [Waits -> Jobs \cup {"none"}]
    BY <1>g
  <2>1. TypeOK /\ ring' \in [Jobs -> Seq(Nat)] /\ waiting' \in [Waits -> Jobs \cup {"none"}]
    BY <1>0, <2>0
  <2>2. cause' \in [Jobs -> {"none", "kill", "teardown", "producer"}]
    BY <1>0, <1>e DEF TypeOK
  <2>3. teardown' \in [Teardowns -> {"no", "waiting", "done"}] /\ captured' \in [Teardowns -> SUBSET Jobs]
    <3>. HIDE DEF taken
    <3>. QED BY <1>0, <1>b, <1>d DEF TypeOK
  <2>4. closed' \in BOOLEAN
    BY <1>b, Zenon
  <2>5. status' \in [Jobs -> {"new", "starting", "thrown"} \cup Active \cup Terminal]
    BY <1>e
  <2>6. /\ starters' \in Seq(Jobs) /\ store' \subseteq Jobs
        /\ resultDelivered' \in [Jobs -> BOOLEAN]
        /\ {total', cursor', written', copied', given', missed'} \subseteq [Jobs -> Nat]
        /\ \A j \in Jobs : total'[j] <= MaxBytes[j] /\ written'[j] <= MaxBytes[j]
        /\ producer' \in [Jobs -> {"pending", "rejected"} \cup Terminal] /\ holds' \subseteq Jobs
        /\ pump' \in [Jobs -> {"none", "polling", "done"}]
    BY <2>1, <1>b, Zenon DEF TypeOK
  <2>. QED BY <2>1, <2>2, <2>3, <2>4, <2>5, <2>6, Zenon DEF TypeOK
<1>2. PumpInv'
  BY <1>0, <1>b, Zenon DEF PumpInv
<1>4. StarterInv'
  <2>1. \A k \in Jobs : status[k] # "starting"
    BY <1>h, <1>0 DEF StarterInv
  <2>2. \A k \in Jobs : status'[k] # "starting"
    BY <2>1, <1>e
  <2>3. \A k \in Jobs : status'[k] \in Active => k \in store'
    BY <1>0, <1>b, <1>c, <1>d, <1>e DEF StarterInv, Active
  <2>4. \A k \in store' : status'[k] \in Active \cup Terminal
    BY <1>0, <1>b, <1>d, <1>e DEF StarterInv, Active, Terminal
  <2>. QED BY <1>h, <2>2, <2>3, <2>4 DEF StarterInv
<1>5. HoldUntilReported'
  <2>1. \A k \in live : status[k] \notin {"new", "thrown"}
    BY <1>0, <1>d DEF StarterInv, Active, Terminal
  <2>. QED BY <2>1, <1>0, <1>b, <1>c, <1>e DEF HoldUntilReported
<1>6. NobodyStranded'
  BY <1>0, <1>e, <1>g DEF NobodyStranded, isTerminal, Terminal
<1>7. TeardownInv'
  <2>1. /\ DOMAIN teardown = Teardowns /\ DOMAIN captured = Teardowns /\ "service" \in Teardowns
    BY <1>0 DEF TypeOK, Teardowns
  <2>2. \A u \in Teardowns : teardown'[u] = "waiting" =>
          {k \in store' : u = "service" \/ Owner[k] = u} \subseteq captured'[u]
    <3>. TAKE u \in Teardowns
    <3>1. CASE u = t
      BY <3>1, <2>1, <1>b, Zenon
    <3>2. CASE u # t
      <4>1. teardown'[u] = teardown[u] /\ captured'[u] = captured[u] /\ store' = store
        BY <3>2, <2>1, <1>b, Zenon
      <4>. QED BY <4>1, <1>0, Zenon DEF TeardownInv
    <3>. QED BY <3>1, <3>2
  <2>3. closed' <=> teardown'["service"] # "no"
    <3>1. CASE t = "service"
      <4>1. closed' /\ teardown'["service"] = "waiting"
        BY <3>1, <2>1, <1>b, Zenon
      <4>. QED BY <4>1
    <3>2. CASE t # "service"
      <4>1. closed' = closed /\ teardown'["service"] = teardown["service"]
        <5>1. closed \in BOOLEAN
          BY <1>0 DEF TypeOK
        <5>2. teardown'["service"] = teardown["service"]
          BY <3>2, <2>1, <1>b
        <5>3. closed' = closed
          BY <5>1, <3>2, <1>b, Zenon
        <5>. QED BY <5>2, <5>3
      <4>. QED BY <4>1, <1>0, Zenon DEF TeardownInv
    <3>. QED BY <3>1, <3>2
  <2>4. \A i \in 1 .. Len(starters') : FALSE
    BY <1>h
  <2>. QED BY <2>2, <2>3, <2>4, Zenon DEF TeardownInv
<1>8. TornDown'
  <2>1. DOMAIN teardown = Teardowns
    BY <1>0 DEF TypeOK
  <2>2. \A u \in Teardowns : teardown'[u] = "done" => teardown[u] = "done"
    BY <2>1, <1>b
  <2>. QED BY <2>2, <1>0, <1>b, Zenon DEF TornDown
<1>9. SettleInv'
  <2>1. \A k \in live : status[k] \in Active
    BY <1>0, <1>d DEF StarterInv, isTerminal
  <2>2. \A k \in Jobs : k \in thrown => k \in live
    BY <1>c
  <2>. QED BY <2>1, <2>2, <1>0, <1>b, <1>e DEF SettleInv, Until, isTerminal, Active, Terminal
<1>. QED BY <1>1, <1>2, <1>4, <1>5, <1>6, <1>7, <1>8, <1>9, <1>g, Assembled

\* A teardown whose jobs are all settled drops them and returns.
LEMMA DisposedStep ==
  ASSUME JobsInv, NEW t \in Teardowns, Disposed(t)
  PROVE  JobsInv'
<1>0. TypeOK /\ StarterInv /\ HoldUntilReported /\ NobodyStranded /\ TeardownInv /\ TornDown /\ PumpInv /\ SettleInv
  BY DEF JobsInv
<1>a. \A k \in Jobs : Out(k)
  BY OutOf
<1>1. TypeOK'
  BY <1>0 DEF Disposed, record, history, TypeOK
<1>2. PumpInv'
  BY <1>0 DEF Disposed, record, PumpInv
<1>3. \A k \in Jobs : Out(k)'
  BY <1>a, OutFrame DEF Disposed, record, history, isTerminal
<1>4. StarterInv'
  <2>1. starters' = starters /\ status' = status /\ store' = store \ captured[t] /\ \A k \in captured[t] : isTerminal(k)
    BY DEF Disposed, record
  <2>2. \A k \in Jobs : status'[k] \in Active => k \in store'
    BY <2>1, <1>0 DEF StarterInv, isTerminal, Active, Terminal
  <2>3. \A k \in store' : status'[k] \in Active \cup Terminal
    BY <2>1, <1>0 DEF StarterInv
  <2>. QED BY <2>1, <2>2, <2>3, <1>0, Zenon DEF StarterInv
<1>5. HoldUntilReported'
  BY <1>0 DEF Disposed, record, HoldUntilReported
<1>6. NobodyStranded'
  BY <1>0 DEF Disposed, record, NobodyStranded, isTerminal
<1>7. TeardownInv'
  BY <1>0 DEF Disposed, record, TeardownInv, MayOwn
<1>8. TornDown'
  BY <1>0, JobsAssumption DEF Disposed, Idle, record, history, Terminal, Active, isTerminal,
       TypeOK, TornDown, TeardownInv, StarterInv, MayOwn, Teardowns
<1>9. SettleInv'
  BY <1>0 DEF Disposed, record, SettleInv, Until, isTerminal
<1>. QED BY <1>1, <1>2, <1>3, <1>4, <1>5, <1>6, <1>7, <1>8, <1>9, Assembled

----------------------------------------------------------------------------
\* The invariant

\* An empty registry satisfies it.
LEMMA InitInv == Init => JobsInv
<1>. SUFFICES ASSUME Init PROVE JobsInv
  OBVIOUS
<1>1. TypeOK
  <2>1. /\ starters \in Seq(Jobs) /\ store \subseteq Jobs /\ holds \subseteq Jobs
        /\ waiting \in [Waits -> Jobs \cup {"none"}]
    BY DEF Init
  <2>0. closed \in BOOLEAN
    BY Zenon DEF Init
  <2>2. /\ status \in [Jobs -> {"new", "starting", "thrown"} \cup Active \cup Terminal]
        /\ cause \in [Jobs -> {"none", "kill", "teardown", "producer"}]
        /\ producer \in [Jobs -> {"pending", "rejected"} \cup Terminal]
        /\ pump \in [Jobs -> {"none", "polling", "done"}]
    BY DEF Init
  <2>3. ring \in [Jobs -> Seq(Nat)] /\ resultDelivered \in [Jobs -> BOOLEAN]
    BY DEF Init
  <2>4. /\ {total, cursor, written, copied, given, missed} \subseteq [Jobs -> Nat]
        /\ \A j \in Jobs : total[j] <= MaxBytes[j] /\ written[j] <= MaxBytes[j]
    BY Constants DEF Init
  <2>5. teardown \in [Teardowns -> {"no", "waiting", "done"}] /\ captured \in [Teardowns -> SUBSET Jobs]
    BY DEF Init
  <2>. QED BY <2>0, <2>1, <2>2, <2>3, <2>4, <2>5, Zenon DEF TypeOK
<1>2. RingInv /\ OutputAccounted
  BY DEF Init, RingInv, OutputAccounted, Earliest, isTerminal, Terminal
<1>3. RingBounded
  BY Constants DEF Init, RingBounded, Earliest
<1>4. PumpInv /\ SettleInv
  BY DEF Init, PumpInv, SettleInv, Active
<1>5. StarterInv
  BY DEF Init, StarterInv, Active
<1>6. HoldUntilReported /\ NobodyStranded
  BY JobsAssumption DEF Init, HoldUntilReported, NobodyStranded
<1>7. TeardownInv /\ TornDown
  BY DEF Init, TeardownInv, TornDown, Teardowns
<1>. QED BY <1>1, <1>2, <1>3, <1>4, <1>5, <1>6, <1>7 DEF JobsInv

\* Every step preserves it, action by action.
LEMMA NextInv == JobsInv /\ [Next]_vars => JobsInv'
<1>. SUFFICES ASSUME JobsInv, [Next]_vars PROVE JobsInv'
  OBVIOUS
<1>1. CASE UNCHANGED vars
  <2>1. /\ starters' = starters /\ store' = store /\ closed' = closed /\ status' = status /\ cause' = cause
        /\ ring' = ring /\ total' = total /\ cursor' = cursor /\ resultDelivered' = resultDelivered
        /\ pump' = pump /\ copied' = copied /\ producer' = producer /\ holds' = holds /\ written' = written
        /\ waiting' = waiting /\ teardown' = teardown /\ captured' = captured /\ given' = given /\ missed' = missed
    BY <1>1 DEF vars, record, history
  <2>2. TypeOK'
    BY <2>1, Zenon DEF JobsInv, TypeOK
  <2>3. PumpInv' /\ SettleInv'
    BY <2>1, Zenon DEF JobsInv, PumpInv, SettleInv, isTerminal, Until
  <2>4. \A k \in Jobs : Out(k)'
    <3>1. \A k \in Jobs : isTerminal(k) => isTerminal(k)'
      BY <2>1, Zenon DEF isTerminal
    <3>. QED BY <3>1, <2>1, OutOf, OutFrame, Zenon
  <2>5. StarterInv' /\ HoldUntilReported' /\ NobodyStranded'
    BY <2>1, Zenon DEF JobsInv, StarterInv, HoldUntilReported, NobodyStranded, isTerminal
  <2>6. TeardownInv' /\ TornDown'
    BY <2>1, Zenon DEF JobsInv, TeardownInv, TornDown, MayOwn
  <2>. QED BY <2>2, <2>3, <2>4, <2>5, <2>6, Assembled, Zenon
<1>2. CASE Next
  <2>1. ASSUME NEW j \in Jobs, Start(j) \/ StarterThrows(j) \/ StarterReturns(j) PROVE JobsInv'
    BY <2>1, StartStep, StarterThrowsStep, StarterReturnsStep, Zenon
  <2>2. ASSUME NEW j \in Jobs, \E n \in Sizes : Write(j, n) PROVE JobsInv'
    BY <2>2, WriteStep, Zenon
  <2>3. ASSUME NEW j \in Jobs, PumpDrains(j) \/ Read(j) \/ Kill(j) \/ Remove(j) \/ SettleByProducer(j) PROVE JobsInv'
    BY <2>3, PumpDrainsStep, ReadStep, KillStep, RemoveStep, SettleByProducerStep, Zenon
  <2>4. ASSUME NEW j \in Jobs, \E outcome \in Outcomes \cup {"rejected"} : ProducerSettles(j, outcome) PROVE JobsInv'
    BY <2>4, ProducerSettlesStep, Zenon
  <2>5. ASSUME NEW w \in Waits, WaitEnds(w) \/ \E j \in Jobs : Wait(w, j) PROVE JobsInv'
    BY <2>5, WaitEndsStep, WaitStep, Zenon
  <2>6. ASSUME NEW t \in Teardowns, Dispose(t) \/ Disposed(t) PROVE JobsInv'
    BY <2>6, DisposeStep, DisposedStep, Zenon
  <2>. QED BY <1>2, <2>1, <2>2, <2>3, <2>4, <2>5, <2>6, Zenon DEF Next
<1>. QED BY <1>1, <1>2

\* Every reachable state of the registry satisfies its invariant, whatever the
\* order of starters, producers, pumps, reads, kills, removals and teardowns
\* (LocalJobRegistry, OutputRing, startPump).
THEOREM RegistryInvariant == Spec => []JobsInv
<1>. QED BY InitInv, NextInv, PTL DEF Spec

\* Successive reads of a job hand the model each byte once or report it lost
\* (readJob, OutputRing.readFrom, OutputRing.trim).
THEOREM OutputIsAccounted == Spec => []OutputAccounted
<1>1. JobsInv => OutputAccounted
  BY DEF JobsInv
<1>. QED BY <1>1, RegistryInvariant, PTL

\* A returned teardown has left nothing of its scope in the registry, nobody
\* waits for a settled job, and a producer that has not reported keeps its
\* hold (disposeOwned, disposeAll, waitJob, holdProducer).
THEOREM TeardownIsComplete == Spec => [](TornDown /\ NobodyStranded /\ HoldUntilReported)
<1>1. JobsInv => TornDown /\ NobodyStranded /\ HoldUntilReported
  BY DEF JobsInv
<1>. QED BY <1>1, RegistryInvariant, PTL

----------------------------------------------------------------------------
\* Settlement

\* A job is settled by its producer or by a teardown, and stays settled as it is.
LEMMA StatusSteps ==
  ASSUME JobsInv, Next
  PROVE  /\ OneOutcome
         /\ \/ \A j \in Jobs : ~ isTerminal(j) => ~ isTerminal(j)'
            \/ \E j \in Jobs : SettleByProducer(j)
            \/ \E t \in Teardowns : Dispose(t)
<1>0. TypeOK /\ StarterInv
  BY DEF JobsInv
<1>1. DOMAIN status = Jobs /\ DOMAIN cause = Jobs
  BY <1>0 DEF TypeOK
<1>2. ASSUME status' = status, cause' = cause
      PROVE  OneOutcome /\ \A j \in Jobs : ~ isTerminal(j) => ~ isTerminal(j)'
  BY <1>2, Zenon DEF OneOutcome, isTerminal
<1>3. ASSUME NEW j \in Jobs, NEW s, s \notin Terminal, ~ isTerminal(j), status' = [status EXCEPT ![j] = s],
             \A k \in Jobs \ {j} : cause'[k] = cause[k]
      PROVE  OneOutcome /\ \A k \in Jobs : ~ isTerminal(k) => ~ isTerminal(k)'
  BY <1>1, <1>3 DEF OneOutcome, isTerminal
<1>4. ASSUME NEW j \in Jobs, Start(j) \/ StarterThrows(j) \/ StarterReturns(j) \/ Kill(j)
      PROVE  OneOutcome /\ \A k \in Jobs : ~ isTerminal(k) => ~ isTerminal(k)'
  <2>1. CASE Start(j)
    <3>1. ~ isTerminal(j) /\ status' = [status EXCEPT ![j] = "starting"] /\ cause' = cause /\ "starting" \notin Terminal
      BY <2>1 DEF Start, isTerminal, Terminal
    <3>. QED BY <3>1, <1>3
  <2>2. CASE StarterThrows(j)
    <3>1. status' = [status EXCEPT ![j] = "thrown"] /\ cause' = cause /\ "thrown" \notin Terminal /\ InStarter(j) /\ Returns
      BY <2>2 DEF StarterThrows, Terminal
    <3>2. status[j] = "starting"
      BY <3>1, <1>0, StackAfterReturn
    <3>. QED BY <3>1, <3>2, <1>3 DEF isTerminal, Terminal
  <2>3. CASE StarterReturns(j)
    <3>1. status' = [status EXCEPT ![j] = "running"] /\ cause' = cause /\ "running" \notin Terminal /\ InStarter(j) /\ Returns
      BY <2>3 DEF StarterReturns, Terminal
    <3>2. status[j] = "starting"
      BY <3>1, <1>0, StackAfterReturn
    <3>. QED BY <3>1, <3>2, <1>3 DEF isTerminal, Terminal
  <2>4. CASE Kill(j)
    <3>1. /\ ~ isTerminal(j) /\ status' = [status EXCEPT ![j] = "stopping"] /\ "stopping" \notin Terminal
          /\ \A k \in Jobs \ {j} : cause'[k] = cause[k]
      BY <2>4, <1>1 DEF Kill, Terminal
    <3>. QED BY <3>1, <1>3
  <2>. QED BY <1>4, <2>1, <2>2, <2>3, <2>4
<1>5. ASSUME NEW j \in Jobs, PumpDrains(j) \/ Read(j) \/ Remove(j) \/ (\E n \in Sizes : Write(j, n))
                               \/ (\E outcome \in Outcomes \cup {"rejected"} : ProducerSettles(j, outcome))
      PROVE  status' = status /\ cause' = cause
  BY <1>5 DEF PumpDrains, Read, Remove, Write, ProducerSettles, record
<1>6. ASSUME NEW w \in Waits, WaitEnds(w) \/ \E j \in Jobs : Wait(w, j)
      PROVE  status' = status /\ cause' = cause
  BY <1>6 DEF WaitEnds, Wait, record
<1>7. ASSUME NEW t \in Teardowns, Disposed(t)
      PROVE  status' = status /\ cause' = cause
  BY <1>7 DEF Disposed, record
<1>8. ASSUME NEW j \in Jobs, SettleByProducer(j) PROVE OneOutcome
  <2>1. CASE isTerminal(j)
    <3>1. status' = status /\ cause' = cause
      BY <1>8, <2>1, Zenon DEF SettleByProducer, Counts
    <3>. QED BY <3>1, <1>2
  <2>2. CASE ~ isTerminal(j)
    <3>. DEFINE s == IF producer[j] = "rejected" THEN "failed" ELSE producer[j]
                c == IF cause[j] = "none" THEN "producer" ELSE cause[j]
    <3>1. status' = [status EXCEPT ![j] = s] /\ cause' = [cause EXCEPT ![j] = c]
      BY <1>8, <2>2, Zenon DEF SettleByProducer, Counts
    <3>. HIDE DEF s, c
    <3>. QED BY <3>1, <2>2, <1>1 DEF OneOutcome
  <2>. QED BY <2>1, <2>2
<1>9. ASSUME NEW t \in Teardowns, Dispose(t) PROVE OneOutcome
  <2>. DEFINE live == {j \in {j \in store : t = "service" \/ Owner[j] = t} : ~ isTerminal(j)}
  <2>1. PICK thrown \in SUBSET live : cancelForTeardown(live, thrown)
    BY <1>9 DEF Dispose
  <2>2. \A k \in Jobs : isTerminal(k) => k \notin live /\ k \notin thrown
    BY <2>1
  <2>. HIDE DEF live
  <2>. QED BY <2>1, <2>2 DEF OneOutcome, cancelForTeardown
<1>. QED BY <1>2, <1>4, <1>5, <1>6, <1>7, <1>8, <1>9, Zenon DEF Next

\* Settlement of a job keeps all that the model has not read.
LEMMA EndedKeeps ==
  ASSUME \A k \in Jobs : Out(k), NEW first, Ended(first), total' = total, NEW j \in Jobs
  PROVE  Earliest(ring[j], total[j])' <= Larger(Earliest(ring[j], total[j]), cursor[j])
<1>0. /\ total[j] \in Nat /\ cursor[j] \in Nat /\ cursor[j] <= total[j]
      /\ Chunks(ring[j], total[j]) /\ OnChunk(ring[j], total[j], cursor[j])
  BY DEF Out
<1>. DEFINE cap == Larger(SettledRetainBytes, total[j] - cursor[j])
<1>1. cap \in Nat \ {0} /\ total[j] - cursor[j] <= cap
  BY <1>0, Constants DEF Larger
<1>2. ring'[j] = IF j \in first THEN Trim(ring[j], total[j], cap) ELSE ring[j]
  BY Zenon DEF Ended
<1>. HIDE DEF cap
<1>3. CASE j \in first
  <2>1. Earliest(Trim(ring[j], total[j], cap), total[j]) <= Larger(Earliest(ring[j], total[j]), cursor[j])
    BY <1>0, <1>1, TrimSpares
  <2>. QED BY <2>1, <1>2, <1>3, Zenon
<1>4. CASE j \notin first
  <2>1. Earliest(ring[j], total[j]) \in Nat
    BY <1>0, EarliestBound
  <2>2. Earliest(ring[j], total[j]) <= Larger(Earliest(ring[j], total[j]), cursor[j])
    BY <2>1, <1>0 DEF Larger
  <2>. QED BY <2>2, <1>2, <1>4, Zenon
<1>. QED BY <1>3, <1>4

\* One step: it gives a job no second outcome, cuts off nothing that the model
\* has not read, and settles a pulled job with all its output in the ring.
LEMMA StepCutsNothing ==
  ASSUME JobsInv, Next
  PROVE  UnreadKept /\ SettledWithAllOutput /\ OneOutcome
<1>0. TypeOK /\ PumpInv /\ SettleInv /\ \A k \in Jobs : Out(k)
  BY OutOf DEF JobsInv
<1>1. OneOutcome
  BY StatusSteps
<1>2. CASE \A j \in Jobs : ~ isTerminal(j) => ~ isTerminal(j)'
  <2>1. Pulled \subseteq Jobs
    BY JobsAssumption
  <2>. QED BY <1>1, <1>2, <2>1, Zenon DEF UnreadKept, SettledWithAllOutput
<1>3. ASSUME NEW j \in Jobs, SettleByProducer(j) PROVE UnreadKept /\ SettledWithAllOutput
  <2>1. CASE isTerminal(j)
    <3>1. status' = status
      BY <1>3, <2>1, Zenon DEF SettleByProducer, Counts
    <3>2. Pulled \subseteq Jobs
      BY JobsAssumption
    <3>. QED BY <3>1, <3>2, Zenon DEF UnreadKept, SettledWithAllOutput, isTerminal
  <2>2. CASE ~ isTerminal(j)
    <3>1. Ended({j}) /\ total' = total /\ DoneIsHeard(j)
          /\ status' = [status EXCEPT ![j] = IF producer[j] = "rejected" THEN "failed" ELSE producer[j]]
      BY <1>3, <2>2, Zenon DEF SettleByProducer, Counts
    <3>2. UnreadKept
      BY <3>1, <1>0, EndedKeeps, Zenon DEF UnreadKept
    <3>3. \A k \in Jobs \ {j} : status'[k] = status[k]
      <4>1. DOMAIN status = Jobs
        BY <1>0 DEF TypeOK
      <4>. QED BY <4>1, <3>1, Zenon
    <3>4. j \in Pulled => total[j] = written[j]
      <4>1. producer[j] # "pending" /\ pump[j] # "polling"
        BY <3>1 DEF DoneIsHeard
      <4>2. status[j] \in Active
        BY <4>1, <2>2, <1>0 DEF SettleInv, isTerminal
      <4>3. j \in Pulled => pump[j] = "done"
        BY <4>1, <4>2, <1>0 DEF SettleInv, TypeOK
      <4>. QED BY <4>3, <2>2, <1>0 DEF SettleInv
    <3>5. SettledWithAllOutput
      <4>1. Pulled \subseteq Jobs
        BY JobsAssumption
      <4>. QED BY <4>1, <3>3, <3>4, Zenon DEF SettledWithAllOutput, isTerminal
    <3>. QED BY <3>2, <3>5
  <2>. QED BY <2>1, <2>2
<1>4. ASSUME NEW t \in Teardowns, Dispose(t) PROVE UnreadKept /\ SettledWithAllOutput
  <2>1. \E first : Ended(first)
    BY <1>4, Zenon DEF Dispose, cancelForTeardown
  <2>2. total' = total
    BY <1>4 DEF Dispose
  <2>3. UnreadKept
    BY <2>1, <2>2, <1>0, EndedKeeps, Zenon DEF UnreadKept
  <2>4. teardown' # teardown
    <3>1. t \in DOMAIN teardown
      BY <1>0 DEF TypeOK
    <3>2. teardown'[t] = "waiting" /\ teardown[t] = "no"
      BY <3>1, <1>4 DEF Dispose
    <3>. QED BY <3>2
  <2>. QED BY <2>3, <2>4, Zenon DEF SettledWithAllOutput
<1>. QED BY <1>1, <1>2, <1>3, <1>4, StatusSteps, Zenon

\* Settlement is final and cuts nothing off, for every interleaving of the
\* producer, its pump, the model's reads, kills and teardowns (settle, start's
\* producerDone, cancelForTeardown).
THEOREM SettlementCutsNothing == Spec => NothingCutOff
<1>1. JobsInv /\ [Next]_vars => [UnreadKept /\ SettledWithAllOutput /\ OneOutcome]_vars
  BY StepCutsNothing, Zenon
<1>. QED BY <1>1, RegistryInvariant, PTL DEF Spec, NothingCutOff

----------------------------------------------------------------------------
\* The limit of an owner's jobs

\* The jobs that the limit counts.
LiveOf(o) == {j \in Jobs : Owner[j] = o /\ status[j] \in Active \cup {"starting"}}

\* activeJobCount counts each of them, once as a record or once on the stack.
LEMMA CountCoversLive ==
  ASSUME TypeOK, StarterInv, NEW o
  PROVE  /\ IsFiniteSet(LiveOf(o)) /\ Cardinality(LiveOf(o)) \in Nat
         /\ activeJobCount(o) \in Nat /\ Cardinality(LiveOf(o)) <= activeJobCount(o)
<1>. DEFINE A == {j \in store : Owner[j] = o /\ status[j] \in Active}
            B == {i \in 1 .. Len(starters) : Owner[starters[i]] = o}
            C == {j \in Jobs : Owner[j] = o /\ status[j] = "starting"}
            f == [i \in B |-> starters[i]]
<1>0. starters \in Seq(Jobs) /\ Len(starters) \in Nat /\ store \subseteq Jobs
  BY DEF TypeOK
<1>1. IsFiniteSet(Jobs) /\ A \in SUBSET Jobs /\ C \in SUBSET Jobs
  BY <1>0, JobsAssumption
<1>2. IsFiniteSet(1 .. Len(starters)) /\ B \in SUBSET (1 .. Len(starters))
  <2>1. IsFiniteSet(1 .. Len(starters))
    BY <1>0, FS_Interval
  <2>. QED BY <2>1
<1>3. f \in Surjection(B, C)
  <2>1. f \in [B -> C]
    BY <1>0 DEF StarterInv
  <2>2. \A c \in C : \E i \in B : f[i] = c
    BY <1>0 DEF StarterInv
  <2>. QED BY <2>1, <2>2 DEF Surjection
<1>4. LiveOf(o) = A \cup C
  BY <1>0 DEF LiveOf, StarterInv
<1>5. activeJobCount(o) = Cardinality(A) + Cardinality(B)
  BY Zenon DEF activeJobCount
<1>. HIDE DEF A, B, C, f
<1>6. IsFiniteSet(A) /\ IsFiniteSet(B) /\ IsFiniteSet(C) /\ IsFiniteSet(A \cap C)
  <2>1. IsFiniteSet(A) /\ IsFiniteSet(C) /\ IsFiniteSet(B)
    BY <1>1, <1>2, FS_Subset
  <2>. QED BY <2>1, FS_Subset
<1>7. /\ Cardinality(A) \in Nat /\ Cardinality(B) \in Nat /\ Cardinality(C) \in Nat
      /\ Cardinality(A \cap C) \in Nat
  BY <1>6, FS_CardinalityType
<1>8. Cardinality(C) <= Cardinality(B)
  BY <1>3, <1>6, FS_Surjection
<1>9. IsFiniteSet(A \cup C) /\ Cardinality(A \cup C) = Cardinality(A) + Cardinality(C) - Cardinality(A \cap C)
  BY <1>6, FS_Union
<1>10. Cardinality(A \cup C) \in Nat
  BY <1>9, FS_CardinalityType
<1>. QED BY <1>4, <1>5, <1>7, <1>8, <1>9, <1>10

\* No step but a start adds to them.
LEMMA LiveShrinks ==
  ASSUME JobsInv, Next, \A j \in Jobs : ~ Start(j)
  PROVE  \A k \in Jobs : status'[k] \in Active \cup {"starting"} => status[k] \in Active \cup {"starting"}
<1>0. TypeOK /\ StarterInv
  BY DEF JobsInv
<1>1. DOMAIN status = Jobs
  BY <1>0 DEF TypeOK
<1>2. ASSUME NEW j \in Jobs, NEW s, status' = [status EXCEPT ![j] = s],
             s \in Terminal \cup {"thrown"} \/ status[j] \in Active \cup {"starting"}
      PROVE  \A k \in Jobs : status'[k] \in Active \cup {"starting"} => status[k] \in Active \cup {"starting"}
  BY <1>1, <1>2 DEF Active, Terminal
<1>3. ASSUME NEW j \in Jobs, StarterThrows(j) \/ StarterReturns(j) \/ Kill(j) \/ SettleByProducer(j)
      PROVE  \A k \in Jobs : status'[k] \in Active \cup {"starting"} => status[k] \in Active \cup {"starting"}
  <2>1. CASE StarterThrows(j)
    BY <2>1, <1>2 DEF StarterThrows
  <2>2. CASE StarterReturns(j)
    <3>1. status' = [status EXCEPT ![j] = "running"] /\ InStarter(j) /\ Returns
      BY <2>2 DEF StarterReturns
    <3>2. status[j] = "starting"
      BY <3>1, <1>0, StackAfterReturn
    <3>. QED BY <3>1, <3>2, <1>2
  <2>3. CASE Kill(j)
    <3>1. status' = [status EXCEPT ![j] = "stopping"] /\ j \in store /\ ~ isTerminal(j)
      BY <2>3 DEF Kill
    <3>2. status[j] \in Active
      BY <3>1, <1>0 DEF StarterInv, isTerminal
    <3>. QED BY <3>1, <3>2, <1>2
  <2>4. CASE SettleByProducer(j)
    <3>. DEFINE s == IF producer[j] = "rejected" THEN "failed" ELSE producer[j]
    <3>1. status' = status \/ status' = [status EXCEPT ![j] = s]
      BY <2>4, Zenon DEF SettleByProducer
    <3>2. s \in Terminal
      BY <2>4, <1>0 DEF SettleByProducer, DoneIsHeard, TypeOK, Terminal
    <3>. HIDE DEF s
    <3>. QED BY <3>1, <3>2, <1>2
  <2>. QED BY <1>3, <2>1, <2>2, <2>3, <2>4
<1>4. ASSUME NEW j \in Jobs, PumpDrains(j) \/ Read(j) \/ Remove(j) \/ (\E n \in Sizes : Write(j, n))
                               \/ (\E outcome \in Outcomes \cup {"rejected"} : ProducerSettles(j, outcome))
      PROVE  status' = status
  BY <1>4 DEF PumpDrains, Read, Remove, Write, ProducerSettles, record
<1>5. ASSUME NEW w \in Waits, WaitEnds(w) \/ \E j \in Jobs : Wait(w, j) PROVE status' = status
  BY <1>5 DEF WaitEnds, Wait, record
<1>6. ASSUME NEW t \in Teardowns, Disposed(t) PROVE status' = status
  BY <1>6 DEF Disposed, record
<1>7. ASSUME NEW t \in Teardowns, Dispose(t)
      PROVE  \A k \in Jobs : status'[k] \in Active \cup {"starting"} => status[k] \in Active \cup {"starting"}
  <2>. DEFINE live == {j \in {j \in store : t = "service" \/ Owner[j] = t} : ~ isTerminal(j)}
  <2>1. PICK thrown \in SUBSET live : cancelForTeardown(live, thrown)
    BY <1>7 DEF Dispose
  <2>2. \A k \in live : status[k] \in Active
    BY <1>0 DEF StarterInv, isTerminal
  <2>. HIDE DEF live
  <2>. QED BY <2>1, <2>2 DEF cancelForTeardown
<1>. QED BY <1>3, <1>4, <1>5, <1>6, <1>7, Zenon DEF Next

\* Every step keeps the limit: a start because it was counted first, any other
\* because it makes no job live.
LEMMA NextLimit == JobsInv /\ LimitHolds /\ [Next]_vars => LimitHolds'
<1>. SUFFICES ASSUME JobsInv, LimitHolds, [Next]_vars PROVE LimitHolds'
  OBVIOUS
<1>0. TypeOK /\ StarterInv
  BY DEF JobsInv
<1>1. \A o \in Owners : Cardinality(LiveOf(o)) <= MaxConcurrentJobsPerOwner
  BY Zenon DEF LimitHolds, LiveOf
<1>2. ASSUME \A o \in Owners : Cardinality(LiveOf(o)') <= MaxConcurrentJobsPerOwner PROVE LimitHolds'
  BY <1>2, Zenon DEF LimitHolds, LiveOf
<1>3. ASSUME \A k \in Jobs : status'[k] \in Active \cup {"starting"} => status[k] \in Active \cup {"starting"}
      PROVE  LimitHolds'
  <2>1. ASSUME NEW o \in Owners PROVE Cardinality(LiveOf(o)') <= MaxConcurrentJobsPerOwner
    <3>1. LiveOf(o)' \in SUBSET LiveOf(o)
      BY <1>3 DEF LiveOf
    <3>2. IsFiniteSet(LiveOf(o)) /\ Cardinality(LiveOf(o)) \in Nat
      BY <1>0, CountCoversLive
    <3>3. IsFiniteSet(LiveOf(o)') /\ Cardinality(LiveOf(o)') <= Cardinality(LiveOf(o))
      BY <3>1, <3>2, FS_Subset
    <3>4. Cardinality(LiveOf(o)') \in Nat
      BY <3>3, FS_CardinalityType
    <3>. QED BY <3>2, <3>3, <3>4, <1>1, Constants
  <2>. QED BY <2>1, <1>2
<1>4. CASE UNCHANGED vars
  <2>1. status' = status
    BY <1>4 DEF vars, record
  <2>. QED BY <2>1, <1>3, Zenon
<1>5. ASSUME NEW j \in Jobs, Start(j) PROVE LimitHolds'
  <2>0. DOMAIN status = Jobs
    BY <1>0 DEF TypeOK
  <2>1. activeJobCount(Owner[j]) < MaxConcurrentJobsPerOwner /\ status' = [status EXCEPT ![j] = "starting"]
    BY <1>5 DEF Start
  <2>2. ASSUME NEW o \in Owners PROVE Cardinality(LiveOf(o)') <= MaxConcurrentJobsPerOwner
    <3>1. CASE o = Owner[j]
      <4>1. LiveOf(o)' = LiveOf(o) \cup {j}
        BY <3>1, <2>0, <2>1 DEF LiveOf
      <4>2. /\ IsFiniteSet(LiveOf(o)) /\ Cardinality(LiveOf(o)) \in Nat
            /\ activeJobCount(o) \in Nat /\ Cardinality(LiveOf(o)) <= activeJobCount(o)
        BY <1>0, CountCoversLive
      <4>3. Cardinality(LiveOf(o) \cup {j}) = IF j \in LiveOf(o) THEN Cardinality(LiveOf(o)) ELSE Cardinality(LiveOf(o)) + 1
        BY <4>2, FS_AddElement
      <4>. QED BY <4>1, <4>2, <4>3, <3>1, <2>1, Constants
    <3>2. CASE o # Owner[j]
      <4>1. LiveOf(o)' = LiveOf(o)
        BY <3>2, <2>0, <2>1 DEF LiveOf
      <4>. QED BY <4>1, <1>1
    <3>. QED BY <3>1, <3>2
  <2>. QED BY <2>2, <1>2
<1>6. CASE Next /\ \A j \in Jobs : ~ Start(j)
  BY <1>6, <1>3, LiveShrinks
<1>. QED BY <1>4, <1>5, <1>6, Zenon

\* An owner never has more live jobs than its limit, though a starter may start
\* jobs before its own record exists (start, activeJobCount).
THEOREM LimitIsKept == Spec => []LimitHolds
<1>1. Init => LimitHolds
  <2>. SUFFICES ASSUME Init, NEW o \in Owners
                PROVE  Cardinality(LiveOf(o)) <= MaxConcurrentJobsPerOwner
    BY Zenon DEF LimitHolds, LiveOf
  <2>1. LiveOf(o) = {}
    BY DEF Init, LiveOf, Active
  <2>2. Cardinality(LiveOf(o)) = 0
    BY <2>1, FS_EmptySet
  <2>. QED BY <2>2, Constants
<1>. QED BY <1>1, NextLimit, RegistryInvariant, PTL DEF Spec
=============================================================================
