----------------------------- MODULE DataLemmas -----------------------------
(***************************************************************************)
(* Facts about data that several proofs need: that a loop over 1 .. n      *)
(* computes what its steps say, what beginnings of sequences are, and      *)
(* where the parts stand a text is joined from.                            *)
(***************************************************************************)
EXTENDS Integers, Sequences, SequencesExt, SequenceTheorems,
        WellFoundedInduction, TLAPS

\* Natural numbers are well ordered.
LEMMA LeastNatural ==
  ASSUME NEW T \in SUBSET Nat, T # {}
  PROVE  \E m \in T : \A k \in T : m <= k
  <1>. DEFINE R == {ss \in Nat \X Nat : ss[1] < ss[2]}
  <1>1. IsWellFoundedOn(R, Nat)
    BY NatLessThanWellFounded DEF OpToRel
  <1>2. \A k, m \in Nat : <<k, m>> \notin R => m <= k
    OBVIOUS
  <1>. HIDE DEF R
  <1>3. \E m \in T : \A k \in T : <<k, m>> \notin R
    BY <1>1, WFMin
  <1>. QED
    BY <1>2, <1>3

\* Loops over 1 .. n that begin with a and stay in S have a run, whatever
\* n and their steps.
LoopsRun(S, a) ==
  \A n \in Nat : \A step \in [(1 .. n) \X S -> S] :
    \E f \in [0 .. n -> S] :
      f[0] = a /\ \A i \in 1 .. n : f[i] = step[<<i, f[i - 1]>>]

LEMMA LoopRuns == ASSUME NEW S, NEW a \in S PROVE LoopsRun(S, a)
  <1>. SUFFICES ASSUME NEW n \in Nat, NEW step \in [(1 .. n) \X S -> S]
                PROVE  \E f \in [0 .. n -> S] :
                         f[0] = a /\ \A i \in 1 .. n : f[i] = step[<<i, f[i - 1]>>]
    BY DEF LoopsRun
  <1>. DEFINE Runs(m) == \E f \in [0 .. m -> S] :
                           f[0] = a /\ \A i \in 1 .. m : f[i] = step[<<i, f[i - 1]>>]
              Stuck == {m \in 0 .. n : ~Runs(m)}
  <1>1. Runs(0)
    <2>. WITNESS [i \in 0 .. 0 |-> a] \in [0 .. 0 -> S]
    <2>. QED
      OBVIOUS
  <1>2. ASSUME NEW m \in 1 .. n, Runs(m - 1) PROVE Runs(m)
    <2>1. PICK f \in [0 .. m - 1 -> S] :
            f[0] = a /\ \A i \in 1 .. m - 1 : f[i] = step[<<i, f[i - 1]>>]
      BY <1>2
    <2>. DEFINE g == [i \in 0 .. m |-> IF i = m THEN step[<<m, f[m - 1]>>] ELSE f[i]]
    <2>2. g \in [0 .. m -> S]
      BY <2>1
    <2>3. /\ \A i \in 0 .. m - 1 : g[i] = f[i]
          /\ g[m] = step[<<m, f[m - 1]>>]
      OBVIOUS
    <2>. HIDE DEF g
    <2>4. ASSUME NEW i \in 1 .. m PROVE g[i] = step[<<i, g[i - 1]>>]
      <3>1. g[i - 1] = f[i - 1]
        BY <2>3
      <3>2. CASE i = m
        BY <2>3, <3>1, <3>2
      <3>3. CASE i # m
        BY <2>1, <2>3, <3>1, <3>3
      <3>. QED
        BY <3>2, <3>3
    <2>5. g[0] = a
      BY <2>1, <2>3
    <2>. QED
      BY <2>2, <2>4, <2>5
  <1>. HIDE DEF Runs
  <1>3. Stuck = {}
    <2>. SUFFICES ASSUME Stuck # {} PROVE FALSE
      OBVIOUS
    <2>0. Stuck \in SUBSET Nat
      OBVIOUS
    <2>1. PICK m \in Stuck : \A k \in Stuck : m <= k
      <3>. HIDE DEF Stuck
      <3>. QED
        BY <2>0, LeastNatural
    <2>2. m # 0
      BY <1>1, <2>1
    <2>3. m - 1 \in 0 .. n /\ m - 1 \notin Stuck
      BY <2>1, <2>2
    <2>. QED
      BY <1>2, <2>1, <2>2, <2>3
  <1>4. Runs(n)
    BY <1>3
  <1>. QED
    BY <1>4 DEF Runs

\* What holds before a loop and is kept by each of its n steps holds at its end.
LEMMA LoopKeeps ==
  ASSUME NEW n \in Nat, NEW Good \in SUBSET (0 .. n), 0 \in Good,
         \A i \in 1 .. n : i - 1 \in Good => i \in Good
  PROVE  \A i \in 0 .. n : i \in Good
  <1>. SUFFICES ASSUME (0 .. n) \ Good # {} PROVE FALSE
    OBVIOUS
  <1>. DEFINE Bad == (0 .. n) \ Good
  <1>0. Bad \in SUBSET Nat /\ Bad # {}
    OBVIOUS
  <1>1. PICK m \in Bad : \A k \in Bad : m <= k
    <2>. HIDE DEF Bad
    <2>. QED
      BY <1>0, LeastNatural
  <1>2. m \in 1 .. n /\ m - 1 \in 0 .. n
    BY <1>1
  <1>. QED
    BY <1>1, <1>2

\* Writing n more units after the first k writes the first k + n.
LEMMA WritesGoOn ==
  ASSUME NEW S, NEW seq \in Seq(S), NEW k \in 0 .. Len(seq),
         NEW n \in 1 .. Len(seq) - k
  PROVE  SubSeq(seq, 1, k) \o SubSeq(SubSeq(seq, k + 1, Len(seq)), 1, n)
           = SubSeq(seq, 1, k + n)
  <1>1. Len(seq) \in Nat
    BY LenProperties
  <1>2. SubSeq(SubSeq(seq, k + 1, Len(seq)), 1, n) = SubSeq(seq, k + 1, k + n)
    <2>1. /\ k + 1 \in 1 .. Len(seq) /\ Len(seq) \in 1 .. Len(seq)
          /\ 1 \in 1 .. Len(seq) - (k + 1) + 1 /\ n \in 1 .. Len(seq) - (k + 1) + 1
          /\ (k + 1) + 1 - 1 = k + 1 /\ (k + 1) + n - 1 = k + n
      BY <1>1
    <2>2. SubSeq(SubSeq(seq, k + 1, Len(seq)), 1, n)
            = SubSeq(seq, (k + 1) + 1 - 1, (k + 1) + n - 1)
      BY <2>1, SubSeqOfSubSeq
    <2>. QED
      BY <2>1, <2>2
  <1>3. SubSeq(seq, 1, k) \o SubSeq(seq, k + 1, k + n) = SubSeq(seq, 1, k + n)
    <2>1. /\ 1 \in 1 .. Len(seq) + 1 /\ k \in 1 - 1 .. Len(seq)
          /\ k + n \in k .. Len(seq)
      BY <1>1
    <2>. QED
      BY <2>1, ConcatAdjacentSubSeq
  <1>. QED
    BY <1>2, <1>3

\* Beginnings of a sequence are prefixes of the longer ones.
LEMMA PrefixesAreOrdered ==
  ASSUME NEW S, NEW seq \in Seq(S), NEW j \in 0 .. Len(seq), NEW k \in 0 .. j
  PROVE  /\ IsPrefix(SubSeq(seq, 1, k), SubSeq(seq, 1, j))
         /\ k # j => SubSeq(seq, 1, k) # SubSeq(seq, 1, j)
  <1>. DEFINE s == SubSeq(seq, 1, k)
              t == SubSeq(seq, 1, j)
  <1>1. Len(seq) \in Nat
    BY LenProperties
  <1>2. /\ s \in Seq(S) /\ Len(s) = k
        /\ t \in Seq(S) /\ Len(t) = j
    <2>1. \A i \in 1 .. j : seq[i] \in S
      BY <1>1, ElementOfSeq
    <2>. QED
      BY <1>1, <2>1, SubSeqProperties
  <1>3. SubSeq(s, 1, k) = s
    BY <1>2, SubSeqFull
  <1>4. SubSeq(t, 1, k) = s
    <2>1. CASE k = 0
      <3>1. SubSeq(t, 1, 0) = <<>> /\ SubSeq(seq, 1, 0) = <<>>
        BY SubSeqEmpty
      <3>. QED
        BY <2>1, <3>1
    <2>2. CASE k # 0
      <3>1. /\ 1 \in 1 .. Len(seq) /\ j \in 1 .. Len(seq)
            /\ 1 \in 1 .. j - 1 + 1 /\ k \in 1 .. j - 1 + 1
        BY <1>1, <2>2
      <3>2. SubSeq(SubSeq(seq, 1, j), 1, k) = SubSeq(seq, 1 + 1 - 1, 1 + k - 1)
        BY <3>1, SubSeqOfSubSeq
      <3>3. 1 + 1 - 1 = 1 /\ 1 + k - 1 = k
        BY <1>1
      <3>. QED
        BY <3>2, <3>3
    <2>. QED
      BY <2>1, <2>2
  <1>. HIDE DEF s, t
  <1>5. IsPrefix(s, t)
    BY <1>2, <1>3, <1>4 DEF IsPrefix
  <1>6. k # j => s # t
    BY <1>2
  <1>. QED
    BY <1>5, <1>6 DEF s, t

\* A sequence is a prefix of what it is continued to.
LEMMA ConcatContinues ==
  ASSUME NEW S, NEW s \in Seq(S), NEW t \in Seq(S)
  PROVE  /\ IsPrefix(s, s \o t)
         /\ t # <<>> => s # s \o t /\ s \o t # <<>>
  <1>1. /\ s \o t \in Seq(S) /\ Len(s \o t) = Len(s) + Len(t)
        /\ Len(s) \in Nat /\ Len(t) \in Nat
    BY ConcatProperties, LenProperties
  <1>2. SubSeq(s, 1, Len(s)) = SubSeq(s \o t, 1, Len(s))
    <2>1. CASE Len(s) = 0
      BY <2>1, SubSeqEmpty
    <2>2. CASE Len(s) # 0
      <3>1. 1 \in 1 .. Len(s) /\ Len(s) \in 1 .. Len(s)
        BY <1>1, <2>2
      <3>. QED
        BY <3>1, SubSeqOfConcat1
    <2>. QED
      BY <2>1, <2>2
  <1>3. IsPrefix(s, s \o t)
    BY <1>1, <1>2 DEF IsPrefix
  <1>4. t # <<>> => Len(t) > 0
    BY <1>1, EmptySeq
  <1>5. t # <<>> => Len(s \o t) # Len(s) /\ Len(s \o t) # 0
    BY <1>1, <1>4
  <1>6. Len(<<>>) = 0
    OBVIOUS
  <1>. QED
    BY <1>3, <1>5, <1>6

\* Of finitely many entries with a name, one is the last.
LEMMA LastEntry ==
  ASSUME NEW n \in Nat, NEW T \in SUBSET (1 .. n), T # {}
  PROVE  \E m \in T : \A k \in T : k <= m
  <1>. DEFINE R == {n - k : k \in T}
  <1>1. R \in SUBSET Nat /\ R # {}
    <2>1. \A k \in T : n - k \in Nat
      OBVIOUS
    <2>2. PICK k \in T : TRUE
      OBVIOUS
    <2>3. n - k \in R
      BY <2>2
    <2>. QED
      BY <2>1, <2>3
  <1>2. PICK r \in R : \A k \in R : r <= k
    <2>. HIDE DEF R
    <2>. QED
      BY <1>1, LeastNatural
  <1>3. PICK m \in T : r = n - m
    BY <1>2
  <1>4. ASSUME NEW k \in T PROVE k <= m
    <2>1. r <= n - k
      BY <1>2
    <2>. QED
      BY <1>3, <2>1
  <1>. QED
    BY <1>4

\* The characters of part t stand in the text behind position p.
Located(text, p, t) ==
  /\ p \in Nat /\ p + Len(t) <= Len(text)
  /\ \A j \in 1 .. Len(t) : text[p + j] = t[j]

\* The text t begins with s.
Begins(s, t) ==
  Len(s) <= Len(t) /\ \A j \in 1 .. Len(s) : t[j] = s[j]

\* What begins a beginning of a text begins the text, and what stands in it stands there.
LEMMA BeginsLater ==
  ASSUME NEW r, NEW s, NEW t, Len(r) \in Nat, Len(s) \in Nat, Len(t) \in Nat,
         Begins(r, s), Begins(s, t)
  PROVE  Begins(r, t)
  <1>1. \A j \in 1 .. Len(r) : j \in 1 .. Len(s) /\ t[j] = s[j] /\ s[j] = r[j]
    BY DEF Begins
  <1>2. Len(r) <= Len(t)
    BY DEF Begins
  <1>. QED
    BY <1>1, <1>2 DEF Begins

LEMMA LocatedLater ==
  ASSUME NEW s, NEW t, Len(s) \in Nat, Len(t) \in Nat, Begins(s, t),
         NEW p, NEW part, Len(part) \in Nat, Located(s, p, part)
  PROVE  Located(t, p, part)
  <1>1. p \in Nat /\ p + Len(part) <= Len(s) /\ Len(s) <= Len(t)
    BY DEF Begins, Located
  <1>2. \A j \in 1 .. Len(part) : p + j \in 1 .. Len(s)
    BY <1>1
  <1>3. \A j \in 1 .. Len(part) : t[p + j] = s[p + j] /\ s[p + j] = part[j]
    BY <1>2 DEF Begins, Located
  <1>. QED
    BY <1>1, <1>3 DEF Located

\* An appended element is the last one.
LEMMA AllButTheLast ==
  ASSUME NEW S, NEW s \in Seq(S), NEW e \in S
  PROVE  SubSeq(Append(s, e), 1, Len(Append(s, e)) - 1) = s
  <1>1. /\ Append(s, e) = s \o <<e>> /\ <<e>> \in Seq(S)
        /\ Len(Append(s, e)) - 1 = Len(s) /\ Len(s) \in Nat
    BY AppendIsConcat, AppendProperties, LenProperties
  <1>2. SubSeq(s, 1, Len(s)) = SubSeq(s \o <<e>>, 1, Len(s))
    BY <1>1, ConcatContinues DEF IsPrefix
  <1>. QED
    BY <1>1, <1>2, SubSeqFull

\* upTo[n] is the first n parts of a text joined, one behind the other.
Joins(S, parts, upTo) ==
  /\ upTo \in [0 .. Len(parts) -> Seq(S)]
  /\ upTo[0] = <<>>
  /\ \A n \in 1 .. Len(parts) : upTo[n] = upTo[n - 1] \o parts[n]

\* Both halves of a text stand in it.
LEMMA ConcatLocated ==
  ASSUME NEW S, NEW s \in Seq(S), NEW t \in Seq(S)
  PROVE  /\ s \o t \in Seq(S) /\ Len(s \o t) = Len(s) + Len(t)
         /\ Begins(s, s \o t) /\ Located(s \o t, 0, s) /\ Located(s \o t, Len(s), t)
  <1>1. Len(s) \in Nat /\ Len(t) \in Nat
    BY LenProperties
  <1>2. s \o t \in Seq(S) /\ Len(s \o t) = Len(s) + Len(t)
    BY ConcatProperties
  <1>3. \A j \in 1 .. Len(s) + Len(t) :
          (s \o t)[j] = IF j <= Len(s) THEN s[j] ELSE t[j - Len(s)]
    BY ConcatProperties
  <1>4. \A j \in 1 .. Len(s) : j \in 1 .. Len(s) + Len(t) /\ j <= Len(s) /\ 0 + j = j
    BY <1>1
  <1>5. \A j \in 1 .. Len(t) : /\ Len(s) + j \in 1 .. Len(s) + Len(t)
                               /\ ~(Len(s) + j <= Len(s)) /\ (Len(s) + j) - Len(s) = j
    BY <1>1
  <1>6. \A j \in 1 .. Len(s) : (s \o t)[j] = s[j] /\ (s \o t)[0 + j] = s[j]
    BY <1>3, <1>4
  <1>7. \A j \in 1 .. Len(t) : (s \o t)[Len(s) + j] = t[j]
    BY <1>3, <1>5
  <1>. QED
    BY <1>1, <1>2, <1>6, <1>7 DEF Begins, Located

\* What stands in a part stands in what the part stands in.
LEMMA LocatedWithin ==
  ASSUME NEW text, NEW p, NEW t, NEW q, NEW u, Len(text) \in Nat, Len(t) \in Nat,
         Len(u) \in Nat, Located(text, p, t), Located(t, q, u)
  PROVE  Located(text, p + q, u)
  <1>1. /\ p \in Nat /\ p + Len(t) <= Len(text) /\ q \in Nat /\ q + Len(u) <= Len(t)
        /\ \A j \in 1 .. Len(t) : text[p + j] = t[j]
        /\ \A j \in 1 .. Len(u) : t[q + j] = u[j]
    BY DEF Located
  <1>2. \A j \in 1 .. Len(u) : q + j \in 1 .. Len(t) /\ p + (q + j) = (p + q) + j
    BY <1>1
  <1>3. \A j \in 1 .. Len(u) : text[(p + q) + j] = u[j]
    BY <1>1, <1>2
  <1>. QED
    BY <1>1, <1>3 DEF Located

\* Each part stands in the text where it was joined to it.
LEMMA PartsJoined ==
  ASSUME NEW S, NEW parts \in Seq(Seq(S)), NEW upTo, Joins(S, parts, upTo),
         NEW n \in 1 .. Len(parts)
  PROVE  /\ upTo[n - 1] \in Seq(S) /\ upTo[n] \in Seq(S) /\ parts[n] \in Seq(S)
         /\ Len(upTo[n - 1]) \in Nat /\ Len(upTo[n]) \in Nat /\ Len(parts[n]) \in Nat
         /\ Len(upTo[n]) = Len(upTo[n - 1]) + Len(parts[n])
         /\ Begins(upTo[n - 1], upTo[n])
         /\ Located(upTo[n], Len(upTo[n - 1]), parts[n])
  <1>1. Len(parts) \in Nat /\ n - 1 \in 0 .. Len(parts) /\ n \in 0 .. Len(parts)
    BY LenProperties
  <1>2. upTo[n - 1] \in Seq(S) /\ parts[n] \in Seq(S) /\ upTo[n] = upTo[n - 1] \o parts[n]
    BY <1>1, ElementOfSeq DEF Joins
  <1>. DEFINE s == upTo[n - 1]
              t == parts[n]
  <1>. HIDE DEF s, t
  <1>3. s \in Seq(S) /\ t \in Seq(S) /\ upTo[n] = s \o t
    BY <1>2 DEF s, t
  <1>4. /\ Len(s) \in Nat /\ Len(t) \in Nat
        /\ s \o t \in Seq(S) /\ Len(s \o t) = Len(s) + Len(t)
        /\ Begins(s, s \o t) /\ Located(s \o t, Len(s), t)
    BY <1>3, ConcatLocated, LenProperties
  <1>. DEFINE st == s \o t
  <1>5. /\ st \in Seq(S) /\ Len(st) = Len(s) + Len(t)
        /\ Begins(s, st) /\ Located(st, Len(s), t) /\ upTo[n] = st
    BY <1>3, <1>4
  <1>. HIDE DEF st
  <1>6. /\ upTo[n] \in Seq(S) /\ Len(upTo[n]) = Len(s) + Len(t) /\ Len(upTo[n]) \in Nat
        /\ Begins(s, upTo[n]) /\ Located(upTo[n], Len(s), t)
    BY <1>4, <1>5
  <1>. QED
    BY <1>3, <1>4, <1>6 DEF s, t

\* The text joined so far begins the text joined later.
LEMMA PartsBegin ==
  ASSUME NEW S, NEW parts \in Seq(Seq(S)), NEW upTo, Joins(S, parts, upTo)
  PROVE  \A m \in 0 .. Len(parts) : \A k \in 0 .. m : Begins(upTo[k], upTo[m])
  <1>. DEFINE N == Len(parts)
              Good == {m \in 0 .. N : \A k \in 0 .. m : Begins(upTo[k], upTo[m])}
  <1>1. N \in Nat
    BY LenProperties
  <1>2. \A m \in 0 .. N : upTo[m] \in Seq(S) /\ Len(upTo[m]) \in Nat
    BY LenProperties DEF Joins
  <1>3. 0 \in Good /\ Good \in SUBSET (0 .. N)
    <2>1. Begins(upTo[0], upTo[0]) /\ 0 \in 0 .. N
      BY <1>1, <1>2 DEF Begins
    <2>. HIDE DEF N
    <2>. QED
      BY <2>1
  <1>4. ASSUME NEW m \in 1 .. N, m - 1 \in Good PROVE m \in Good
    <2>1. m \in 0 .. N /\ m - 1 \in 0 .. N
      BY <1>1
    <2>2. ASSUME NEW k \in 0 .. m PROVE Begins(upTo[k], upTo[m])
      <3>1. CASE k = m
        BY <1>2, <2>1, <3>1 DEF Begins
      <3>2. CASE k # m
        <4>1. k \in 0 .. m - 1 /\ k \in 0 .. N
          BY <2>1, <3>2
        <4>2. Begins(upTo[k], upTo[m - 1])
          BY <1>4, <4>1
        <4>3. Begins(upTo[m - 1], upTo[m])
          BY PartsJoined
        <4>4. Len(upTo[k]) \in Nat /\ Len(upTo[m - 1]) \in Nat /\ Len(upTo[m]) \in Nat
          BY <1>2, <2>1, <4>1
        <4>. QED
          BY <4>2, <4>3, <4>4, BeginsLater
      <3>. QED
        BY <3>1, <3>2
    <2>. HIDE DEF N
    <2>. QED
      BY <2>1, <2>2
  <1>. HIDE DEF Good
  <1>5. \A m \in 0 .. N : m \in Good
    <2>. HIDE DEF N
    <2>. QED
      BY <1>1, <1>3, <1>4, LoopKeeps
  <1>. HIDE DEF N
  <1>6. \A m \in 0 .. N : \A k \in 0 .. m : Begins(upTo[k], upTo[m])
    BY <1>5 DEF Good
  <1>. QED
    BY <1>6 DEF N

\* Each part stands where the parts before it end.
LEMMA PartsLocatedIn ==
  ASSUME NEW S, NEW parts \in Seq(Seq(S)), NEW upTo, Joins(S, parts, upTo),
         NEW n \in 1 .. Len(parts)
  PROVE  Located(upTo[Len(parts)], Len(upTo[n - 1]), parts[n])
  <1>. DEFINE N == Len(parts)
  <1>1. N \in Nat /\ N \in 0 .. N /\ n \in 0 .. N
    BY LenProperties
  <1>2. Begins(upTo[n], upTo[N])
    BY <1>1, PartsBegin
  <1>3. Located(upTo[n], Len(upTo[n - 1]), parts[n]) /\ Len(parts[n]) \in Nat
    BY PartsJoined
  <1>4. Len(upTo[n]) \in Nat /\ Len(upTo[N]) \in Nat
    BY <1>1, LenProperties DEF Joins
  <1>. HIDE DEF N
  <1>5. Located(upTo[N], Len(upTo[n - 1]), parts[n])
    BY <1>2, <1>3, <1>4, LocatedLater
  <1>. QED
    BY <1>5 DEF N

\* A tuple of tokens.
LEMMA Tuples ==
  ASSUME NEW S
  PROVE  /\ \A a \in S : <<a>> \in Seq(S) /\ Len(<<a>>) = 1 /\ \A k \in 1 .. 1 : <<a>>[k] = a
         /\ \A a, b, c, d, e, f, g, h \in S :
              LET t == <<a, b, c, d, e, f, g, h>>
              IN t \in Seq(S) /\ Len(t) = 8 /\ \A k \in 1 .. 8 : t[k] \in S
         /\ \A a, b, c, d, e, f, g, h, i, j \in S :
              LET t == <<a, b, c, d, e, f, g, h, i, j>>
              IN t \in Seq(S) /\ Len(t) = 10 /\ \A k \in 1 .. 10 : t[k] \in S
  <1>1. \A a \in S : <<a>> \in Seq(S) /\ Len(<<a>>) = 1 /\ \A k \in 1 .. 1 : <<a>>[k] = a
    OBVIOUS
  <1>2. ASSUME NEW a \in S, NEW b \in S, NEW c \in S, NEW d \in S, NEW e \in S, NEW f \in S,
               NEW g \in S, NEW h \in S
        PROVE  LET t == <<a, b, c, d, e, f, g, h>>
               IN t \in Seq(S) /\ Len(t) = 8 /\ \A k \in 1 .. 8 : t[k] \in S
    OBVIOUS
  <1>3. ASSUME NEW a \in S, NEW b \in S, NEW c \in S, NEW d \in S, NEW e \in S, NEW f \in S,
               NEW g \in S, NEW h \in S, NEW i \in S, NEW j \in S
        PROVE  LET t == <<a, b, c, d, e, f, g, h, i, j>>
               IN t \in Seq(S) /\ Len(t) = 10 /\ \A k \in 1 .. 10 : t[k] \in S
    OBVIOUS
  <1>. QED
    BY <1>1, <1>2, <1>3

\* The parts of a text found at their places.
PartsIn(text, base, parts, upTo) ==
  \A n \in 1 .. Len(parts) : Located(text, base + Len(upTo[n - 1]), parts[n])

\* Where the joined text stands, so do its parts.
LEMMA JoinedIn ==
  ASSUME NEW S, NEW text \in Seq(S), NEW parts \in Seq(Seq(S)), NEW upTo, Joins(S, parts, upTo),
         NEW base \in Nat, Located(text, base, upTo[Len(parts)])
  PROVE  PartsIn(text, base, parts, upTo)
  <1>. SUFFICES ASSUME NEW n \in 1 .. Len(parts)
                PROVE  Located(text, base + Len(upTo[n - 1]), parts[n])
    BY DEF PartsIn
  <1>. DEFINE all == upTo[Len(parts)]
              at == Len(upTo[n - 1])
              part == parts[n]
  <1>1. Located(all, at, part)
    BY PartsLocatedIn
  <1>2. Len(part) \in Nat
    BY PartsJoined
  <1>3. Len(all) \in Nat
    <2>1. Len(parts) \in Nat /\ Len(parts) \in 0 .. Len(parts)
      BY LenProperties
    <2>2. all \in Seq(S)
      BY <2>1 DEF Joins
    <2>. QED
      BY <2>2, LenProperties
  <1>4. Len(text) \in Nat /\ Located(text, base, all)
    BY LenProperties
  <1>. HIDE DEF all, at, part
  <1>5. Located(text, base + at, part)
    BY <1>1, <1>2, <1>3, <1>4, LocatedWithin
  <1>. QED
    BY <1>5 DEF at, part

\* A part adds its length to the joined text.
LEMMA PartsGrow ==
  ASSUME NEW S, NEW parts \in Seq(Seq(S)), NEW upTo, Joins(S, parts, upTo)
  PROVE  \A k \in 1 .. Len(parts) :
           /\ Len(upTo[k - 1]) \in Nat /\ Len(parts[k]) \in Nat
           /\ Len(upTo[k]) = Len(upTo[k - 1]) + Len(parts[k])
  BY PartsJoined

=============================================================================
