-------------------------- MODULE ReadPathsProofs --------------------------
(***************************************************************************)
(* For any tools, versions, rows, rules, requests and queries, and however *)
(* many transactions commit between the statements of an answer: lists and *)
(* searches name what was on offer, calls obey scope, rules, credentials   *)
(* and approvals, and pages and reports keep what they promise.            *)
(***************************************************************************)
EXTENDS ReadPaths, FiniteSetTheorems, SequenceTheorems,
        WellFoundedInduction, TLAPS

-----------------------------------------------------------------------------
(***************************************************************************)
(* Sequences                                                               *)
(***************************************************************************)
\* Any natural numbers there are have a least one.
LEMMA SmallestNumber ==
    ASSUME NEW S \in SUBSET Nat, S # {}
    PROVE  \E n \in S : \A m \in S : n <= m
<1> DEFINE R == {ss \in Nat \X Nat : ss[1] < ss[2]}
<1>1. IsWellFoundedOn(R, Nat)
  BY NatLessThanWellFounded, Zenon DEF OpToRel
<1>2. PICK n \in S : \A m \in S : ~(<<m, n>> \in R)
  <2> HIDE DEF R
  <2> QED
    BY <1>1, WFMin, Zenon
<1>3. ASSUME NEW m \in S, m < n
      PROVE  FALSE
  <2>1. m \in Nat /\ n \in Nat
    OBVIOUS
  <2>2. <<m, n>> \in R
    BY <2>1, <1>3
  <2>3. QED
    BY <1>2, <2>2
<1>4. QED
  BY <1>3

\* A sequence without repetition has as many elements as it is long.
LEMMA InjectiveCounts ==
    ASSUME NEW V, NEW s \in Seq(V), IsInjective(s)
    PROVE  IsFiniteSet(ToSet(s)) /\ Cardinality(ToSet(s)) = Len(s)
<1>1. Len(s) \in Nat /\ DOMAIN s = 1..Len(s)
  OBVIOUS
<1>2. IsFiniteSet(1..Len(s)) /\ Cardinality(1..Len(s)) = Len(s)
  BY <1>1, FS_Interval
<1>3. s \in [1..Len(s) -> ToSet(s)]
  BY <1>1 DEF ToSet
<1>4. s \in Surjection(1..Len(s), ToSet(s))
  BY <1>1, <1>3 DEF Surjection, ToSet
<1>5. s \in Injection(1..Len(s), ToSet(s))
  BY <1>3 DEF Injection
<1>6. QED
  BY <1>2, <1>4, <1>5, FS_Surjection

\* The orders of a finite set have all its elements, once.
LEMMA OrdersAreWhole ==
    ASSUME NEW S, IsFiniteSet(S), NEW s \in SetToSeqs(S)
    PROVE  /\ s \in Seq(S)
           /\ Len(s) = Cardinality(S)
           /\ IsInjective(s)
           /\ ToSet(s) = S
<1> DEFINE n == Cardinality(S)
<1>1. n \in Nat
  BY FS_CardinalityType
<1>2. /\ s \in [1..n -> S]
      /\ \A i, j \in 1..n : i # j => s[i] # s[j]
  BY DEF SetToSeqs
<1> HIDE DEF n
<1>3. s \in Seq(S) /\ Len(s) = n
  BY <1>1, <1>2
<1>4. IsInjective(s)
  BY <1>2 DEF IsInjective
<1>5. ToSet(s) \in SUBSET S
  BY <1>2 DEF ToSet
<1>6. Cardinality(ToSet(s)) = n
  BY <1>3, <1>4, InjectiveCounts
<1>7. ToSet(s) = S
  BY <1>5, <1>6, FS_Subset DEF n
<1>8. QED
  BY <1>3, <1>4, <1>7 DEF n

\* The first elements of a sequence.
LEMMA FirstOfSequence ==
    ASSUME NEW V, NEW s \in Seq(V), NEW n \in Nat
    PROVE  /\ First(s, n) \in Seq(V)
           /\ Len(First(s, n)) <= n
           /\ ToSet(First(s, n)) \subseteq ToSet(s)
           /\ IsInjective(s) => IsInjective(First(s, n))
           /\ Len(First(s, n)) < n => First(s, n) = s
<1> DEFINE k == IF Len(s) < n THEN Len(s) ELSE n
           f == SubSeq(s, 1, k)
<1>1. First(s, n) = f
  BY DEF First
<1>2. Len(s) \in Nat /\ k \in Nat /\ k <= Len(s) /\ k <= n
  OBVIOUS
<1> HIDE DEF k
<1>3. f \in Seq(V) /\ Len(f) = k /\ \A i \in 1..k : f[i] = s[i]
  BY <1>2, SubSeqProperties
<1> HIDE DEF f
<1>4. ToSet(f) \subseteq ToSet(s)
  BY <1>2, <1>3 DEF ToSet
<1>5. IsInjective(s) => IsInjective(f)
  <2>1. DOMAIN f = 1..k /\ DOMAIN s = 1..Len(s)
    BY <1>3
  <2>2. 1..k \subseteq 1..Len(s)
    BY <1>2
  <2>3. QED
    BY <2>1, <2>2, <1>3 DEF IsInjective
<1>6. Len(f) < n => f = s
  <2>1. SUFFICES ASSUME k < n PROVE f = s
    BY <1>3
  <2>2. k = Len(s)
    BY <2>1, <1>2 DEF k
  <2>3. QED
    BY <2>2, <1>3, SeqEqual
<1>7. QED
  BY <1>1, <1>2, <1>3, <1>4, <1>5, <1>6

\* What is kept of the beginnings of a sequence.
IsKept(s, S, k, g) ==
    g = [i \in 0..k |->
            IF i = 0 THEN <<>>
            ELSE IF s[i] \in S THEN Append(g[i - 1], s[i]) ELSE g[i - 1]]

\* There is something kept of every beginning.
LEMMA KeptExists ==
    ASSUME NEW s, NEW S, NEW N \in Nat
    PROVE  \E g : IsKept(s, S, N, g)
<1> DEFINE Bad == {k \in Nat : ~\E g : IsKept(s, S, k, g)}
           more(g, k) == IF s[k] \in S THEN Append(g[k - 1], s[k]) ELSE g[k - 1]
<1>1. SUFFICES ASSUME Bad # {} PROVE FALSE
  OBVIOUS
<1>2. PICK k \in Bad : \A m \in Bad : k <= m
  <2>1. Bad \in SUBSET Nat
    OBVIOUS
  <2> HIDE DEF Bad
  <2> QED
    BY <1>1, <2>1, SmallestNumber
<1>3. k \in Nat /\ ~\E g : IsKept(s, S, k, g)
  OBVIOUS
<1>4. CASE k = 0
  <2> DEFINE g == [i \in 0..0 |-> <<>>]
  <2>1. g = [i \in 0..0 |-> IF i = 0 THEN <<>> ELSE more(g, i)]
    OBVIOUS
  <2>2. IsKept(s, S, k, g)
    BY <2>1, <1>4 DEF IsKept
  <2>3. QED
    BY <2>2, <1>3
<1>5. CASE k # 0
  <2>1. k - 1 \in Nat /\ ~(k <= k - 1)
    BY <1>5, <1>3
  <2>2. k - 1 \notin Bad
    BY <2>1, <1>2
  <2>3. PICK g : IsKept(s, S, k - 1, g)
    BY <2>1, <2>2
  <2> DEFINE h == [i \in 0..k |-> IF i = k THEN more(g, k) ELSE g[i]]
  <2>4. ASSUME NEW i \in 0..k
        PROVE  h[i] = IF i = 0 THEN <<>> ELSE more(h, i)
    <3>1. CASE i = k
      <4>1. k - 1 \in 0..k /\ k - 1 # k
        BY <1>3, <2>1
      <4>2. h[k - 1] = g[k - 1]
        BY <4>1
      <4>3. h[k] = more(g, k)
        BY <1>3
      <4>4. QED
        BY <4>2, <4>3, <3>1, <1>5
    <3>2. CASE i # k
      <4>1. i \in 0..(k - 1) /\ (i # 0 => i - 1 \in 0..k /\ i - 1 # k)
        BY <3>2, <1>3
      <4>2. g[i] = IF i = 0 THEN <<>> ELSE more(g, i)
        BY <2>3, <4>1 DEF IsKept
      <4>3. i # 0 => h[i - 1] = g[i - 1]
        BY <4>1
      <4>4. h[i] = g[i]
        BY <3>2
      <4>5. QED
        BY <4>2, <4>3, <4>4
    <3>3. QED
      BY <3>1, <3>2
  <2>5. h = [i \in 0..k |-> IF i = 0 THEN <<>> ELSE more(h, i)]
    <3>1. h = [i \in 0..k |-> h[i]]
      OBVIOUS
    <3> HIDE DEF h, more
    <3> QED
      BY <2>4, <3>1
  <2>6. IsKept(s, S, k, h)
    <3> HIDE DEF h
    <3> QED
      BY <2>5 DEF IsKept
  <2>7. QED
    BY <2>6, <1>3
<1>6. QED
  BY <1>4, <1>5

\* What has been kept after some places: the elements of the set up to there.
KeptFine(V, s, S, k, t) ==
    /\ t \in Seq(V)
    /\ Len(t) <= k
    /\ \A j \in 1..Len(t) : \E i \in 1..k : s[i] \in S /\ t[j] = s[i]
    /\ \A i \in 1..k : s[i] \in S => \E j \in 1..Len(t) : t[j] = s[i]
    /\ IsInjective(s) => IsInjective(t)
    /\ (\A i \in 1..k : s[i] \in S) => Len(t) = k /\ \A i \in 1..k : t[i] = s[i]

\* Another place is looked at.
LEMMA KeptGoesOn ==
    ASSUME NEW V, NEW s \in Seq(V), NEW S, NEW k \in 1..Len(s), NEW t,
           KeptFine(V, s, S, k - 1, t)
    PROVE  KeptFine(V, s, S, k, IF s[k] \in S THEN Append(t, s[k]) ELSE t)
<1> DEFINE u == Append(t, s[k])
<1>1. /\ Len(s) \in Nat /\ k \in Nat /\ k - 1 \in Nat /\ s[k] \in V
      /\ 1..k = (1..(k - 1)) \union {k}
      /\ \A i \in 1..(k - 1) : i # k /\ i \in DOMAIN s
      /\ k \in DOMAIN s
      /\ t \in Seq(V) /\ Len(t) \in Nat /\ Len(t) <= k - 1
  BY DEF KeptFine
<1>2. CASE s[k] \in S
  <2>1. /\ u \in Seq(V) /\ Len(u) = Len(t) + 1
        /\ \A j \in 1..Len(t) : u[j] = t[j]
        /\ u[Len(t) + 1] = s[k]
        /\ 1..Len(u) = (1..Len(t)) \union {Len(t) + 1}
        /\ Len(t) + 1 \notin 1..Len(t)
    BY <1>1, AppendProperties
  <2> HIDE DEF u
  <2>2. ASSUME NEW j \in 1..Len(u)
        PROVE  \E i \in 1..k : s[i] \in S /\ u[j] = s[i]
    <3>1. CASE j = Len(t) + 1
      <4>1. k \in 1..k /\ u[j] = s[k]
        BY <3>1, <2>1, <1>1
      <4>2. QED
        BY <4>1, <1>2
    <3>2. CASE j \in 1..Len(t)
      <4>1. PICK i \in 1..(k - 1) : s[i] \in S /\ t[j] = s[i]
        BY <3>2 DEF KeptFine
      <4>2. i \in 1..k /\ u[j] = t[j]
        BY <4>1, <3>2, <1>1, <2>1
      <4>3. QED
        BY <4>1, <4>2
    <3>3. QED
      BY <2>1, <3>1, <3>2
  <2>3. ASSUME NEW i \in 1..k, s[i] \in S
        PROVE  \E j \in 1..Len(u) : u[j] = s[i]
    <3>1. CASE i = k
      <4>1. Len(t) + 1 \in 1..Len(u)
        BY <2>1
      <4>2. QED
        BY <4>1, <3>1, <2>1
    <3>2. CASE i # k
      <4>1. i \in 1..(k - 1)
        BY <3>2, <1>1
      <4>2. PICK j \in 1..Len(t) : t[j] = s[i]
        BY <4>1, <2>3 DEF KeptFine
      <4>3. j \in 1..Len(u) /\ u[j] = t[j]
        BY <4>2, <2>1
      <4>4. QED
        BY <4>2, <4>3
    <3>3. QED
      BY <3>1, <3>2
  <2>4. ASSUME IsInjective(s), NEW a \in DOMAIN u, NEW b \in DOMAIN u, u[a] = u[b]
        PROVE  a = b
    <3>1. a \in (1..Len(t)) \union {Len(t) + 1} /\ b \in (1..Len(t)) \union {Len(t) + 1}
      BY <2>1
    <3>2. \A j \in 1..Len(t) : t[j] # s[k]
      BY <1>1, <2>4 DEF KeptFine, IsInjective
    <3>3. DOMAIN t = 1..Len(t)
      BY <1>1
    <3>4. IsInjective(t)
      BY <2>4 DEF KeptFine
    <3>5. CASE a = Len(t) + 1
      BY <3>5, <3>1, <3>2, <2>1, <2>4
    <3>6. CASE b = Len(t) + 1
      BY <3>6, <3>1, <3>2, <2>1, <2>4
    <3>7. CASE a \in 1..Len(t) /\ b \in 1..Len(t)
      BY <3>7, <3>3, <3>4, <2>1, <2>4 DEF IsInjective
    <3>8. QED
      BY <3>1, <3>5, <3>6, <3>7
  <2>5. ASSUME \A i \in 1..k : s[i] \in S
        PROVE  Len(u) = k /\ \A i \in 1..k : u[i] = s[i]
    <3>1. \A i \in 1..(k - 1) : s[i] \in S
      BY <2>5, <1>1
    <3>2. Len(t) = k - 1 /\ \A i \in 1..(k - 1) : t[i] = s[i]
      BY <3>1 DEF KeptFine
    <3>3. Len(t) + 1 = k
      BY <3>2, <1>1
    <3>4. QED
      BY <3>2, <3>3, <2>1, <1>1
  <2>6. Len(u) <= k
    BY <2>1, <1>1
  <2>7. IsInjective(s) => IsInjective(u)
    BY <2>4 DEF IsInjective
  <2>8. KeptFine(V, s, S, k, u)
    BY <2>1, <2>2, <2>3, <2>5, <2>6, <2>7 DEF KeptFine
  <2>9. QED
    BY <2>8, <1>2 DEF u
<1>3. CASE s[k] \notin S
  <2>1. \A j \in 1..Len(t) : \E i \in 1..k : s[i] \in S /\ t[j] = s[i]
    BY <1>1 DEF KeptFine
  <2>2. \A i \in 1..k : s[i] \in S => \E j \in 1..Len(t) : t[j] = s[i]
    BY <1>1, <1>3 DEF KeptFine
  <2>3. ~\A i \in 1..k : s[i] \in S
    BY <1>1, <1>3
  <2>4. Len(t) <= k
    BY <1>1
  <2>5. IsInjective(s) => IsInjective(t)
    BY DEF KeptFine
  <2>6. KeptFine(V, s, S, k, t)
    BY <1>1, <2>1, <2>2, <2>3, <2>4, <2>5 DEF KeptFine
  <2>7. QED
    BY <2>6, <1>3
<1>4. QED
  BY <1>2, <1>3

\* Only: the elements of a sequence that are in a set, in their order.
LEMMA OnlyKeeps ==
    ASSUME NEW V, NEW s \in Seq(V), NEW S
    PROVE  /\ Only(s, S) \in Seq(V)
           /\ Len(Only(s, S)) <= Len(s)
           /\ ToSet(Only(s, S)) = ToSet(s) \intersect S
           /\ IsInjective(s) => IsInjective(Only(s, S))
           /\ ToSet(s) \subseteq S => Only(s, S) = s
<1> DEFINE kept == CHOOSE g : IsKept(s, S, Len(s), g)
           n == Len(s)
<1>1. n \in Nat /\ DOMAIN s = 1..n
  OBVIOUS
<1>2. IsKept(s, S, n, kept)
  BY <1>1, KeptExists
<1>3. Only(s, S) = kept[n]
  BY DEF Only, IsKept
<1> HIDE DEF kept, n
<1>4. \A i \in 0..n :
          kept[i] = IF i = 0 THEN <<>>
                    ELSE IF s[i] \in S THEN Append(kept[i - 1], s[i])
                    ELSE kept[i - 1]
  BY <1>2 DEF IsKept
<1> DEFINE Bad == {k \in 0..n : ~KeptFine(V, s, S, k, kept[k])}
<1>5. Bad = {}
  <2>1. SUFFICES ASSUME Bad # {} PROVE FALSE
    OBVIOUS
  <2>2. PICK k \in Bad : \A m \in Bad : k <= m
    <3>1. Bad \in SUBSET Nat
      BY <1>1
    <3> HIDE DEF Bad
    <3> QED
      BY <2>1, <3>1, SmallestNumber
  <2>3. k \in 0..n /\ ~KeptFine(V, s, S, k, kept[k])
    OBVIOUS
  <2>4. CASE k = 0
    <3>1. kept[0] = <<>>
      BY <2>3, <2>4, <1>4
    <3>2. KeptFine(V, s, S, 0, <<>>)
      BY DEF KeptFine, IsInjective
    <3>3. QED
      BY <3>1, <3>2, <2>3, <2>4
  <2>5. CASE k # 0
    <3>1. k \in 1..n /\ k - 1 \in 0..n /\ ~(k <= k - 1)
      BY <2>3, <2>5, <1>1
    <3>2. KeptFine(V, s, S, k - 1, kept[k - 1])
      BY <3>1, <2>2
    <3>3. kept[k] = IF s[k] \in S THEN Append(kept[k - 1], s[k]) ELSE kept[k - 1]
      BY <3>1, <2>3, <2>5, <1>4
    <3>4. KeptFine(V, s, S, k, kept[k])
      BY <3>1, <3>2, <3>3, KeptGoesOn DEF n
    <3>5. QED
      BY <3>4, <2>3
  <2>6. QED
    BY <2>4, <2>5
<1>6. KeptFine(V, s, S, n, Only(s, S))
  BY <1>1, <1>3, <1>5
<1> DEFINE t == Only(s, S)
<1>7. t \in Seq(V) /\ DOMAIN t = 1..Len(t) /\ Len(t) <= n
  BY <1>6 DEF KeptFine
<1> HIDE DEF t
<1>8. ToSet(t) = ToSet(s) \intersect S
  <2>1. ASSUME NEW v \in ToSet(t)
        PROVE  v \in ToSet(s) \intersect S
    <3>1. PICK j \in 1..Len(t) : v = t[j]
      BY <1>7 DEF ToSet
    <3>2. PICK i \in 1..n : s[i] \in S /\ t[j] = s[i]
      BY <1>6 DEF KeptFine, t
    <3>3. QED
      BY <3>1, <3>2, <1>1 DEF ToSet
  <2>2. ASSUME NEW v \in ToSet(s) \intersect S
        PROVE  v \in ToSet(t)
    <3>1. PICK i \in 1..n : v = s[i]
      BY <1>1 DEF ToSet
    <3>2. PICK j \in 1..Len(t) : t[j] = s[i]
      BY <3>1, <1>6 DEF KeptFine, t
    <3>3. QED
      BY <3>1, <3>2, <1>7 DEF ToSet
  <2>3. QED
    BY <2>1, <2>2
<1>9. ToSet(s) \subseteq S => t = s
  <2>1. SUFFICES ASSUME ToSet(s) \subseteq S PROVE t = s
    OBVIOUS
  <2>2. \A i \in 1..n : s[i] \in S
    BY <2>1, <1>1 DEF ToSet
  <2>3. Len(t) = n /\ \A i \in 1..n : t[i] = s[i]
    BY <2>2, <1>6 DEF KeptFine, t
  <2>4. QED
    BY <2>3, <1>7, SeqEqual DEF n
<1>10. IsInjective(s) => IsInjective(t)
  BY <1>6 DEF KeptFine, t
<1>11. QED
  BY <1>7, <1>8, <1>9, <1>10 DEF t, n

-----------------------------------------------------------------------------
(***************************************************************************)
(* The store, and what a request may rely on                               *)
(***************************************************************************)
StoreInv == StoreFine /\ WatchFine

\* What an endpoint gives is tools.
LEMMA GrantedTools ==
    ASSUME StoreFine
    PROVE  /\ Published \in SUBSET Versions
           /\ \A s \in Scopes : Granted(s) \in SUBSET Tools
  BY DEF StoreFine, Published, Granted, Toolsets

\* What a transaction does to what a request relies on: less has held, more
\* has been seen.
Weakened ==
    /\ watch'.published \subseteq watch.published
    /\ watch.ever_published \subseteq watch'.ever_published
    /\ \A s \in Scopes : /\ watch'.granted[s] \subseteq watch.granted[s]
                         /\ watch.ever_granted[s] \subseteq watch'.ever_granted[s]
    /\ watch'.embedded \subseteq watch.embedded
    /\ watch'.rows = watch.rows
    /\ ~watch'.reset => ~watch.reset /\ DOMAIN rows \subseteq DOMAIN rows'

\* A transaction that is no reset keeps the bounds.
LEMMA CommittedKeeps ==
    ASSUME StoreInv, Committed, StoreFine', DOMAIN rows \subseteq DOMAIN rows'
    PROVE  StoreInv' /\ quiet' = 0 /\ Weakened
<1> DEFINE P == Published'
           G == [s \in Scopes |-> Granted(s)']
           E == embedded'
<1>1. /\ P \in SUBSET Versions /\ G \in [Scopes -> SUBSET Tools]
      /\ E \in SUBSET Versions
  <2>1. Published' \in SUBSET Versions /\ \A s \in Scopes : Granted(s)' \in SUBSET Tools
    BY DEF StoreFine, Published, Granted, Toolsets
  <2>2. QED
    BY <2>1 DEF StoreFine
<1>2. \A s \in Scopes : G[s] = Granted(s)'
  OBVIOUS
<1>3. watch' =
          [watch EXCEPT
             !.published = watch.published \intersect P,
             !.ever_published = watch.ever_published \union P,
             !.granted = [s \in Scopes |-> watch.granted[s] \intersect G[s]],
             !.ever_granted = [s \in Scopes |-> watch.ever_granted[s] \union G[s]],
             !.embedded = watch.embedded \intersect E]
  BY <1>2 DEF Committed
<1>4. quiet' = 0 /\ watch \in Watches
  BY DEF Committed, StoreInv, WatchFine
<1> HIDE DEF P, G, E
<1>5. /\ watch' \in Watches
      /\ watch'.published = watch.published \intersect P
      /\ watch'.ever_published = watch.ever_published \union P
      /\ \A s \in Scopes : watch'.granted[s] = watch.granted[s] \intersect G[s]
      /\ \A s \in Scopes : watch'.ever_granted[s] = watch.ever_granted[s] \union G[s]
      /\ watch'.embedded = watch.embedded \intersect E
      /\ watch'.rows = watch.rows
      /\ watch'.reset = watch.reset
  <2>1. /\ watch'.published = watch.published \intersect P
        /\ watch'.ever_published = watch.ever_published \union P
        /\ watch'.granted = [s \in Scopes |-> watch.granted[s] \intersect G[s]]
        /\ watch'.ever_granted = [s \in Scopes |-> watch.ever_granted[s] \union G[s]]
        /\ watch'.embedded = watch.embedded \intersect E
        /\ watch'.rows = watch.rows
        /\ watch'.reset = watch.reset
    BY <1>3, <1>4 DEF Watches
  <2>2. /\ watch.published \subseteq Versions /\ watch.ever_published \subseteq Versions
        /\ watch.granted \in [Scopes -> SUBSET Tools]
        /\ watch.ever_granted \in [Scopes -> SUBSET Tools]
        /\ watch.embedded \subseteq Versions /\ watch.rows \in RowTables
    BY <1>4 DEF Watches
  <2>3. /\ watch'.published \in SUBSET Versions /\ watch'.ever_published \in SUBSET Versions
        /\ watch'.granted \in [Scopes -> SUBSET Tools]
        /\ watch'.ever_granted \in [Scopes -> SUBSET Tools]
        /\ watch'.embedded \in SUBSET Versions /\ watch'.rows \in RowTables
    BY <2>1, <2>2, <1>1
  <2>4. watch' \in Watches
    BY <2>3, <1>3, <1>4 DEF Watches
  <2>5. QED
    BY <2>1, <2>4
<1>6. Weakened
  BY <1>5 DEF Weakened
<1>7. ~watch.reset => DOMAIN watch.rows \subseteq DOMAIN rows
  BY DEF StoreInv, WatchFine
<1>8. WatchFine'
  BY <1>2, <1>4, <1>5, <1>7 DEF WatchFine, P, E
<1>9. QED
  BY <1>4, <1>6, <1>8 DEF StoreInv

\* What a transaction does to the approval: a decision, or the reset.
ApprovalMoves ==
    \/ approval' = approval
    \/ approval' = NoApproval /\ AllAbsent'
    \/ /\ approval.status = "pending"
       /\ \E d \in {"approved", "rejected"} :
             approval' = [approval EXCEPT !.status = d]

StoreStep ==
    /\ StoreInv'
    /\ quiet' = 0
    /\ Weakened
    /\ AllAbsent => AllAbsent'
    /\ ApprovalMoves

\* A publication leaves one version of its tool published.
LEMMA PublishKeeps ==
    ASSUME StoreInv, NEW v \in Versions, Publish(v)
    PROVE  StoreStep
<1>1. /\ status \in [Versions -> {"absent", "draft", "published", "retired"}]
      /\ status[v] = "draft"
      /\ status' = [w \in Versions |->
                       IF w = v THEN "published"
                       ELSE IF ToolOf[w] = ToolOf[v] /\ status[w] = "published"
                       THEN "retired" ELSE status[w]]
      /\ OnePerTool(Published)
  BY DEF StoreInv, StoreFine, Publish
<1>2. status' \in [Versions -> {"absent", "draft", "published", "retired"}]
  BY <1>1
<1>3. OnePerTool(Published)'
  BY <1>1 DEF OnePerTool, Published
<1>4. StoreFine'
  BY <1>2, <1>3, TablesAssumption DEF StoreInv, StoreFine, Publish, Committed
<1>5. StoreInv' /\ quiet' = 0 /\ Weakened
  BY <1>4, CommittedKeeps DEF Publish
<1>6. ~AllAbsent
  BY <1>1 DEF AllAbsent
<1>7. QED
  BY <1>5, <1>6 DEF StoreStep, ApprovalMoves, Publish

\* The index has another version.
LEMMA IndexKeeps ==
    ASSUME StoreInv, NEW v \in Versions, Index(v)
    PROVE  StoreStep
<1>1. StoreFine'
  BY TablesAssumption
  DEF StoreInv, StoreFine, Index, Committed, Published, OnePerTool
<1>2. StoreInv' /\ quiet' = 0 /\ Weakened
  BY <1>1, CommittedKeeps DEF Index
<1>3. QED
  BY <1>2 DEF StoreStep, ApprovalMoves, Index, AllAbsent

\* An upstream is disabled.
LEMMA DisableUpstreamKeeps ==
    ASSUME StoreInv, NEW t \in Tools, DisableUpstream(t)
    PROVE  StoreStep
<1>1. StoreFine'
  BY TablesAssumption
  DEF StoreInv, StoreFine, DisableUpstream, Committed, Published, OnePerTool
<1>2. StoreInv' /\ quiet' = 0 /\ Weakened
  BY <1>1, CommittedKeeps DEF DisableUpstream
<1>3. QED
  BY <1>2 DEF StoreStep, ApprovalMoves, DisableUpstream, AllAbsent

\* The toolset is written.
LEMMA WriteToolsetKeeps ==
    ASSUME StoreInv, NEW row \in Toolsets, WriteToolset(row)
    PROVE  StoreStep
<1>1. StoreFine'
  BY TablesAssumption
  DEF StoreInv, StoreFine, WriteToolset, Committed, Published, OnePerTool
<1>2. StoreInv' /\ quiet' = 0 /\ Weakened
  BY <1>1, CommittedKeeps DEF WriteToolset
<1>3. QED
  BY <1>2 DEF StoreStep, ApprovalMoves, WriteToolset, AllAbsent

\* What is written of a toolset is a toolset.
LEMMA ToolsetRecords ==
    ASSUME NEW row \in Toolsets
    PROVE  /\ \A members \in SUBSET Tools :
                  [row EXCEPT !.members = members] \in Toolsets
           /\ [row EXCEPT !.granted = ~@] \in Toolsets
           /\ \A s \in ToolsetStatuses : [row EXCEPT !.status = s] \in Toolsets
<1>1. \A members \in SUBSET Tools : [row EXCEPT !.members = members] \in Toolsets
  BY DEF Toolsets
<1>2. \A s \in ToolsetStatuses : [row EXCEPT !.status = s] \in Toolsets
  BY DEF Toolsets
<1>3. \A g \in BOOLEAN : [row EXCEPT !.granted = g] \in Toolsets
  BY DEF Toolsets
<1>4. (~row.granted) \in BOOLEAN
  OBVIOUS
<1>5. [row EXCEPT !.granted = ~@] = [row EXCEPT !.granted = ~row.granted]
  BY Zenon
<1>6. [row EXCEPT !.granted = ~row.granted] \in Toolsets
  BY <1>3, <1>4, Zenon
<1>7. QED
  BY <1>1, <1>2, <1>5, <1>6

\* A row is inserted.
LEMMA InsertRowKeeps ==
    ASSUME StoreInv, NEW r \in Rows, InsertRow(r)
    PROVE  StoreStep
<1>1. rows \in RowTables
  BY DEF StoreInv, StoreFine
<1>2. PICK D \in SUBSET Rows : rows \in [D -> {"open", "closed"}]
  BY <1>1 DEF RowTables
<1>3. rows' \in [D \union {r} -> {"open", "closed"}]
  BY <1>2 DEF InsertRow
<1>4. rows' \in RowTables
  BY <1>3 DEF RowTables
<1>5. StoreFine'
  BY <1>4, TablesAssumption
  DEF StoreInv, StoreFine, InsertRow, Committed, Published, OnePerTool
<1>6. StoreInv' /\ quiet' = 0 /\ Weakened
  BY <1>5, <1>2, <1>3, CommittedKeeps DEF InsertRow
<1>7. QED
  BY <1>6 DEF StoreStep, ApprovalMoves, InsertRow, AllAbsent

\* A row changes its status.
LEMMA UpdateRowKeeps ==
    ASSUME StoreInv, NEW r \in Rows, UpdateRow(r)
    PROVE  StoreStep
<1>1. rows \in RowTables
  BY DEF StoreInv, StoreFine
<1>2. PICK D \in SUBSET Rows : rows \in [D -> {"open", "closed"}]
  BY <1>1 DEF RowTables
<1>3. rows' \in [D -> {"open", "closed"}]
  BY <1>2 DEF UpdateRow
<1>4. rows' \in RowTables
  BY <1>3 DEF RowTables
<1>5. StoreFine'
  BY <1>4, TablesAssumption
  DEF StoreInv, StoreFine, UpdateRow, Committed, Published, OnePerTool
<1>6. StoreInv' /\ quiet' = 0 /\ Weakened
  BY <1>5, <1>2, <1>3, CommittedKeeps DEF UpdateRow
<1>7. QED
  BY <1>6 DEF StoreStep, ApprovalMoves, UpdateRow, AllAbsent

\* An administrator decides.
LEMMA DecideApprovalKeeps ==
    ASSUME StoreInv, NEW accepted \in BOOLEAN, DecideApproval(accepted)
    PROVE  StoreStep
<1>1. StoreFine'
  BY TablesAssumption
  DEF StoreInv, StoreFine, DecideApproval, Committed, Published, OnePerTool
<1>2. StoreInv' /\ quiet' = 0 /\ Weakened
  BY <1>1, CommittedKeeps DEF DecideApproval
<1>3. Decided(accepted) \in {"approved", "rejected"}
  BY DEF Decided
<1>4. ApprovalMoves
  BY <1>3 DEF ApprovalMoves, DecideApproval
<1>5. QED
  BY <1>2, <1>4 DEF StoreStep, DecideApproval, AllAbsent

\* The reset takes away everything that a request could rely on.
LEMMA ResetKeeps ==
    ASSUME StoreInv, Reset
    PROVE  StoreStep
<1>1. /\ toolset' = [toolset EXCEPT !.status = "absent"]
      /\ toolset \in Toolsets /\ "absent" \in ToolsetStatuses
  BY DEF Reset, StoreInv, StoreFine, ToolsetStatuses
<1>2. toolset' \in Toolsets /\ toolset'.status = "absent"
  BY <1>1, ToolsetRecords DEF Toolsets
<1>3. rows' \in [{} -> {"open", "closed"}] /\ rows' \in RowTables
  BY DEF Reset, RowTables
<1>4. Published' = {} /\ AllAbsent'
  BY DEF Reset, Published, AllAbsent
<1>5. StoreFine'
  <2>1. status' \in [Versions -> {"absent", "draft", "published", "retired"}]
    BY DEF Reset
  <2>2. OnePerTool(Published)'
    BY <1>4 DEF OnePerTool
  <2>3. embedded' \subseteq Versions /\ usable' \subseteq Tools /\ rootAll' = FALSE
    BY DEF Reset
  <2>4. writes' \in 0..MaxWrites /\ quiet' \in 0..2
    BY TablesAssumption DEF Reset, StoreInv, StoreFine
  <2>5. QED
    BY <1>2, <1>3, <2>1, <2>2, <2>3, <2>4 DEF StoreFine
<1>6. \A s \in Scopes : Granted(s)' = {}
  BY <1>2 DEF Granted, Reset
<1>7. watch \in Watches
  BY DEF StoreInv, WatchFine
<1>8. /\ watch'.published = {}
      /\ watch'.ever_published = watch.ever_published
      /\ watch'.granted = [s \in Scopes |-> {}]
      /\ watch'.ever_granted = watch.ever_granted
      /\ watch'.embedded = {}
      /\ watch'.rows = watch.rows
      /\ watch'.reset
  BY <1>7 DEF Reset, Watches
<1>9. watch' \in Watches
  BY <1>7, <1>8 DEF Reset, Watches
<1>10. WatchFine'
  BY <1>4, <1>6, <1>8, <1>9 DEF WatchFine, Reset
<1>11. Weakened
  BY <1>8 DEF Weakened
<1>12. QED
  BY <1>4, <1>5, <1>10, <1>11 DEF StoreStep, StoreInv, ApprovalMoves, Reset

\* Every transaction keeps what a request relies on.
LEMMA StoreKeeps ==
    ASSUME StoreInv, Store
    PROVE  StoreStep
<1>1. toolset \in Toolsets
  BY DEF StoreInv, StoreFine
<1>2. \A members \in MemberSets : [toolset EXCEPT !.members = members] \in Toolsets
  BY <1>1, ToolsetRecords, MemberSetsAssumption
<1>3. [toolset EXCEPT !.granted = ~@] \in Toolsets
  BY <1>1, ToolsetRecords
<1>4. [toolset EXCEPT !.status = "disabled"] \in Toolsets
  BY <1>1, ToolsetRecords DEF ToolsetStatuses
<1>5. ASSUME NEW members \in MemberSets, ReplaceMembers(members)
      PROVE  StoreStep
  BY <1>5, <1>2, WriteToolsetKeeps DEF ReplaceMembers
<1>6. ASSUME ReplaceGrants
      PROVE  StoreStep
  BY <1>6, <1>3, WriteToolsetKeeps, Zenon DEF ReplaceGrants
<1>7. ASSUME DisableToolset
      PROVE  StoreStep
  BY <1>7, <1>4, WriteToolsetKeeps DEF DisableToolset
<1>8. QED
  BY <1>5, <1>6, <1>7, PublishKeeps, IndexKeeps, DisableUpstreamKeeps,
     InsertRowKeeps, UpdateRowKeeps, DecideApprovalKeeps, ResetKeeps, Zenon
  DEF Store

\* What the store keeps when a handler goes on.
TablesStay == UNCHANGED <<status, embedded, usable, toolset, rootAll, rows,
                          writes, quiet, watch>>

\* A handler's own progress does not touch what it relies on.
LEMMA StoreStays ==
    ASSUME StoreInv, TablesStay
    PROVE  StoreInv'
  BY DEF StoreInv, TablesStay, StoreFine, WatchFine, Published, Granted, Watch,
         OnePerTool

\* The watch of a request that begins.
LEMMA WatchBegins ==
    ASSUME StoreFine
    PROVE  /\ Watch \in Watches
           /\ Watch.published = Published /\ Watch.ever_published = Published
           /\ \A s \in Scopes : /\ Watch.granted[s] = Granted(s)
                                /\ Watch.ever_granted[s] = Granted(s)
           /\ Watch.embedded = embedded
           /\ Watch.rows = rows
           /\ ~Watch.reset
<1>1. /\ Published \in SUBSET Versions
      /\ [s \in Scopes |-> Granted(s)] \in [Scopes -> SUBSET Tools]
      /\ embedded \in SUBSET Versions /\ rows \in RowTables
  BY GrantedTools DEF StoreFine
<1> DEFINE Made(b) ==
        [published |-> Published, ever_published |-> Published,
         granted |-> [s \in Scopes |-> Granted(s)],
         ever_granted |-> [s \in Scopes |-> Granted(s)],
         embedded |-> embedded, rows |-> rows, reset |-> b]
<1>2. \A b \in BOOLEAN : Made(b) \in Watches
  BY <1>1 DEF Watches
<1>3. Watch = Made(FALSE)
  BY DEF Watch
<1>4. Watch \in Watches
  <2> HIDE DEF Made
  <2> QED
    BY <1>2, <1>3, Zenon
<1>5. QED
  BY <1>4 DEF Watch

\* A request that begins relies on what holds.
LEMMA BeginKeeps ==
    ASSUME StoreInv, BeginReading
    PROVE  StoreInv'
<1>1. /\ UNCHANGED <<status, embedded, usable, toolset, rootAll, rows, writes>>
      /\ watch' = Watch
      /\ quiet' \in 1..2
  BY DEF BeginReading, tableVars, StoreInv, StoreFine
<1>2. StoreFine'
  BY <1>1 DEF StoreInv, StoreFine, Published, OnePerTool
<1>3. /\ Watch' = Watch /\ Published' = Published
      /\ \A s \in Scopes : Granted(s)' = Granted(s)
  BY <1>1 DEF Watch, Published, Granted
<1>4. StoreFine
  BY DEF StoreInv
<1>5. WatchFine'
  BY <1>1, <1>3, <1>4, WatchBegins DEF WatchFine
<1>6. QED
  BY <1>2, <1>5 DEF StoreInv

\* The store to begin with.
LEMMA StoreBegins ==
    ASSUME Init
    PROVE  StoreInv
<1>1. PICK s \in Stores :
          /\ status = s.status /\ embedded = s.embedded /\ usable = Tools
          /\ toolset = s.toolset /\ rootAll = s.rootAll /\ rows = s.rows
  BY DEF Init
<1>2. rows \in RowTables
  BY <1>1, StoresAssumption DEF RowTables
<1>3. OnePerTool(Published)
  BY <1>1, StoresAssumption DEF OnePerTool, Published
<1>4. writes = 0 /\ quiet = 0 /\ watch = Watch
  BY DEF Init
<1>5. StoreFine
  BY <1>1, <1>2, <1>3, <1>4, StoresAssumption, TablesAssumption DEF StoreFine
<1>6. WatchFine
  BY <1>4, <1>5, WatchBegins DEF WatchFine
<1>7. QED
  BY <1>5, <1>6 DEF StoreInv

\* The steps of a request after the first leave the tables alone, but for the
\* approval.
LEMMA DiscoveryStaysOffTables == DiscoveryStep => TablesStay /\ composed' = composed
<1>1. Handling => TablesStay /\ composed' = composed
  BY DEF Handling, storeVars, tableVars, TablesStay
<1>2. ReadToolsets \/ ReadPublished \/ StartSearch \/ ReadLexical \/ EmbedQuery
      \/ ReadCoverage \/ ReadCandidates \/ FinishSearch \/ Resolve \/ RefusePlan
      \/ StatementFails => Handling
  BY DEF ReadToolsets, ReadPublished, StartSearch, ReadLexical, EmbedQuery,
         ReadCoverage, ReadCandidates, FinishSearch, Resolve, RefusePlan,
         StatementFails
<1>3. DecideElicited \/ RequestApproval \/ Plan
      => TablesStay /\ composed' = composed
  BY DEF DecideElicited, RequestApproval, Plan, TablesStay
<1>4. RecordDenial \/ Answered => TablesStay /\ composed' = composed
  BY DEF RecordDenial, Answered, storeVars, tableVars, TablesStay
<1>5. QED
  BY <1>1, <1>2, <1>3, <1>4 DEF DiscoveryStep

\* The steps of a query after the first leave the store alone.
LEMMA AdminStaysOffStore == AdminStep => Reading
  BY DEF AdminStep, CheckParent, CountRows, ReadRows, TurnPage, CountDashboard,
         ReadIndexable, CountEmbeddings, ReadEmbeddings, EndRead

\* What the first step of a query does to the store.
LEMMA QueryBegins ==
    ASSUME \/ \E q \in Queries : StartWalk(q)
           \/ \E d \in Details, r \in Rows : GetDetail(d, r)
           \/ \E kind \in {"dashboard", "projection", "inspection"} :
                 StartReport(kind)
    PROVE  BeginReading
  BY DEF StartWalk, GetDetail, StartReport

\* Every step keeps what a request relies on.
LEMMA NextStore ==
    ASSUME StoreInv, [Next]_vars
    PROVE  StoreInv'
<1>1. CASE Write
  BY <1>1, StoreKeeps DEF Write, StoreStep
<1>2. CASE Request
  <2>1. ASSUME NEW r \in Requests, Receive(r)
        PROVE  StoreInv'
    BY <2>1, BeginKeeps DEF Receive
  <2>2. ASSUME DiscoveryStep
        PROVE  StoreInv'
    BY <2>2, DiscoveryStaysOffTables, StoreStays
  <2>3. QED
    BY <1>2, <2>1, <2>2 DEF Request
<1>3. CASE Query
  <2>1. ASSUME AdminStep
        PROVE  StoreInv'
    <3>1. TablesStay
      BY <2>1, AdminStaysOffStore DEF Reading, storeVars, tableVars, TablesStay
    <3>2. QED
      BY <3>1, StoreStays
  <2>2. AdminStep \/ BeginReading
    BY <1>3, QueryBegins DEF Query
  <2>3. QED
    BY <2>1, <2>2, BeginKeeps
<1>4. CASE UNCHANGED vars
  <2>1. TablesStay
    BY <1>4 DEF vars, storeVars, tableVars, TablesStay
  <2>2. QED
    BY <2>1, StoreStays
<1>5. QED
  BY <1>1, <1>2, <1>3, <1>4 DEF Next

-----------------------------------------------------------------------------
(***************************************************************************)
(* Pages                                                                   *)
(***************************************************************************)
\* The rows that a filter leaves are finitely many.
LEMMA MatchingFinite ==
    ASSUME StoreFine, NEW filter
    PROVE  /\ Matching(filter) \subseteq DOMAIN rows
           /\ DOMAIN rows \subseteq Rows
           /\ \A r \in DOMAIN rows : rows[r] \in {"open", "closed"}
           /\ IsFiniteSet(Matching(filter))
           /\ Cardinality(Matching(filter)) \in Nat
<1>1. PICK D \in SUBSET Rows : rows \in [D -> {"open", "closed"}]
  BY DEF StoreFine, RowTables
<1>2. /\ DOMAIN rows \subseteq Rows
      /\ \A r \in DOMAIN rows : rows[r] \in {"open", "closed"}
  BY <1>1
<1>3. Matching(filter) \subseteq DOMAIN rows
  BY DEF Matching
<1>4. IsFiniteSet(Matching(filter))
  BY <1>2, <1>3, TablesAssumption, FS_Subset
<1>5. QED
  BY <1>2, <1>3, <1>4, FS_CardinalityType

\* The slice of a sequence that is a page.
PageOf(s, offset, limit) ==
    SubSeq(s, offset + 1,
           IF Len(s) < offset + limit THEN Len(s) ELSE offset + limit)

\* A page is full, or has the sequence's end.
LEMMA PageOfSequence ==
    ASSUME NEW V, NEW s \in Seq(V), NEW offset \in Nat, NEW limit \in Nat
    PROVE  /\ PageOf(s, offset, limit) \in Seq(V)
           /\ Len(PageOf(s, offset, limit)) <= limit
           /\ \/ Len(PageOf(s, offset, limit)) = limit
              \/ offset + Len(PageOf(s, offset, limit)) >= Len(s)
           /\ \A i \in 1..Len(s) :
                  offset + 1 <= i /\ i <= offset + limit =>
                      s[i] \in ToSet(PageOf(s, offset, limit))
           /\ ToSet(PageOf(s, offset, limit)) \subseteq ToSet(s)
<1> DEFINE items == PageOf(s, offset, limit)
           n == IF Len(s) < offset + limit THEN Len(s) ELSE offset + limit
           m == offset + 1
<1>1. /\ n \in Nat /\ m \in Nat /\ Len(s) \in Nat /\ n <= Len(s)
      /\ n <= offset + limit /\ n - m + 1 \in Int
      /\ n = Len(s) \/ n = offset + limit
  OBVIOUS
<1>2. items = SubSeq(s, m, n)
  BY DEF PageOf
<1>3. \A i \in m..n : s[i] \in V /\ i \in DOMAIN s
  BY <1>1
<1> HIDE DEF n, items
<1>4. /\ items \in Seq(V)
      /\ Len(items) = IF m <= n THEN n - m + 1 ELSE 0
      /\ \A i \in 1..(n - m + 1) : items[i] = s[m + i - 1]
  BY <1>1, <1>2, <1>3, SubSeqProperties
<1>5. Len(items) <= limit /\ (Len(items) = limit \/ offset + Len(items) >= Len(s))
  BY <1>1, <1>4
<1>6. ASSUME NEW i \in 1..Len(s), offset + 1 <= i, i <= offset + limit
      PROVE  s[i] \in ToSet(items)
  <2>1. m <= i /\ i <= n
    <3>1. i \in Nat /\ i <= Len(s)
      BY <1>1
    <3>2. QED
      BY <3>1, <1>6, <1>1
  <2>2. i - m + 1 \in 1..(n - m + 1) /\ m + (i - m + 1) - 1 = i
    BY <2>1, <1>1
  <2>3. items[i - m + 1] = s[i]
    BY <2>2, <1>4
  <2>4. i - m + 1 \in DOMAIN items
    BY <2>1, <2>2, <1>1, <1>4
  <2>5. QED
    BY <2>3, <2>4 DEF ToSet
<1>7. ASSUME NEW v \in ToSet(items)
      PROVE  v \in ToSet(s)
  <2>1. PICK k \in DOMAIN items : v = items[k]
    BY DEF ToSet
  <2>2. k \in 1..Len(items)
    BY <1>4
  <2>3. k \in 1..(n - m + 1) /\ m + k - 1 \in m..n
    <3>1. Len(items) \in Nat /\ k \in Nat /\ 1 <= k /\ k <= Len(items)
      BY <2>2, <1>4
    <3>2. m <= n /\ Len(items) = n - m + 1
      BY <3>1, <1>4
    <3> HIDE DEF m
    <3> QED
      BY <3>1, <3>2, <1>1
  <2>4. v = s[m + k - 1] /\ m + k - 1 \in DOMAIN s
    BY <2>1, <2>3, <1>3, <1>4
  <2>5. QED
    BY <2>4 DEF ToSet
<1>8. QED
  BY <1>4, <1>5, <1>6, <1>7 DEF items

\* Of two rows only one comes before the other.
LEMMA BeforeOneWay ==
    ASSUME NEW order, NEW q \in Rows, NEW r \in Rows, q # r, Before(order, q, r)
    PROVE  ~Before(order, r, q)
<1>1. q \in Nat /\ r \in Nat /\ Recency[q] \in Nat /\ Recency[r] \in Nat
  BY RowsAssumption
<1>2. QED
  BY <1>1 DEF Before

\* In a list that is ordered, as many rows come before a row as its place says.
LEMMA AheadCounted ==
    ASSUME NEW M \in SUBSET Rows, IsFiniteSet(M), NEW order,
           NEW s \in Ordered(M, order), NEW i \in 1..Len(s)
    PROVE  Cardinality({q \in M : q # s[i] /\ Before(order, q, s[i])}) = i - 1
<1>1. /\ s \in Seq(M) /\ ToSet(s) = M /\ IsInjective(s)
  BY OrdersAreWhole DEF Ordered
<1>2. \A a, b \in 1..Len(s) : a < b => Before(order, s[a], s[b])
  BY DEF Ordered
<1>3. Len(s) \in Nat /\ DOMAIN s = 1..Len(s) /\ i \in Nat /\ i - 1 \in Nat /\ i - 1 < Len(s)
  BY <1>1
<1> DEFINE f == SubSeq(s, 1, i - 1)
           A == {q \in M : q # s[i] /\ Before(order, q, s[i])}
<1>4. f \in Seq(M) /\ Len(f) = i - 1 /\ \A k \in 1..(i - 1) : f[k] = s[k]
  BY <1>1, <1>3, SubSeqProperties
<1>5. DOMAIN f = 1..(i - 1)
  BY <1>4, <1>3
<1> HIDE DEF f
<1>6. IsInjective(f)
  BY <1>1, <1>3, <1>4, <1>5 DEF IsInjective
<1>7. Cardinality(ToSet(f)) = i - 1
  BY <1>4, <1>6, InjectiveCounts
<1>8. ASSUME NEW q \in ToSet(f)
      PROVE  q \in A
  <2>1. PICK k \in 1..(i - 1) : q = f[k]
    BY <1>5 DEF ToSet
  <2>2. k \in 1..Len(s) /\ k < i /\ q = s[k]
    BY <2>1, <1>3, <1>4
  <2>3. Before(order, q, s[i])
    BY <2>2, <1>2
  <2>4. q # s[i]
    BY <2>2, <1>1, <1>3 DEF IsInjective
  <2>5. q \in M
    BY <2>2, <1>1
  <2>6. QED
    BY <2>3, <2>4, <2>5
<1>9. ASSUME NEW q \in A
      PROVE  q \in ToSet(f)
  <2>1. PICK k \in 1..Len(s) : q = s[k]
    BY <1>1, <1>3 DEF ToSet
  <2>2. q \in Rows /\ s[i] \in Rows
    BY <1>1, <1>3
  <2>3. k # i /\ Before(order, q, s[i])
    BY <2>1
  <2>4. ~Before(order, s[i], q)
    BY <2>2, <2>3, BeforeOneWay
  <2>5. ~(i < k)
    BY <2>4, <2>1, <1>2
  <2>6. k \in 1..(i - 1)
    BY <2>3, <2>5, <1>3
  <2>7. QED
    BY <2>6, <2>1, <1>4, <1>5 DEF ToSet
<1>10. A = ToSet(f)
  BY <1>8, <1>9
<1>11. QED
  BY <1>7, <1>10

-----------------------------------------------------------------------------
(***************************************************************************)
(* Walks                                                                   *)
(***************************************************************************)
AdminInv == AdminFine /\ WalkFine /\ ReportFine /\ QueriesAreSound

WalkRecords == [kind: {"walk"}, query: Queries, statement: {1, 2},
                at: {"parent", "page", "read", "done", "not_found"}]
ReportWalks == [kind: {"dashboard", "projection", "inspection"},
                query: {"dashboard", "projection", "inspection"},
                at: {"counts", "published", "embeddings", "done"}]
Pages == [offset: Nat, total: Nat, items: Seq(Items), torn: BOOLEAN]
Reports == [published: Nat, indexed: Nat, first: Nat,
            current: SUBSET Versions, missing: SUBSET Versions, approvals: Nat]

\* What is being read, by its kind.
LEMMA WalkKinds ==
    ASSUME NEW w \in Walks
    PROVE  /\ w.kind = "walk" => w \in WalkRecords
           /\ w.kind \in {"dashboard", "projection", "inspection"} => w \in ReportWalks
           /\ w.kind = "none" => w = NoWalk
  BY DEF Walks, WalkRecords, ReportWalks, NoWalk

\* The pages that a walk turns.
LEMMA PageRecords ==
    ASSUME NEW p \in Pages
    PROVE  /\ p.offset \in Nat /\ p.total \in Nat /\ p.items \in Seq(Items)
           /\ \A n \in Nat : /\ [p EXCEPT !.offset = n] \in Pages
                             /\ [p EXCEPT !.offset = n].offset = n
                             /\ [p EXCEPT !.offset = n].total = p.total
                             /\ [p EXCEPT !.offset = n].items = p.items
           /\ \A n \in Nat : /\ [p EXCEPT !.total = n, !.torn = FALSE] \in Pages
                             /\ [p EXCEPT !.total = n, !.torn = FALSE].offset = p.offset
                             /\ [p EXCEPT !.total = n, !.torn = FALSE].total = n
                             /\ [p EXCEPT !.total = n, !.torn = FALSE].items = p.items
           /\ \A s \in Seq(Items) : /\ [p EXCEPT !.items = s] \in Pages
                                    /\ [p EXCEPT !.items = s].offset = p.offset
                                    /\ [p EXCEPT !.items = s].total = p.total
                                    /\ [p EXCEPT !.items = s].items = s
                                    /\ [p EXCEPT !.items = s].torn = p.torn
           /\ [p EXCEPT !.torn = TRUE] \in Pages
           /\ [p EXCEPT !.torn = TRUE].torn
           /\ [p EXCEPT !.torn = TRUE].offset = p.offset
           /\ [p EXCEPT !.torn = TRUE].total = p.total
           /\ [p EXCEPT !.torn = TRUE].items = p.items
           /\ NoPage \in Pages
<1>1. \A b \in BOOLEAN : [p EXCEPT !.torn = b] \in Pages
  BY DEF Pages
<1>2. [p EXCEPT !.torn = TRUE] \in Pages
  BY <1>1, Zenon
<1>3. \A n \in Nat : \A b \in BOOLEAN : [p EXCEPT !.total = n, !.torn = b] \in Pages
  BY DEF Pages
<1>4. \A n \in Nat : [p EXCEPT !.total = n, !.torn = FALSE] \in Pages
  BY <1>3, Zenon
<1>5. \A b \in BOOLEAN :
          [offset |-> 0, total |-> 0, items |-> <<>>, torn |-> b] \in Pages
  BY DEF Pages
<1>6. NoPage \in Pages
  BY <1>5, Zenon DEF NoPage
<1>7. \A n \in Nat : [p EXCEPT !.offset = n] \in Pages
  BY DEF Pages
<1>8. \A s \in Seq(Items) : [p EXCEPT !.items = s] \in Pages
  BY DEF Pages
<1>9. QED
  BY <1>2, <1>4, <1>6, <1>7, <1>8 DEF Pages

\* Nothing is read.
LEMMA AdminIdle ==
    ASSUME AdminInv, UNCHANGED adminVars, walk = NoWalk
    PROVE  AdminInv'
<1>1. walk' = NoWalk /\ walk'.kind = "none" /\ walk'.at = "idle"
  BY DEF adminVars, NoWalk
<1>2. AdminFine'
  BY DEF AdminInv, AdminFine, adminVars
<1>3. WalkFine' /\ ReportFine' /\ QueriesAreSound'
  BY <1>1 DEF WalkFine, Reliable, ReportFine, QueriesAreSound,
              WalkMissesNothing, PageKeepsPromise, ReportsAddUp
<1>4. QED
  BY <1>2, <1>3 DEF AdminInv

\* What comes before a row is finitely many rows.
LEMMA AheadFinite ==
    ASSUME StoreFine, NEW r
    PROVE  IsFiniteSet(Ahead(r)) /\ Cardinality(Ahead(r)) \in Nat
<1>1. Ahead(r) \in SUBSET Matching(walk.query.filter)
  BY DEF Ahead
<1>2. QED
  BY <1>1, MatchingFinite, FS_Subset, FS_CardinalityType

\* What a walk began with is still in the list.
LEMMA MissingMatches ==
    ASSUME StoreInv, Reliable
    PROVE  Missing \subseteq Matching(walk.query.filter)
<1>1. DOMAIN watch.rows \subseteq DOMAIN rows
  BY DEF Reliable, StoreInv, WatchFine
<1>2. QED
  BY <1>1 DEF Missing, Matching, Reliable

\* A walk begins.
LEMMA StartWalkKeeps ==
    ASSUME StoreInv, AdminInv, StoreInv', NEW q \in Queries, StartWalk(q)
    PROVE  AdminInv'
<1>1. /\ walk' = [kind |-> "walk", query |-> q, statement |-> 1,
                  at |-> IF q.filter = "malformed" THEN "done" ELSE FirstStep(q)]
      /\ page' = NoPage /\ collected' = {} /\ report' = report
      /\ walks' = walks + 1 /\ walks \in Nat /\ page \in Pages
      /\ report \in Reports
  BY DEF StartWalk, AdminInv, AdminFine, Pages, Reports
<1>2. q.limit \in Nat /\ FirstStep(q) \in {"parent", "page"}
  BY QueriesAssumption DEF FirstStep
<1>3. /\ walk'.kind = "walk" /\ walk'.query = q /\ walk'.statement = 1
      /\ walk'.at = IF q.filter = "malformed" THEN "done" ELSE FirstStep(q)
  BY <1>1
<1>4. walk' \in WalkRecords
  BY <1>1, <1>2 DEF WalkRecords
<1>5. AdminFine'
  <2>1. walk' \in Walks
    BY <1>4 DEF Walks, WalkRecords
  <2>2. page' \in Pages /\ Len(page'.items) = 0
    BY <1>1, PageRecords DEF NoPage
  <2>3. QED
    BY <2>1, <2>2, <1>1, <1>2, <1>3 DEF AdminFine, Pages, Reports
<1>6. WalkFine'
  <2>1. ASSUME Reliable', NEW r \in Missing'
        PROVE  page'.offset <= Cardinality(Ahead(r)')
    <3>1. \E D \in SUBSET Rows : rows' \in [D -> {"open", "closed"}]
      BY DEF StoreInv, StoreFine, RowTables
    <3>2. Ahead(r)' \in SUBSET Rows
      BY <3>1 DEF Ahead, Matching
    <3>3. Cardinality(Ahead(r)') \in Nat
      BY <3>2, TablesAssumption, FS_Subset, FS_CardinalityType
    <3>4. page'.offset = 0
      BY <1>1 DEF NoPage
    <3>5. QED
      BY <3>3, <3>4
  <2>2. walk'.at # "read" /\ walk'.statement # 2
    BY <1>2, <1>3
  <2>3. QED
    BY <2>1, <2>2 DEF WalkFine
<1>7. ReportFine' /\ QueriesAreSound'
  <2>1. walk'.at = "done" => walk'.query.filter \notin {"none", "fixed"}
    BY <1>2, <1>3
  <2>2. walk'.at # "read"
    BY <1>2, <1>3
  <2>3. QED
    BY <2>1, <2>2, <1>3 DEF ReportFine, QueriesAreSound,
              WalkMissesNothing, PageKeepsPromise, ReportsAddUp
<1>8. QED
  BY <1>5, <1>6, <1>7 DEF AdminInv

\* A step of a walk leaves the list as it is.
LEMMA WalkGoesOn ==
    ASSUME UNCHANGED storeVars, walk.kind = "walk", walk'.kind = "walk",
           walk'.query = walk.query
    PROVE  /\ Reliable' <=> Reliable
           /\ Matching(walk.query.filter)' = Matching(walk.query.filter)
           /\ \A r : Ahead(r)' = Ahead(r)
           /\ collected' = collected => Missing' = Missing
           /\ collected \subseteq collected' => Missing' \subseteq Missing
  BY DEF storeVars, tableVars, Reliable, Matching, Ahead, Missing

\* What is left to show of a step of a walk.
LEMMA WalkStep ==
    ASSUME AdminInv, UNCHANGED <<walks, report>>, walk.kind = "walk",
           walk' \in WalkRecords, walk'.query = walk.query, page' \in Pages,
           collected' \subseteq Rows, walk'.at # "page" => walk'.statement = 1,
           Len(page'.items) <= walk'.query.limit,
           WalkFine', WalkMissesNothing', PageKeepsPromise'
    PROVE  AdminInv'
<1>1. walk'.kind = "walk"
  BY DEF WalkRecords
<1>2. AdminFine'
  <2>1. walk # NoWalk /\ walk' # NoWalk
    BY <1>1 DEF NoWalk
  <2>2. walk' \in Walks
    BY DEF WalkRecords, Walks
  <2>3. QED
    BY <2>1, <2>2 DEF AdminInv, AdminFine, Pages
<1>3. ReportFine' /\ ReportsAddUp'
  BY <1>1 DEF ReportFine, ReportsAddUp
<1>4. QED
  BY <1>2, <1>3 DEF AdminInv, QueriesAreSound

\* What is known of a walk.
LEMMA WalkFacts ==
    ASSUME AdminInv, walk.kind = "walk"
    PROVE  /\ walk \in WalkRecords /\ page \in Pages /\ collected \subseteq Rows
           /\ walk.query \in Queries /\ walk.query.limit \in Nat
           /\ walk.at # "page" => walk.statement = 1
           /\ Len(page.items) <= walk.query.limit
           /\ page.offset \in Nat /\ page.total \in Nat
           /\ WalkFine
<1>1. walk \in WalkRecords
  BY WalkKinds DEF AdminInv, AdminFine
<1>2. page \in Pages
  BY DEF AdminInv, AdminFine, Pages
<1>3. walk.query \in Queries
  BY <1>1 DEF WalkRecords
<1>4. page.offset \in Nat /\ page.total \in Nat
  BY <1>2 DEF Pages
<1>5. QED
  BY <1>1, <1>2, <1>3, <1>4, QueriesAssumption DEF AdminInv, AdminFine

\* The parent is looked up.
LEMMA CheckParentKeeps ==
    ASSUME StoreInv, AdminInv, CheckParent
    PROVE  AdminInv'
<1>1. /\ walk.kind = "walk" /\ walk.at = "parent"
      /\ UNCHANGED <<storeVars, walks, page, collected, report>>
      /\ \E at \in {"page", "not_found"} : walk' = [walk EXCEPT !.at = at]
  BY DEF CheckParent, Reading
<1>2. /\ walk \in WalkRecords /\ walk.statement = 1 /\ WalkFine
      /\ page \in Pages /\ collected \subseteq Rows
      /\ Len(page.items) <= walk.query.limit
  BY <1>1, WalkFacts
<1>3. /\ walk' \in WalkRecords /\ walk'.query = walk.query
      /\ walk'.kind = "walk" /\ walk'.statement = 1
      /\ walk'.at \in {"page", "not_found"}
  BY <1>1, <1>2 DEF WalkRecords
<1>4. /\ (Reliable' <=> Reliable) /\ Missing' = Missing
      /\ \A r : Ahead(r)' = Ahead(r)
  BY <1>1, <1>3, WalkGoesOn
<1>5. WalkFine'
  BY <1>1, <1>2, <1>3, <1>4 DEF WalkFine
<1>6. WalkMissesNothing' /\ PageKeepsPromise'
  BY <1>3 DEF WalkMissesNothing, PageKeepsPromise
<1>7. QED
  BY <1>1, <1>2, <1>3, <1>5, <1>6, WalkStep

\* The rows are counted.
LEMMA CountRowsKeeps ==
    ASSUME StoreInv, AdminInv, CountRows
    PROVE  AdminInv'
<1> DEFINE n == Cardinality(Matching(walk.query.filter))
<1>1. /\ walk.kind = "walk" /\ walk.at = "page"
      /\ Statements[walk.statement] = "count"
      /\ page' = [page EXCEPT !.total = n, !.torn = FALSE]
      /\ NextStatement
      /\ UNCHANGED <<storeVars, walks, collected, report>>
  BY DEF CountRows, Reading
<1>2. /\ walk \in WalkRecords /\ WalkFine
      /\ page \in Pages /\ collected \subseteq Rows
      /\ Len(page.items) <= walk.query.limit
  BY <1>1, WalkFacts
<1>3. n \in Nat
  BY MatchingFinite DEF StoreInv
<1>4. walk.statement = 1
  <2>1. walk.statement \in {1, 2}
    BY <1>2 DEF WalkRecords
  <2>2. QED
    BY <2>1, <1>1 DEF Statements
<1>5. walk' = [walk EXCEPT !.statement = 2]
  BY <1>1, <1>4 DEF NextStatement, Statements
<1>6. /\ walk' \in WalkRecords /\ walk'.query = walk.query
      /\ walk'.kind = "walk" /\ walk'.statement = 2 /\ walk'.at = "page"
  BY <1>1, <1>2, <1>5 DEF WalkRecords
<1>7. /\ (Reliable' <=> Reliable) /\ Missing' = Missing
      /\ \A r : Ahead(r)' = Ahead(r)
      /\ Matching(walk.query.filter)' = Matching(walk.query.filter)
  BY <1>1, <1>6, WalkGoesOn
<1> HIDE DEF n
<1>8. /\ page' \in Pages /\ page'.items = page.items
      /\ page'.total = n /\ page'.offset = page.offset
  BY <1>1, <1>2, <1>3, PageRecords, ZenonT(40)
<1>9. WalkFine'
  <2>1. Cardinality(Matching(walk.query.filter))' = n
    BY <1>7 DEF n
  <2>2. QED
    BY <1>1, <1>2, <1>3, <1>6, <1>7, <1>8, <2>1 DEF WalkFine
<1>10. WalkMissesNothing' /\ PageKeepsPromise'
  BY <1>6 DEF WalkMissesNothing, PageKeepsPromise
<1>11. QED
  BY <1>1, <1>2, <1>6, <1>8, <1>9, <1>10, WalkStep

\* The client turns the page, or is through.
LEMMA TurnPageKeeps ==
    ASSUME StoreInv, AdminInv, TurnPage
    PROVE  AdminInv'
<1> DEFINE offset == page.offset + walk.query.limit
<1>1. /\ walk.kind = "walk" /\ walk.at = "read"
      /\ UNCHANGED <<storeVars, walks, collected, report>>
  BY DEF TurnPage, Reading
<1>2. /\ walk \in WalkRecords /\ walk.statement = 1 /\ WalkFine
      /\ page \in Pages /\ collected \subseteq Rows
      /\ Len(page.items) <= walk.query.limit
      /\ page.offset \in Nat /\ page.total \in Nat /\ walk.query.limit \in Nat
  BY <1>1, WalkFacts
<1>3. offset \in Nat
  BY <1>2
<1>4. CASE offset < page.total
  <2>1. /\ page' = [page EXCEPT !.offset = offset]
        /\ walk' = [walk EXCEPT !.at = FirstStep(walk.query)]
        /\ FirstStep(walk.query) \in {"parent", "page"}
    BY <1>4 DEF TurnPage, FirstStep
  <2>2. /\ walk' \in WalkRecords /\ walk'.query = walk.query
        /\ walk'.kind = "walk" /\ walk'.statement = 1
        /\ walk'.at \in {"parent", "page"}
    BY <1>2, <2>1 DEF WalkRecords
  <2>3. /\ (Reliable' <=> Reliable) /\ Missing' = Missing
        /\ \A r : Ahead(r)' = Ahead(r)
    BY <1>1, <2>2, WalkGoesOn
  <2>4. /\ page' \in Pages /\ page'.items = page.items /\ page'.offset = offset
    BY <1>2, <1>3, <2>1, PageRecords
  <2>5. WalkFine'
    BY <1>1, <1>2, <2>2, <2>3, <2>4 DEF WalkFine
  <2>6. WalkMissesNothing' /\ PageKeepsPromise'
    BY <2>2 DEF WalkMissesNothing, PageKeepsPromise
  <2>7. QED
    BY <1>1, <1>2, <2>2, <2>4, <2>5, <2>6, WalkStep
<1>5. CASE ~(offset < page.total)
  <2>1. page' = page /\ walk' = [walk EXCEPT !.at = "done"]
    BY <1>5 DEF TurnPage
  <2>2. /\ walk' \in WalkRecords /\ walk'.query = walk.query
        /\ walk'.kind = "walk" /\ walk'.statement = 1 /\ walk'.at = "done"
    BY <1>2, <2>1 DEF WalkRecords
  <2>3. /\ (Reliable' <=> Reliable) /\ Missing' = Missing
    BY <1>1, <2>2, WalkGoesOn
  <2>4. WalkFine' /\ PageKeepsPromise'
    BY <2>2 DEF WalkFine, PageKeepsPromise
  <2>5. Reliable /\ ~page.torn => Missing = {}
    BY <1>1, <1>2, <1>5 DEF WalkFine
  <2>6. Reliable' /\ ~page'.torn => Missing' = {}
    BY <2>1, <2>3, <2>5
  <2>7. WalkMissesNothing'
    BY <2>6 DEF WalkMissesNothing, Reliable, Missing
  <2>8. QED
    BY <1>1, <1>2, <2>1, <2>2, <2>4, <2>7, WalkStep
<1>6. QED
  BY <1>4, <1>5

\* A row that a page does not show, and no page before, has more rows before it
\* than the pages had.
LEMMA PageShows ==
    ASSUME NEW M \in SUBSET Rows, IsFiniteSet(M), NEW order,
           NEW s \in Ordered(M, order), NEW offset \in Nat, NEW limit \in Nat,
           NEW r \in M, r \notin ToSet(PageOf(s, offset, limit)),
           offset <= Cardinality({q \in M : q # r /\ Before(order, q, r)})
    PROVE  /\ offset + limit <= Cardinality({q \in M : q # r /\ Before(order, q, r)})
           /\ offset + limit < Cardinality(M)
<1>1. /\ s \in Seq(M) /\ ToSet(s) = M /\ Len(s) = Cardinality(M)
  BY OrdersAreWhole DEF Ordered
<1>2. Len(s) \in Nat /\ DOMAIN s = 1..Len(s)
  BY <1>1
<1>3. PICK i \in 1..Len(s) : r = s[i]
  BY <1>1, <1>2 DEF ToSet
<1>4. Cardinality({q \in M : q # r /\ Before(order, q, r)}) = i - 1
  BY <1>3, AheadCounted
<1>5. i \in Nat /\ offset + 1 <= i
  BY <1>4, <1>2
<1>6. ~(i <= offset + limit)
  BY <1>1, <1>3, <1>5, PageOfSequence
<1>7. QED
  BY <1>1, <1>2, <1>4, <1>5, <1>6

\* The rows of the page are read.
LEMMA ReadRowsKeeps ==
    ASSUME StoreInv, AdminInv, ReadRows
    PROVE  AdminInv'
<1> DEFINE M == Matching(walk.query.filter)
           order == walk.query.list.order
           offset == page.offset
           limit == walk.query.limit
<1>1. /\ walk.kind = "walk" /\ walk.at = "page"
      /\ Statements[walk.statement] = "rows"
      /\ NextStatement
      /\ UNCHANGED <<storeVars, walks, report>>
  BY DEF ReadRows, Reading
<1>2. /\ walk \in WalkRecords /\ WalkFine
      /\ page \in Pages /\ collected \subseteq Rows
      /\ offset \in Nat /\ page.total \in Nat /\ limit \in Nat
  BY <1>1, WalkFacts
<1>3. M \in SUBSET Rows /\ IsFiniteSet(M) /\ M \subseteq DOMAIN rows
      /\ \A r \in DOMAIN rows : rows[r] \in {"open", "closed"}
  BY MatchingFinite DEF StoreInv
<1>4. PICK s \in Ordered(M, order) :
          LET items == PageOf(s, offset, limit)
          IN  /\ page' = [page EXCEPT !.items = [i \in 1..Len(items) |->
                                                   Item(items[i])]]
              /\ collected' = collected \union ToSet(items)
  BY DEF ReadRows, PageOf
<1> DEFINE items == PageOf(s, offset, limit)
           shown == [i \in 1..Len(items) |-> Item(items[i])]
<1>5. /\ page' = [page EXCEPT !.items = shown]
      /\ collected' = collected \union ToSet(items)
  BY <1>4
<1>6. s \in Seq(M) /\ ToSet(s) = M /\ Len(s) = Cardinality(M)
  BY <1>3, OrdersAreWhole DEF Ordered
<1>7. items = PageOf(s, offset, limit)
  OBVIOUS
<1> HIDE DEF items
<1>8. /\ items \in Seq(M) /\ Len(items) <= limit
      /\ Len(items) = limit \/ offset + Len(items) >= Len(s)
      /\ ToSet(items) \subseteq M
  <2> HIDE DEF M, order, offset, limit
  <2>1. QED
    BY <1>2, <1>6, <1>7, PageOfSequence
<1>9. shown \in Seq(Items) /\ Len(shown) = Len(items)
  <2>1. Len(items) \in Nat /\ \A i \in 1..Len(items) : items[i] \in M
    BY <1>8
  <2>2. \A i \in 1..Len(items) : Item(items[i]) \in Items
    BY <2>1, <1>3 DEF Item, Items
  <2>3. QED
    BY <2>1, <2>2
<1> HIDE DEF shown
<1>10. walk.statement = 2
  <2>1. walk.statement \in {1, 2}
    BY <1>2 DEF WalkRecords
  <2>2. QED
    BY <2>1, <1>1 DEF Statements
<1>11. walk' = [walk EXCEPT !.at = "read", !.statement = 1]
  BY <1>1, <1>10 DEF NextStatement, Statements
<1>12. /\ walk' \in WalkRecords /\ walk'.query = walk.query
       /\ walk'.kind = "walk" /\ walk'.statement = 1 /\ walk'.at = "read"
  BY <1>2, <1>11 DEF WalkRecords
<1>13. /\ page' \in Pages /\ page'.items = shown /\ page'.torn = page.torn
       /\ page'.total = page.total /\ page'.offset = offset
  BY <1>2, <1>5, <1>9, PageRecords, ZenonT(40)
<1>14. /\ (Reliable' <=> Reliable) /\ Missing' \subseteq Missing
       /\ \A r : Ahead(r)' = Ahead(r)
  BY <1>1, <1>5, <1>12, WalkGoesOn
<1>15. ASSUME Reliable, NEW r \in Missing'
       PROVE  /\ offset + limit <= Cardinality(Ahead(r))
              /\ ~page.torn => offset + limit < page.total
  <2>1. r \in Missing /\ r \in M
    <3>1. r \in Missing
      BY <1>14, <1>15
    <3>2. Missing \subseteq M
      BY <1>15, MissingMatches
    <3>3. QED
      BY <3>1, <3>2
  <2>2. r \notin ToSet(items)
    BY <1>5 DEF Missing
  <2>3. Ahead(r) = {q \in M : q # r /\ Before(order, q, r)}
    BY DEF Ahead
  <2>4. offset <= Cardinality(Ahead(r))
    BY <2>1, <1>1, <1>2, <1>15 DEF WalkFine
  <2> HIDE DEF M, order, offset, limit
  <2>5. /\ offset + limit <= Cardinality(Ahead(r))
        /\ offset + limit < Cardinality(M)
    BY <2>1, <2>2, <2>3, <2>4, <1>2, <1>3, <1>7, PageShows
  <2>6. ~page.torn => page.total = Cardinality(M)
    BY <1>1, <1>2, <1>10, <1>15 DEF WalkFine, M
  <2>7. QED
    BY <2>5, <2>6
<1>16. WalkFine'
  <2>1. ASSUME Reliable', NEW r \in Missing'
        PROVE  /\ page'.offset + walk'.query.limit <= Cardinality(Ahead(r)')
               /\ ~page'.torn => page'.offset + walk'.query.limit < page'.total
    <3>1. Ahead(r)' = Ahead(r)
      BY <1>14
    <3>2. QED
      BY <2>1, <3>1, <1>12, <1>13, <1>14, <1>15
  <2>2. QED
    BY <2>1, <1>12 DEF WalkFine
<1>17. PageKeepsPromise'
  <2>1. Reliable => page.total <= Len(s)
    BY <1>1, <1>2, <1>6, <1>10 DEF WalkFine
  <2>2. Reliable => Len(shown) = limit \/ offset + Len(shown) >= page.total
    <3>1. Len(s) \in Nat /\ Len(items) \in Nat
      BY <1>6, <1>8
    <3>2. QED
      BY <2>1, <3>1, <1>2, <1>8, <1>9
  <2>3. Reliable' => \/ Len(page'.items) = walk'.query.limit
                     \/ page'.offset + Len(page'.items) >= page'.total
    BY <2>2, <1>12, <1>13, <1>14
  <2>4. QED
    BY <2>3 DEF PageKeepsPromise, Reliable
<1>18. WalkMissesNothing'
  BY <1>12 DEF WalkMissesNothing
<1>19. collected' \subseteq Rows
  BY <1>2, <1>3, <1>5, <1>8
<1>20. Len(page'.items) <= walk'.query.limit
  BY <1>8, <1>9, <1>12, <1>13
<1>21. QED
  BY <1>1, <1>12, <1>13, <1>16, <1>17, <1>18, <1>19, <1>20, WalkStep

\* A transaction puts no row of a walk further to the front.
LEMMA WalkSurvivesWrite ==
    ASSUME StoreInv, AdminInv, StoreStep, TornPage,
           UNCHANGED <<walk, collected, report, walks>>,
           walk.kind = "walk", walk.at # "done"
    PROVE  AdminInv'
<1>1. /\ walk \in WalkRecords /\ WalkFine
      /\ page \in Pages /\ collected \subseteq Rows
      /\ Len(page.items) <= walk.query.limit
      /\ walk.at # "page" => walk.statement = 1
      /\ page.offset \in Nat /\ page.total \in Nat
  BY WalkFacts
<1>2. walk' = walk /\ collected' = collected
  OBVIOUS
<1>3. /\ page' \in Pages /\ page'.items = page.items
      /\ page'.total = page.total /\ page'.offset = page.offset
  <2>1. page' = page \/ page' = [page EXCEPT !.torn = TRUE]
    BY DEF TornPage
  <2>2. QED
    BY <1>1, <2>1, PageRecords
<1>4. walk.at = "page" /\ walk.statement = 2 => page'.torn
  <2>1. walk.at = "page" /\ walk.statement = 2 => page' = [page EXCEPT !.torn = TRUE]
    BY DEF TornPage
  <2>2. [page EXCEPT !.torn = TRUE].torn
    BY <1>1, PageRecords
  <2>3. QED
    BY <2>1, <2>2
<1>5. walk.at # "page" => page' = page
  BY DEF TornPage
<1>6. Reliable' => Reliable /\ DOMAIN rows \subseteq DOMAIN rows'
  BY DEF Reliable, StoreStep, Weakened
<1>7. Missing' = Missing
  BY DEF Missing, StoreStep, Weakened
<1>8. StoreFine /\ StoreFine'
  BY DEF StoreStep, StoreInv
<1>9. ASSUME Reliable'
      PROVE  /\ Matching(walk.query.filter) \subseteq Matching(walk.query.filter)'
             /\ \A r : Ahead(r) \subseteq Ahead(r)'
             /\ Matching(walk.query.filter)' \in SUBSET Rows
  <2>1. walk.query.filter \in {"none", "fixed"} /\ DOMAIN rows \subseteq DOMAIN rows'
    BY <1>6, <1>9 DEF Reliable
  <2>2. PICK D \in SUBSET Rows : rows' \in [D -> {"open", "closed"}]
    BY <1>8 DEF StoreFine, RowTables
  <2>3. /\ Matching(walk.query.filter) \subseteq Matching(walk.query.filter)'
        /\ Matching(walk.query.filter)' \in SUBSET Rows
    BY <1>2, <2>1, <2>2 DEF Matching
  <2>4. QED
    BY <1>2, <2>3 DEF Ahead
<1>10. ASSUME Reliable'
       PROVE  /\ Cardinality(Matching(walk.query.filter))
                     <= Cardinality(Matching(walk.query.filter)')
              /\ Cardinality(Matching(walk.query.filter)) \in Nat
              /\ Cardinality(Matching(walk.query.filter)') \in Nat
              /\ \A r : /\ Cardinality(Ahead(r)) <= Cardinality(Ahead(r)')
                        /\ Cardinality(Ahead(r)) \in Nat
                        /\ Cardinality(Ahead(r)') \in Nat
  <2> DEFINE N == Matching(walk.query.filter)'
  <2>1. IsFiniteSet(N)
    BY <1>9, <1>10, TablesAssumption, FS_Subset
  <2>2. \A T \in SUBSET N : /\ IsFiniteSet(T) /\ Cardinality(T) \in Nat
                            /\ Cardinality(T) <= Cardinality(N)
    BY <2>1, FS_Subset, FS_CardinalityType
  <2>3. ASSUME NEW r
        PROVE  /\ Cardinality(Ahead(r)) <= Cardinality(Ahead(r)')
               /\ Cardinality(Ahead(r)) \in Nat
               /\ Cardinality(Ahead(r)') \in Nat
    <3> DEFINE A == Ahead(r)
               B == Ahead(r)'
    <3>1. A \in SUBSET B /\ B \in SUBSET N
      BY <1>9, <1>10 DEF Ahead
    <3> HIDE DEF A, B, N
    <3>2. IsFiniteSet(B) /\ Cardinality(B) \in Nat
      BY <2>2, <3>1
    <3>3. Cardinality(A) <= Cardinality(B) /\ IsFiniteSet(A)
      BY <3>1, <3>2, FS_Subset
    <3>4. Cardinality(A) \in Nat
      BY <3>3, FS_CardinalityType
    <3>5. QED
      BY <3>2, <3>3, <3>4 DEF A, B
  <2>4. Matching(walk.query.filter) \in SUBSET N /\ N \in SUBSET N
    BY <1>9, <1>10
  <2>5. QED
    BY <2>2, <2>3, <2>4
<1>11. WalkFine'
  <2>1. SUFFICES ASSUME Reliable' PROVE WalkFine'
    BY DEF WalkFine
  <2>2. Reliable
    BY <1>6, <2>1
  <2>3. ASSUME walk.at \in {"parent", "page"}, NEW r \in Missing'
        PROVE  page'.offset <= Cardinality(Ahead(r)')
    <3>1. page.offset <= Cardinality(Ahead(r))
      BY <1>1, <1>7, <2>2, <2>3 DEF WalkFine
    <3>2. QED
      BY <3>1, <1>1, <1>3, <1>10, <2>1
  <2>4. ASSUME walk.at = "page", walk.statement = 2
        PROVE  page'.torn /\ page'.total <= Cardinality(Matching(walk.query.filter)')
    <3>1. page.total <= Cardinality(Matching(walk.query.filter))
      BY <1>1, <2>2, <2>4 DEF WalkFine
    <3>2. QED
      BY <3>1, <1>1, <1>3, <1>4, <1>10, <2>1, <2>4
  <2>5. ASSUME walk.at = "read", NEW r \in Missing'
        PROVE  /\ page'.offset + walk.query.limit <= Cardinality(Ahead(r)')
               /\ ~page'.torn => page'.offset + walk.query.limit < page'.total
    <3>1. /\ page.offset + walk.query.limit <= Cardinality(Ahead(r))
          /\ ~page.torn => page.offset + walk.query.limit < page.total
      BY <1>1, <1>7, <2>2, <2>5 DEF WalkFine
    <3>2. page' = page /\ walk.query.limit \in Nat
      BY <1>5, <2>5, WalkFacts
    <3>3. QED
      BY <3>1, <3>2, <1>1, <1>10, <2>1
  <2>6. QED
    BY <1>2, <2>3, <2>4, <2>5 DEF WalkFine
<1>12. PageKeepsPromise'
  <2>1. PageKeepsPromise
    BY DEF AdminInv, QueriesAreSound
  <2>2. QED
    BY <2>1, <1>2, <1>5, <1>6 DEF PageKeepsPromise, Reliable
<1>13. WalkMissesNothing'
  BY <1>2 DEF WalkMissesNothing
<1>14. QED
  BY <1>1, <1>2, <1>3, <1>11, <1>12, <1>13, WalkStep

-----------------------------------------------------------------------------
(***************************************************************************)
(* Details and reports                                                     *)
(***************************************************************************)
\* What is left to show when nothing is paged.
LEMMA NotPaged ==
    ASSUME AdminFine', ReportFine', ReportsAddUp', walk'.kind # "walk"
    PROVE  AdminInv'
  BY DEF AdminInv, WalkFine, Reliable, QueriesAreSound, WalkMissesNothing,
         PageKeepsPromise

\* The first step of a query that is no walk.
LEMMA BeginsIdle ==
    ASSUME AdminInv, walk.kind = "none"
    PROVE  /\ walks \in Nat /\ page \in Pages /\ collected \subseteq Rows
           /\ report \in Reports
  BY DEF AdminInv, AdminFine, Pages, Reports

\* A detail is read.
LEMMA GetDetailKeeps ==
    ASSUME StoreInv, AdminInv, NEW d \in Details, NEW r \in Rows, GetDetail(d, r)
    PROVE  AdminInv'
<1>1. /\ \E at \in Ended : walk' = [kind |-> "detail", query |-> r, at |-> at]
      /\ page' = NoPage /\ collected' \subseteq Rows /\ report' = report
      /\ walks' = walks + 1 /\ walk.kind = "none"
  BY DEF GetDetail, Ended
<1>2. /\ walks \in Nat /\ page \in Pages /\ collected \subseteq Rows
      /\ report \in Reports
  BY <1>1, BeginsIdle
<1>3. walk'.kind = "detail" /\ walk' \in [kind: {"detail"}, query: Rows, at: Ended]
  BY <1>1
<1>4. walk' \in Walks
  BY <1>3 DEF Walks
<1>5. page' \in Pages
  BY <1>1, <1>2, PageRecords
<1>6. AdminFine'
  BY <1>1, <1>2, <1>3, <1>4, <1>5 DEF AdminFine, Pages, Reports
<1>7. ReportFine' /\ ReportsAddUp'
  BY <1>3 DEF ReportFine, ReportsAddUp
<1>8. QED
  BY <1>3, <1>6, <1>7, NotPaged

\* A report begins.
LEMMA StartReportKeeps ==
    ASSUME StoreInv, AdminInv,
           NEW kind \in {"dashboard", "projection", "inspection"},
           StartReport(kind)
    PROVE  AdminInv'
<1>1. /\ walk' = [kind |-> kind, query |-> kind,
                  at |-> IF kind = "dashboard" THEN "counts" ELSE "published"]
      /\ page' = page /\ collected' = collected /\ report' = NoReport
      /\ walks' = walks + 1 /\ walk.kind = "none"
  BY DEF StartReport
<1>2. /\ walks \in Nat /\ page \in Pages /\ collected \subseteq Rows
      /\ report \in Reports
  BY <1>1, BeginsIdle
<1>3. /\ walk'.kind = kind
      /\ walk'.at = IF kind = "dashboard" THEN "counts" ELSE "published"
  BY <1>1
<1>4. walk' \in Walks
  <2>1. walk' \in ReportWalks
    BY <1>1 DEF ReportWalks
  <2>2. QED
    BY <2>1 DEF Walks, ReportWalks
<1>5. report' \in Reports
  BY <1>1 DEF NoReport, Reports
<1>6. AdminFine'
  BY <1>1, <1>2, <1>3, <1>4, <1>5 DEF AdminFine, Pages, Reports
<1>7. ReportFine' /\ ReportsAddUp'
  BY <1>3 DEF ReportFine, ReportsAddUp
<1>8. QED
  BY <1>3, <1>6, <1>7, NotPaged

\* What is published is finitely many versions, with and without embedding.
LEMMA PublishedCounted ==
    ASSUME StoreFine
    PROVE  /\ IsFiniteSet(Published) /\ Cardinality(Published) \in Nat
           /\ Cardinality(Indexable) \in Nat
           /\ Cardinality(Indexable) <= Cardinality(Published)
           /\ Cardinality(Published \ embedded)
                  = Cardinality(Published) - Cardinality(Indexable)
<1>1. Published \in SUBSET Versions
  BY GrantedTools
<1>2. IsFiniteSet(Published)
  BY <1>1, VersionsAssumption, FS_Subset
<1>3. Cardinality(Published) \in Nat
  BY <1>2, FS_CardinalityType
<1>4. Indexable \in SUBSET Published /\ Published \intersect embedded = Indexable
  BY DEF Indexable
<1>5. Cardinality(Indexable) <= Cardinality(Published) /\ Cardinality(Indexable) \in Nat
  BY <1>2, <1>4, FS_Subset, FS_CardinalityType
<1>6. Cardinality(Published \ embedded)
          = Cardinality(Published) - Cardinality(Published \intersect embedded)
  BY <1>2, FS_Difference
<1>7. QED
  BY <1>2, <1>3, <1>4, <1>5, <1>6

\* What is known of a report.
LEMMA ReportFacts ==
    ASSUME AdminInv, walk.kind \in {"dashboard", "projection", "inspection"}
    PROVE  /\ walk \in ReportWalks /\ page \in Pages /\ collected \subseteq Rows
           /\ report \in Reports /\ ReportFine /\ walks \in Nat /\ walks # 0
<1>1. walk \in ReportWalks
  BY WalkKinds DEF AdminInv, AdminFine
<1>2. walk # NoWalk
  BY DEF NoWalk
<1>3. QED
  BY <1>1, <1>2 DEF AdminInv, AdminFine, Pages, Reports

\* What is left to show of a step of a report.
LEMMA ReportStep ==
    ASSUME AdminInv, walk.kind \in {"dashboard", "projection", "inspection"},
           UNCHANGED <<page, collected, walks>>, report' \in Reports,
           NEW at \in {"counts", "published", "embeddings", "done"},
           walk' = [walk EXCEPT !.at = at],
           walk'.kind = walk.kind /\ walk'.at = at => ReportFine' /\ ReportsAddUp'
    PROVE  AdminInv'
<1>1. /\ walk \in ReportWalks /\ page \in Pages /\ collected \subseteq Rows
      /\ walks \in Nat /\ walks # 0
  BY ReportFacts
<1>2. walk' \in ReportWalks /\ walk'.kind = walk.kind /\ walk'.at = at
  BY <1>1 DEF ReportWalks
<1>3. walk' \in Walks
  BY <1>2 DEF Walks, ReportWalks
<1>4. AdminFine'
  BY <1>1, <1>2, <1>3 DEF AdminFine, Pages, Reports
<1>5. QED
  BY <1>2, <1>4, NotPaged

\* The dashboard counts.
LEMMA CountDashboardKeeps ==
    ASSUME StoreInv, AdminInv, CountDashboard
    PROVE  AdminInv'
<1> DEFINE n == Cardinality(Published)
           a == IF approval.status = "pending" THEN 1 ELSE 0
<1>1. /\ walk.kind = "dashboard"
      /\ report' = [report EXCEPT !.first = n, !.approvals = a]
      /\ walk' = [walk EXCEPT !.at = "published"]
      /\ UNCHANGED <<storeVars, page, collected, walks>>
  BY DEF CountDashboard, Reading
<1>2. report \in Reports
  BY <1>1, ReportFacts
<1>3. n \in Nat /\ a \in Nat
  BY PublishedCounted DEF StoreInv
<1>4. n = Cardinality(Published)'
  BY <1>1 DEF storeVars, tableVars, Published
<1> HIDE DEF n, a
<1>5. report' \in Reports /\ report'.first = n
  BY <1>1, <1>2, <1>3 DEF Reports
<1>6. walk'.kind = walk.kind /\ walk'.at = "published"
      => ReportFine' /\ ReportsAddUp'
  BY <1>1, <1>4, <1>5 DEF ReportFine, ReportsAddUp
<1>7. QED
  BY <1>1, <1>5, <1>6, ReportStep

\* The published versions are counted or listed.
LEMMA ReadIndexableKeeps ==
    ASSUME StoreInv, AdminInv, ReadIndexable
    PROVE  AdminInv'
<1> DEFINE n == Cardinality(Published)
<1>1. /\ walk.kind \in {"dashboard", "projection", "inspection"}
      /\ walk.at = "published"
      /\ report' = [report EXCEPT !.published = n, !.missing = Published]
      /\ walk' = [walk EXCEPT !.at = "embeddings"]
      /\ UNCHANGED <<storeVars, page, collected, walks>>
  BY DEF ReadIndexable, Reading
<1>2. report \in Reports /\ ReportFine
  BY <1>1, ReportFacts
<1>3. n \in Nat /\ Published \in SUBSET Versions
  BY PublishedCounted, GrantedTools DEF StoreInv
<1>4. n = Cardinality(Published)' /\ quiet' = quiet /\ watch' = watch
  BY <1>1 DEF storeVars, tableVars, Published
<1>5. Published \subseteq watch.ever_published
  BY DEF StoreInv, WatchFine
<1>6. n = Cardinality(Published)
  OBVIOUS
<1> HIDE DEF n
<1>7. /\ report' \in Reports /\ report'.first = report.first
      /\ report'.published = n /\ report'.missing = Published
  BY <1>1, <1>2, <1>3 DEF Reports
<1>8. walk'.kind = walk.kind /\ walk'.at = "embeddings"
      => ReportFine' /\ ReportsAddUp'
  BY <1>1, <1>2, <1>4, <1>5, <1>6, <1>7 DEF ReportFine, ReportsAddUp
<1>9. QED
  BY <1>1, <1>7, <1>8, ReportStep

\* A share is a percentage.
LEMMA Percentage ==
    ASSUME NEW a \in Nat, NEW b \in Nat, b # 0, a <= b
    PROVE  (100 * a) \div b \in 0..100
<1> DEFINE q == (100 * a) \div b
<1>1. b \in Nat \ {0} /\ 100 * a \in Nat
  OBVIOUS
<1>2. q \in Int /\ q * b <= 100 * a /\ 100 * a < (q + 1) * b
  BY <1>1
<1> HIDE DEF q
<1>3. ~(q > 100)
  <2>1. SUFFICES ASSUME q >= 101 PROVE FALSE
    BY <1>2
  <2>2. q * b >= 101 * b
    BY <2>1, <1>2, <1>1
  <2>3. QED
    BY <2>2, <1>2, <1>1
<1>4. ~(q < 0)
  <2>1. SUFFICES ASSUME q + 1 <= 0 PROVE FALSE
    BY <1>2
  <2>2. (q + 1) * b <= 0
    BY <2>1, <1>2, <1>1
  <2>3. QED
    BY <2>2, <1>2, <1>1
<1>5. QED
  BY <1>2, <1>3, <1>4 DEF q

\* The embeddings are counted: a report that nothing was written under adds up.
LEMMA CountEmbeddingsKeeps ==
    ASSUME StoreInv, AdminInv, CountEmbeddings
    PROVE  AdminInv'
<1> DEFINE n == Cardinality(Indexable)
<1>1. /\ walk.kind \in {"dashboard", "projection"}
      /\ walk.at = "embeddings"
      /\ report' = [report EXCEPT !.indexed = n]
      /\ walk' = [walk EXCEPT !.at = "done"]
      /\ UNCHANGED <<storeVars, page, collected, walks>>
  BY DEF CountEmbeddings, Reading
<1>2. report \in Reports /\ ReportFine
  BY <1>1, ReportFacts
<1>3. /\ n \in Nat /\ Cardinality(Published) \in Nat
      /\ n <= Cardinality(Published)
      /\ Cardinality(Published \ embedded) = Cardinality(Published) - n
  BY PublishedCounted DEF StoreInv
<1>4. /\ n = Cardinality(Indexable)' /\ quiet' = quiet
      /\ Cardinality(Published)' = Cardinality(Published)
      /\ Cardinality(Published \ embedded)' = Cardinality(Published \ embedded)
  BY <1>1 DEF storeVars, tableVars, Published, Indexable
<1> HIDE DEF n
<1>5. /\ report' \in Reports /\ report'.first = report.first
      /\ report'.published = report.published /\ report'.indexed = n
  BY <1>1, <1>2, <1>3 DEF Reports
<1>6. quiet > 0 =>
          /\ report.published = Cardinality(Published)
          /\ walk.kind = "dashboard" => report.first = Cardinality(Published)
  BY <1>1, <1>2 DEF ReportFine
<1>7. walk'.kind = walk.kind /\ walk'.at = "done" => ReportFine'
  BY <1>1, <1>4, <1>5, <1>6 DEF ReportFine
<1>8. walk'.kind = walk.kind /\ walk'.at = "done" => ReportsAddUp'
  <2>1. SUFFICES ASSUME walk'.kind = walk.kind, walk'.at = "done", quiet > 0
                 PROVE  /\ pending_tools' = Cardinality(Published \ embedded)'
                        /\ coverage_percent' \in 0..100
                        /\ walk'.kind = "dashboard" =>
                              report'.first = report'.published
    BY <1>1, <1>4 DEF ReportsAddUp
  <2>2. report'.published = Cardinality(Published)
    BY <1>5, <1>6, <2>1
  <2>3. pending_tools' = Cardinality(Published) - n
    BY <1>3, <1>5, <2>2 DEF pending_tools
  <2>4. coverage_percent' \in 0..100
    <3>1. CASE Cardinality(Published) = 0
      BY <3>1, <2>2 DEF coverage_percent
    <3>2. CASE Cardinality(Published) # 0
      <4>1. (100 * n) \div Cardinality(Published) \in 0..100
        BY <3>2, <1>3, Percentage
      <4>2. QED
        BY <3>2, <4>1, <2>2, <1>5 DEF coverage_percent
    <3>3. QED
      BY <3>1, <3>2
  <2>5. QED
    BY <1>3, <1>4, <1>5, <1>6, <2>1, <2>2, <2>3, <2>4
<1>9. QED
  BY <1>1, <1>5, <1>7, <1>8, ReportStep

\* The inspection parts the versions it has listed.
LEMMA ReadEmbeddingsKeeps ==
    ASSUME StoreInv, AdminInv, ReadEmbeddings
    PROVE  AdminInv'
<1> DEFINE m == report.missing
           with == m \intersect embedded
           without == m \ embedded
<1>1. /\ walk.kind = "inspection"
      /\ walk.at = "embeddings"
      /\ report' = [report EXCEPT !.current = with, !.missing = without]
      /\ walk' = [walk EXCEPT !.at = "done"]
      /\ UNCHANGED <<storeVars, page, collected, walks>>
  BY DEF ReadEmbeddings, Reading
<1>2. report \in Reports /\ ReportFine
  BY <1>1, ReportFacts
<1>3. m \in SUBSET Versions /\ with \in SUBSET Versions /\ without \in SUBSET Versions
  BY <1>2 DEF Reports
<1>4. /\ Cardinality(without) = Cardinality(m) - Cardinality(with)
      /\ Cardinality(m) \in Nat /\ Cardinality(with) \in Nat
  BY <1>3, VersionsAssumption, FS_Subset, FS_Difference, FS_CardinalityType
<1>5. /\ report.published = Cardinality(m)
      /\ m \subseteq watch.ever_published
  BY <1>1, <1>2 DEF ReportFine
<1>6. without \intersect watch.embedded = {} /\ with \subseteq m
  BY DEF StoreInv, WatchFine
<1> HIDE DEF m, with, without
<1>7. /\ report' \in Reports /\ report'.published = report.published
      /\ report'.current = with /\ report'.missing = without
  BY <1>1, <1>2, <1>3 DEF Reports
<1>8. watch' = watch
  BY <1>1 DEF storeVars
<1>9. Cardinality(with) + Cardinality(without) = report.published
  BY <1>4, <1>5
<1>10. walk'.kind = walk.kind /\ walk'.at = "done" => ReportFine' /\ ReportsAddUp'
  BY <1>1, <1>5, <1>6, <1>7, <1>8, <1>9 DEF ReportFine, ReportsAddUp
<1>11. QED
  BY <1>1, <1>7, <1>10, ReportStep

\* A read is over.
LEMMA EndReadKeeps ==
    ASSUME StoreInv, AdminInv, EndRead
    PROVE  AdminInv'
<1>1. /\ walk' = NoWalk /\ page' = NoPage /\ collected' = {}
      /\ report' = NoReport /\ walks' = walks
  BY DEF EndRead, Reading
<1>2. walk'.kind = "none" /\ walk'.at = "idle" /\ walk' \in Walks
  BY <1>1 DEF NoWalk, Walks
<1>3. page \in Pages
  BY DEF AdminInv, AdminFine, Pages
<1>4. page' \in Pages
  BY <1>1, <1>3, PageRecords
<1>5. report' \in Reports
  BY <1>1 DEF NoReport, Reports
<1>6. AdminFine'
  BY <1>1, <1>2, <1>4, <1>5 DEF AdminInv, AdminFine, Pages, Reports
<1>7. ReportFine' /\ ReportsAddUp'
  BY <1>2 DEF ReportFine, ReportsAddUp
<1>8. QED
  BY <1>2, <1>6, <1>7, NotPaged

\* A transaction comes between the statements of a report, or when nothing is
\* being read.
LEMMA ReportSurvivesWrite ==
    ASSUME StoreInv, AdminInv, StoreStep, TornPage,
           UNCHANGED <<walk, collected, report, walks>>,
           walk.kind # "walk", walk.at # "done"
    PROVE  AdminInv'
<1>1. walk' = walk /\ page' = page /\ report' = report /\ quiet' = 0
  BY DEF TornPage, StoreStep
<1>2. AdminFine'
  BY <1>1 DEF AdminInv, AdminFine
<1>3. ReportsAddUp'
  BY <1>1 DEF ReportsAddUp
<1>4. watch.ever_published \subseteq watch'.ever_published
  BY DEF StoreStep, Weakened
<1>5. ReportFine'
  BY <1>1, <1>4 DEF AdminInv, ReportFine
<1>6. QED
  BY <1>1, <1>2, <1>3, <1>5, NotPaged

\* Every step keeps what pages and reports rest on.
LEMMA NextAdmin ==
    ASSUME StoreInv, AdminInv, [Next]_vars
    PROVE  AdminInv'
<1>1. CASE Write
  <2>1. /\ Store /\ TornPage /\ UNCHANGED <<walk, collected, report, walks>>
        /\ walk.at # "done"
    BY <1>1 DEF Write, Ended
  <2>2. StoreStep
    BY <2>1, StoreKeeps
  <2>3. QED
    BY <2>1, <2>2, WalkSurvivesWrite, ReportSurvivesWrite
<1>2. CASE Request
  <2>1. walks = 0 /\ UNCHANGED adminVars
    BY <1>2 DEF Request
  <2>2. walk = NoWalk
    BY <2>1 DEF AdminInv, AdminFine
  <2>3. QED
    BY <2>1, <2>2, AdminIdle
<1>3. CASE Query
  <2>1. StoreInv'
    BY NextStore
  <2>2. QED
    BY <1>3, <2>1, StartWalkKeeps, GetDetailKeeps, StartReportKeeps,
       CheckParentKeeps, CountRowsKeeps, ReadRowsKeeps, TurnPageKeeps,
       CountDashboardKeeps, ReadIndexableKeeps, CountEmbeddingsKeeps,
       ReadEmbeddingsKeeps, EndReadKeeps
    DEF Query, AdminStep
<1>4. CASE UNCHANGED vars
  BY <1>4 DEF vars, storeVars, tableVars, adminVars, AdminInv, AdminFine,
              WalkFine, Reliable, Missing, Ahead, Matching, ReportFine,
              Published, Indexable, QueriesAreSound, WalkMissesNothing,
              PageKeepsPromise, ReportsAddUp, pending_tools, coverage_percent
<1>5. QED
  BY <1>1, <1>2, <1>3, <1>4 DEF Next

\* Nothing is read to begin with.
LEMMA AdminBegins ==
    ASSUME Init
    PROVE  AdminInv
<1>1. /\ walk = NoWalk /\ page = NoPage /\ collected = {} /\ report = NoReport
      /\ walks = 0
  BY DEF Init, AdminInit
<1>2. walk.kind = "none" /\ walk.at = "idle" /\ walk \in Walks
  BY <1>1 DEF NoWalk, Walks
<1>3. page \in Pages
  <2>1. \A b \in BOOLEAN :
            [offset |-> 0, total |-> 0, items |-> <<>>, torn |-> b] \in Pages
    BY DEF Pages
  <2>2. QED
    BY <1>1, <2>1, Zenon DEF NoPage
<1>4. report \in Reports
  BY <1>1 DEF NoReport, Reports
<1>5. AdminFine
  BY <1>1, <1>2, <1>3, <1>4 DEF AdminFine, Pages, Reports
<1>6. QED
  BY <1>2, <1>5 DEF AdminInv, WalkFine, Reliable, ReportFine, QueriesAreSound,
                    WalkMissesNothing, PageKeepsPromise, ReportsAddUp

\* Pages and reports keep what they promise, and a walk over the pages misses
\* nothing, whatever commits between their statements (admin_queries.py,
\* _paged_rows and _search_projection_status).
THEOREM QueriesInvariant == Spec => []QueriesAreSound
<1>1. Init => StoreInv /\ AdminInv
  BY StoreBegins, AdminBegins
<1>2. StoreInv /\ AdminInv /\ [Next]_vars => (StoreInv /\ AdminInv)'
  BY NextStore, NextAdmin
<1>3. AdminInv => QueriesAreSound
  BY DEF AdminInv
<1>4. QED
  BY <1>1, <1>2, <1>3, PTL DEF Spec

-----------------------------------------------------------------------------
(***************************************************************************)
(* Rules and credentials                                                   *)
(***************************************************************************)
Effects == {"allow", "require_approval", "deny"}

\* Of rules that compare, the strictest is one of them.
LEMMA Strictest ==
    ASSUME NEW S, S # {}, \A p \in S : p.effect \in Effects
    PROVE  \E p \in S : \A q \in S : Precedence(q.effect) <= Precedence(p.effect)
<1>1. \A p \in S : Precedence(p.effect) \in {1, 2, 3}
  BY DEF Effects, Precedence
<1>2. CASE \E p \in S : Precedence(p.effect) = 3
  BY <1>1, <1>2
<1>3. CASE ~(\E p \in S : Precedence(p.effect) = 3)
  <2>1. CASE \E p \in S : Precedence(p.effect) = 2
    BY <1>1, <1>3, <2>1
  <2>2. CASE ~(\E p \in S : Precedence(p.effect) = 2)
    BY <1>1, <1>3, <2>2
  <2>3. QED
    BY <2>1, <2>2
<1>4. QED
  BY <1>2, <1>3

\* What RuleBasedPolicyEvaluator.evaluate decides: a denial when no finalist
\* is left, and otherwise what the strictest finalist says.
LEMMA RuleBased ==
    ASSUME NEW policies, NEW principal, NEW tool,
           \A p \in policies : p.effect \in Effects
    PROVE  /\ rule_based(policies, principal, tool) \in Effects
           /\ Finalists(policies, principal, tool) = {} =>
                  rule_based(policies, principal, tool) = "deny"
           /\ \A p \in Finalists(policies, principal, tool) :
                  /\ p.effect = "deny" =>
                        rule_based(policies, principal, tool) = "deny"
                  /\ p.effect = "require_approval" =>
                        rule_based(policies, principal, tool)
                            \in {"deny", "require_approval"}
<1> DEFINE F == Finalists(policies, principal, tool)
           chosen == CHOOSE p \in F :
                         \A q \in F : Precedence(q.effect) <= Precedence(p.effect)
<1>1. \A p \in F : p \in policies
  BY DEF Finalists, MostSpecific, Applicable
<1>2. \A p \in F : p.effect \in Effects
  BY <1>1
<1>3. rule_based(policies, principal, tool) = IF F = {} THEN "deny" ELSE chosen.effect
  BY DEF rule_based
<1> HIDE DEF F
<1>4. CASE F = {}
  BY <1>3, <1>4 DEF Effects, F
<1>5. CASE F # {}
  <2>1. \E p \in F : \A q \in F : Precedence(q.effect) <= Precedence(p.effect)
    BY <1>2, <1>5, Strictest
  <2>2. /\ chosen \in F
        /\ \A q \in F : Precedence(q.effect) <= Precedence(chosen.effect)
    BY <2>1
  <2> HIDE DEF chosen
  <2>3. chosen.effect \in Effects
    BY <2>2, <1>2
  <2>4. \A p \in F : /\ p.effect = "deny" => chosen.effect = "deny"
                     /\ p.effect = "require_approval" =>
                            chosen.effect \in {"deny", "require_approval"}
    BY <2>2, <2>3 DEF Precedence, Effects
  <2>5. QED
    BY <1>3, <1>5, <2>3, <2>4 DEF F
<1>6. QED
  BY <1>4, <1>5

\* What the evaluator decides is an effect, and it is an approval only where
\* the rules ask for one.
LEMMA Evaluated ==
    ASSUME composed \in Compositions, NEW principal, NEW tool, NEW side_effect
    PROVE  /\ evaluate(composed.evaluator, principal, tool, side_effect) \in Effects
           /\ AsksApproval(principal, tool) <=>
                  evaluate(composed.evaluator, principal, tool, side_effect)
                      = "require_approval"
<1>1. \A p \in composed.evaluator.policies : p.effect \in Effects
  BY CompositionsAssumption DEF Effects
<1>2. rule_based(composed.evaluator.policies, principal, tool) \in Effects
  BY <1>1, RuleBased
<1>3. QED
  BY <1>2 DEF evaluate, static_read_only, AsksApproval, Effects

\* A rule that no other outdoes is a finalist.
LEMMA UndoneIsFinalist ==
    ASSUME composed \in Compositions, NEW principal, NEW tool,
           NEW p \in Applicable(composed.evaluator.policies, principal, tool),
           \A q \in Applicable(composed.evaluator.policies, principal, tool) :
               /\ ~(Specificity(q) > Specificity(p))
               /\ ~(/\ Specificity(q) = Specificity(p)
                    /\ q.priority > p.priority)
    PROVE  p \in Finalists(composed.evaluator.policies, principal, tool)
<1> DEFINE A == Applicable(composed.evaluator.policies, principal, tool)
<1>1. \A q \in A : Specificity(q) \in Nat /\ q.priority \in Int
  <2>1. \A q \in A : q.priority \in Int
    BY CompositionsAssumption DEF Applicable
  <2>2. \A q : Specificity(q) \in Nat
    BY DEF Specificity
  <2>3. QED
    BY <2>1, <2>2
<1> HIDE DEF A
<1>2. p \in A /\ \A q \in A : /\ ~(Specificity(q) > Specificity(p))
                              /\ ~(/\ Specificity(q) = Specificity(p)
                                   /\ q.priority > p.priority)
  BY DEF A
<1>3. p \in MostSpecific(A)
  BY <1>1, <1>2 DEF MostSpecific
<1>4. \A q \in MostSpecific(A) : q.priority <= p.priority
  <2>1. \A q \in MostSpecific(A) : q \in A /\ Specificity(q) = Specificity(p)
    BY <1>1, <1>2 DEF MostSpecific
  <2>2. QED
    BY <2>1, <1>1, <1>2
<1>5. QED
  BY <1>3, <1>4 DEF Finalists, A

\* A credential that is selected is the only one that fits best.
LEMMA Selected ==
    ASSUME NEW F, IsFiniteSet(F), SelectBinding(F) # NoBinding,
           SelectBinding(F) # Ambiguous
    PROVE  F = {SelectBinding(F)}
<1>1. F # {} /\ Cardinality(F) = 1
  BY DEF SelectBinding
<1>2. PICK x : F = {x}
  BY <1>1, FS_Singleton
<1>3. SelectBinding(F) = CHOOSE b \in F : TRUE
  BY <1>1 DEF SelectBinding
<1>4. SelectBinding(F) \in F
  BY <1>1, <1>3
<1>5. QED
  BY <1>2, <1>4

-----------------------------------------------------------------------------
(***************************************************************************)
(* Requests: where the handler is                                          *)
(***************************************************************************)
\* What a handler notes of what it has read.
LEMMA SeenRecords ==
    ASSUME NEW x \in Sightings
    PROVE  /\ \A A, M, U \in SUBSET Tools :
                  \A m \in {"eager", "search_first"} :
                      [x EXCEPT !.allowed = A, !.members = M, !.unavailable = U,
                                !.mode = m] \in Sightings
           /\ \A T \in SUBSET Versions : [x EXCEPT !.tools = T] \in Sightings
           /\ \A a \in {"embed", "coverage", "candidates", "read"} :
                  [x EXCEPT !.vector_at = a] \in Sightings
           /\ \A s \in Seq(Versions) :
                  [x EXCEPT !.lexical_read = TRUE, !.lexical = s] \in Sightings
           /\ \A i, e \in Nat :
                  [x EXCEPT !.vector_at = "candidates", !.indexed = i,
                            !.eligible = e] \in Sightings
           /\ \A s \in Seq(Versions) :
                  [x EXCEPT !.vector_at = "read", !.vector = s] \in Sightings
           /\ \A n \in Nat : [x EXCEPT !.fetched = n] \in Sightings
           /\ \A V \in SUBSET Versions : \A e \in Effects :
                  [x EXCEPT !.version = V, !.effect = e] \in Sightings
           /\ [x EXCEPT !.faulted = TRUE] \in Sightings
<1>1. \A A, M, U \in SUBSET Tools : \A m \in {"eager", "search_first"} :
          [x EXCEPT !.allowed = A, !.members = M, !.unavailable = U,
                    !.mode = m] \in Sightings
  BY DEF Sightings
<1>2. \A T \in SUBSET Versions : [x EXCEPT !.tools = T] \in Sightings
  BY DEF Sightings
<1>3. \A a \in {"embed", "coverage", "candidates", "read"} :
          [x EXCEPT !.vector_at = a] \in Sightings
  BY DEF Sightings
<1>4. \A s \in Seq(Versions) : \A b \in BOOLEAN :
          [x EXCEPT !.lexical_read = b, !.lexical = s] \in Sightings
  BY DEF Sightings
<1>5. \A s \in Seq(Versions) :
          [x EXCEPT !.lexical_read = TRUE, !.lexical = s] \in Sightings
  BY <1>4, Zenon
<1>6. \A i, e \in Nat : [x EXCEPT !.vector_at = "candidates", !.indexed = i,
                                  !.eligible = e] \in Sightings
  BY DEF Sightings
<1>7. \A s \in Seq(Versions) :
          [x EXCEPT !.vector_at = "read", !.vector = s] \in Sightings
  BY DEF Sightings
<1>8. \A n \in Nat : [x EXCEPT !.fetched = n] \in Sightings
  BY DEF Sightings
<1>9. \A V \in SUBSET Versions : \A e \in Effects :
          [x EXCEPT !.version = V, !.effect = e] \in Sightings
  BY DEF Sightings, Effects
<1>10. \A b \in BOOLEAN : [x EXCEPT !.faulted = b] \in Sightings
  BY DEF Sightings
<1>11. [x EXCEPT !.faulted = TRUE] \in Sightings
  BY <1>10, Zenon
<1>12. QED
  BY <1>1, <1>2, <1>3, <1>5, <1>6, <1>7, <1>8, <1>9, <1>11, Zenon

\* Nothing is seen to begin with.
LEMMA NothingIsSeen == NothingSeen \in Sightings
<1> DEFINE Made(b, c) ==
        [allowed |-> {}, members |-> {}, unavailable |-> {}, mode |-> "none",
         tools |-> {}, faulted |-> b, lexical |-> <<>>, lexical_read |-> c,
         vector |-> <<>>, vector_at |-> "embed", eligible |-> 0, indexed |-> 0,
         fetched |-> 0, version |-> {}, effect |-> "none"]
<1>1. \A b, c \in BOOLEAN : Made(b, c) \in Sightings
  BY DEF Sightings
<1>2. NothingSeen = Made(FALSE, FALSE)
  BY DEF NothingSeen
<1> HIDE DEF Made
<1>3. QED
  BY <1>1, <1>2, Zenon

\* What stays when a handler goes on.
Going == UNCHANGED <<composed, request, serial, denials, lost, last>>

\* The request of a handler that is at work.
LEMMA AtWork ==
    ASSUME RequestFine, pc # "idle"
    PROVE  /\ request \in Requests /\ request.limit \in Nat
           /\ request.kind \in {"list", "search", "lab", "catalog", "call"}
           /\ request.scope \in Scopes /\ request.mode \in {"lexical", "hybrid"}
           /\ serial \in Nat /\ serial # 0
           /\ seen \in Sightings /\ hits \in Seq(Versions)
           /\ composed \in Compositions
           /\ pc # "answered" => hits = <<>>
<1>1. request \in Requests
  BY DEF RequestFine
<1>2. QED
  BY <1>1, RequestsAssumption DEF RequestFine

\* The handler answers without hits.
LEMMA StepAnswers ==
    ASSUME RequestFine, pc \notin {"idle", "answered"}, Going, hits' = hits,
           seen' \in Sightings, pc' = "answered", outcome' \in Outcomes
    PROVE  RequestFine'
<1>1. /\ request \in Requests /\ request.limit \in Nat
      /\ serial \in Nat /\ serial # 0 /\ hits = <<>>
  BY AtWork
<1>2. Len(hits') = 0 /\ hits' \in Seq(Versions)
  BY <1>1
<1>3. QED
  BY <1>1, <1>2 DEF RequestFine, Going, Labels

\* The handler goes on.
LEMMA StepGoesOn ==
    ASSUME RequestFine, pc \notin {"idle", "deny", "answered"}, Going,
           hits' = hits, outcome' = outcome, seen' \in Sightings,
           pc' \in Labels \ {"idle", "deny", "answered"},
           pc' \in {"toolsets", "published"} =>
               request.kind \in {"list", "search", "call"},
           pc' \in {"search", "searching"} =>
               request.kind \in {"search", "lab", "catalog"},
           pc' \in {"approval", "resolve", "request", "plan"} =>
               request.kind = "call"
    PROVE  RequestFine'
  BY DEF RequestFine, Going

\* The handler denies.
LEMMA StepDenies ==
    ASSUME RequestFine, pc \notin {"idle", "deny", "answered"}, Going,
           hits' = hits, seen' \in Sightings,
           NEW code \in ScopeErrors, Denied(code)
    PROVE  RequestFine'
<1>1. /\ request \in Requests /\ request.limit \in Nat
      /\ serial \in Nat /\ serial # 0 /\ hits = <<>>
  BY AtWork
<1>2. Len(hits') = 0 /\ hits' \in Seq(Versions)
  BY <1>1
<1>3. outcome' \in ScopeErrors /\ outcome' \in Outcomes
  BY DEF Denied, Outcomes
<1>4. \/ pc' = "deny" /\ request.kind \in {"search", "call"}
      \/ pc' = "answered"
  BY DEF Denied, Goto
<1>5. QED
  BY <1>1, <1>2, <1>3, <1>4 DEF RequestFine, Going, Labels

-----------------------------------------------------------------------------
(***************************************************************************)
(* What a search finds                                                     *)
(***************************************************************************)
\* The most that a search fetches is a number.
LEMMA LimitIsNumber ==
    ASSUME RequestFine, pc # "idle"
    PROVE  SearchLimit \in Nat
<1>1. request.limit \in Nat
  BY AtWork
<1>2. OverfetchFactor * request.limit \in Nat
  BY <1>1, FetchAssumption
<1>3. QED
  BY <1>1, <1>2, FetchAssumption DEF SearchLimit

\* What a statement finds: no version twice, only versions in scope, and all
\* of the order that are when there are fewer than may be fetched.
LEMMA CandidatesFine ==
    ASSUME NEW order \in Seq(Versions), IsInjective(order), NEW S,
           SearchLimit \in Nat
    PROVE  /\ Candidates(order, S) \in Seq(Versions)
           /\ IsInjective(Candidates(order, S))
           /\ ToSet(Candidates(order, S)) \subseteq S
           /\ Len(Candidates(order, S)) < SearchLimit =>
                  ToSet(order) \intersect S \subseteq ToSet(Candidates(order, S))
<1> DEFINE o == Only(order, S)
           n == SearchLimit
<1>1. o \in Seq(Versions) /\ IsInjective(o) /\ ToSet(o) = ToSet(order) \intersect S
  BY OnlyKeeps
<1>2. Candidates(order, S) = First(o, n) /\ n \in Nat
  BY DEF Candidates
<1> HIDE DEF o, n
<1>3. /\ First(o, n) \in Seq(Versions)
      /\ IsInjective(First(o, n))
      /\ ToSet(First(o, n)) \subseteq ToSet(o)
      /\ Len(First(o, n)) < n => First(o, n) = o
  BY <1>1, <1>2, FirstOfSequence
<1>4. QED
  BY <1>1, <1>2, <1>3 DEF n

\* The fusion ranks what the two searches have found, every version once.
LEMMA FuseFine ==
    ASSUME seen \in Sightings, SearchLimit \in Nat, NEW f \in fuse
    PROVE  /\ f \in Seq(Versions) /\ IsInjective(f) /\ ToSet(f) \subseteq Fusible
           /\ IsFiniteSet(Fusible)
           /\ Len(f) < SearchLimit =>
                  ToSet(f) = Fusible /\ Len(f) = Cardinality(Fusible)
<1>1. PICK s \in SetToSeqs(Fusible) : f = First(s, SearchLimit)
  BY DEF fuse
<1>2. seen.lexical \in Seq(Versions) /\ seen.vector \in Seq(Versions)
  BY DEF Sightings
<1>3. Fusible \in SUBSET Versions
  BY <1>2 DEF Fusible, ToSet
<1>4. IsFiniteSet(Fusible)
  BY <1>3, VersionsAssumption, FS_Subset
<1>5. /\ s \in Seq(Fusible) /\ Len(s) = Cardinality(Fusible)
      /\ IsInjective(s) /\ ToSet(s) = Fusible
  BY <1>1, <1>4, OrdersAreWhole
<1>6. s \in Seq(Versions)
  BY <1>3, <1>5
<1> DEFINE n == SearchLimit
<1> HIDE DEF n
<1>7. /\ First(s, n) \in Seq(Versions)
      /\ IsInjective(First(s, n))
      /\ ToSet(First(s, n)) \subseteq ToSet(s)
      /\ Len(First(s, n)) < n => First(s, n) = s
  <2>1. n \in Nat
    BY DEF n
  <2>2. QED
    BY <2>1, <1>5, <1>6, FirstOfSequence
<1>8. QED
  BY <1>1, <1>4, <1>5, <1>7 DEF n

\* The versions that an answer may have.
Passed == IF request.kind = "catalog" THEN Versions ELSE Permitted

\* What is answered of what is found: no more than was asked for, nothing
\* that the policy denies, and everything else when there is room.
LEMMA HitsFine ==
    ASSUME NEW found \in Seq(Versions), request.limit \in Nat
    PROVE  /\ InAccess(Allowed(found)) \in Seq(Versions)
           /\ Len(InAccess(Allowed(found))) <= request.limit
           /\ ToSet(InAccess(Allowed(found))) \subseteq ToSet(found) \intersect Passed
           /\ IsInjective(found) => IsInjective(InAccess(Allowed(found)))
           /\ /\ \A v \in ToSet(found) : ToolOf[v] \in Searchable
              /\ Len(InAccess(Allowed(found))) < request.limit
              => ToSet(found) \intersect Passed
                     \subseteq ToSet(InAccess(Allowed(found)))
<1> DEFINE o == Only(found, Passed)
           n == request.limit
           a == First(o, n)
           R == {v \in Versions : ToolOf[v] \in Searchable}
<1>1. /\ o \in Seq(Versions) /\ ToSet(o) = ToSet(found) \intersect Passed
      /\ IsInjective(found) => IsInjective(o)
  BY OnlyKeeps
<1>2. Allowed(found) = a /\ n \in Nat
  BY DEF Allowed, Passed
<1> HIDE DEF o, n
<1>3. /\ a \in Seq(Versions) /\ Len(a) <= n /\ ToSet(a) \subseteq ToSet(o)
      /\ IsInjective(o) => IsInjective(a)
      /\ Len(a) < n => a = o
  BY <1>1, <1>2, FirstOfSequence
<1> HIDE DEF a
<1>4. InAccess(a) = IF Unconfined THEN a ELSE Only(a, R)
  BY DEF InAccess
<1> HIDE DEF R
<1>5. /\ Only(a, R) \in Seq(Versions) /\ Len(Only(a, R)) <= Len(a)
      /\ ToSet(Only(a, R)) = ToSet(a) \intersect R
      /\ IsInjective(a) => IsInjective(Only(a, R))
      /\ ToSet(a) \subseteq R => Only(a, R) = a
  BY <1>3, OnlyKeeps
<1> DEFINE h == InAccess(a)
<1>6. /\ h \in Seq(Versions) /\ Len(h) <= n /\ ToSet(h) \subseteq ToSet(a)
      /\ IsInjective(a) => IsInjective(h)
      /\ ToSet(a) \subseteq R => h = a
  <2>1. Len(a) \in Nat /\ Len(Only(a, R)) \in Nat
    BY <1>3, <1>5
  <2>2. QED
    BY <2>1, <1>2, <1>3, <1>4, <1>5
<1> HIDE DEF h
<1>7. ASSUME \A v \in ToSet(found) : ToolOf[v] \in Searchable, Len(h) < n
      PROVE  ToSet(h) = ToSet(o)
  <2>1. ToSet(found) \subseteq Versions
    BY DEF ToSet
  <2>2. ToSet(a) \subseteq R
    BY <1>7, <2>1, <1>1, <1>3 DEF R
  <2>3. h = a
    BY <2>2, <1>6
  <2>4. QED
    BY <2>3, <1>3, <1>7
<1>8. InAccess(Allowed(found)) = h
  BY <1>2 DEF h
<1>9. QED
  BY <1>1, <1>3, <1>6, <1>7, <1>8 DEF n

-----------------------------------------------------------------------------
(***************************************************************************)
(* Requests: every step                                                    *)
(***************************************************************************)
\* A request comes in.
LEMMA ReceiveFine ==
    ASSUME RequestFine, NEW r \in Requests, Receive(r)
    PROVE  RequestFine'
<1>1. /\ request' = r /\ serial' = serial + 1 /\ seen' = NothingSeen
      /\ hits' = <<>> /\ lost' = FALSE /\ pc = "idle"
      /\ UNCHANGED <<composed, denials, last>>
  BY DEF Receive
<1>2. serial \in Nat /\ denials \subseteq 1..serial /\ composed \in Compositions
  BY DEF RequestFine
<1>3. \/ pc' = "answered" /\ outcome' \in {"unsupported_protocol", "authentication_failed"}
      \/ pc' = "search" /\ outcome' = "none" /\ r.kind \in {"lab", "catalog"}
      \/ pc' = "toolsets" /\ outcome' = "none" /\ r.kind \notin {"lab", "catalog"}
  BY DEF Receive, Fail, Goto
<1>4. /\ r.kind \in {"list", "search", "lab", "catalog", "call"} /\ r.limit \in Nat
  BY RequestsAssumption
<1>5. /\ serial' \in Nat /\ serial' # 0 /\ serial' \notin denials'
      /\ denials' \subseteq 1..serial'
  BY <1>1, <1>2
<1>6. /\ hits' \in Seq(Versions) /\ Len(hits') = 0 /\ seen' \in Sightings
  BY <1>1, NothingIsSeen
<1>7. QED
  BY <1>1, <1>2, <1>3, <1>4, <1>5, <1>6 DEF RequestFine, Labels, Outcomes

\* What a step of a handler leaves.
LEMMA HandlingGoes == Handling => Going /\ TablesStay /\ approval' = approval
  BY DEF Handling, Going, storeVars, tableVars, TablesStay

\* The toolsets are read.
LEMMA ReadToolsetsFine ==
    ASSUME StoreInv, RequestFine, ReadToolsets
    PROVE  RequestFine'
<1>1. pc = "toolsets" /\ Going /\ hits' = hits
  BY HandlingGoes DEF ReadToolsets
<1>2. seen \in Sightings /\ request.scope \in Scopes
      /\ request.kind \in {"list", "search", "call"}
  BY <1>1, AtWork DEF RequestFine
<1>3. CASE request.scope = "toolset" /\ ScopedOutcome # "none"
  <2>1. Denied(ScopedOutcome) /\ seen' = seen
    BY <1>3 DEF ReadToolsets
  <2>2. ScopedOutcome \in ScopeErrors
    BY <1>3 DEF ScopedOutcome, ScopeErrors
  <2>3. QED
    BY <1>1, <1>2, <2>1, <2>2, StepDenies
<1>4. CASE ~(request.scope = "toolset" /\ ScopedOutcome # "none")
  <2> DEFINE A == Granted(request.scope)
             M == Known(Granted("toolset"))
             U == Unavailable(Granted("toolset"))
             m == toolset.mode
  <2>1. /\ seen' = [seen EXCEPT !.allowed = A, !.members = M,
                                !.unavailable = U, !.mode = m]
        /\ pc' = "published" /\ outcome' = outcome
    BY <1>4 DEF ReadToolsets, Goto
  <2>2. \A s \in Scopes : Granted(s) \in SUBSET Tools
    BY GrantedTools DEF StoreInv
  <2>3. /\ A \in SUBSET Tools /\ M \in SUBSET Tools /\ U \in SUBSET Tools
        /\ m \in {"eager", "search_first"}
    BY <1>2, <2>2 DEF Known, Unavailable, Scopes, StoreInv, StoreFine, Toolsets
  <2> HIDE DEF A, M, U, m
  <2>4. seen' \in Sightings
    BY <1>2, <2>1, <2>3, SeenRecords, Zenon
  <2>5. QED
    BY <1>1, <1>2, <2>1, <2>4, StepGoesOn DEF Labels
<1>5. QED
  BY <1>3, <1>4

\* What is eligible is versions, on offer now.
LEMMA EligibleVersions ==
    ASSUME StoreInv, NEW allowed
    PROVE  /\ Eligible(allowed) \in SUBSET Versions
           /\ Eligible(allowed) \subseteq Published
           /\ IsFiniteSet(Eligible(allowed))
<1>1. Eligible(allowed) \subseteq Published /\ Published \subseteq Versions
  BY DEF Eligible, Published
<1>2. Eligible(allowed) \in SUBSET Versions
  BY <1>1
<1>3. QED
  BY <1>1, <1>2, VersionsAssumption, FS_Subset

\* What is listed is what is eligible, once, or nothing.
LEMMA ListedFine ==
    ASSUME StoreInv, NEW allowed, NEW s \in ListNames(Eligible(allowed))
    PROVE  /\ s \in Seq(Versions) /\ IsInjective(s)
           /\ ToSet(s) \subseteq Eligible(allowed)
<1> DEFINE E == Eligible(allowed)
           L == IF SearchFirst THEN {} ELSE E
<1>1. E \in SUBSET Versions /\ IsFiniteSet(E)
  BY EligibleVersions
<1>2. s \in SetToSeqs(L)
  BY DEF ListNames
<1> HIDE DEF E
<1>3. L \in SUBSET E /\ L \in SUBSET Versions
  BY <1>1
<1>4. IsFiniteSet(L)
  BY <1>1, <1>3, FS_Subset
<1> HIDE DEF L
<1>5. s \in Seq(L) /\ IsInjective(s) /\ ToSet(s) = L
  BY <1>2, <1>4, OrdersAreWhole
<1>6. s \in Seq(Versions)
  BY <1>3, <1>5
<1>7. QED
  BY <1>3, <1>5, <1>6 DEF E

\* The published tools are read.
LEMMA ReadPublishedFine ==
    ASSUME StoreInv, RequestFine, ReadPublished
    PROVE  RequestFine'
<1> DEFINE E == Eligible(seen.allowed)
           gone == {t \in seen.members : \A v \in Published : ToolOf[v] # t}
           refused == require_business_tool(
                          E, seen.unavailable \union gone, request.tool)
<1>1. /\ pc = "published" /\ Going /\ seen' = [seen EXCEPT !.tools = E]
  BY HandlingGoes DEF ReadPublished
<1>2. seen \in Sightings /\ E \in SUBSET Versions
  BY <1>1, AtWork, EligibleVersions
<1>3. \/ /\ request.kind = "list" /\ outcome' = "listed"
         /\ hits' \in ListNames(E) /\ pc' = "answered"
      \/ /\ request.kind = "search" /\ hits' = hits
         /\ \/ Denied("toolset_access_denied")
            \/ pc' = "search" /\ outcome' = outcome
      \/ /\ request.kind = "call" /\ hits' = hits
         /\ \/ refused # "none" /\ Denied(refused)
            \/ pc' = "approval" /\ outcome' = outcome
  BY DEF ReadPublished, Goto
<1>4. refused # "none" => refused \in ScopeErrors
  BY DEF require_business_tool, ScopeErrors
<1> HIDE DEF E, refused
<1>5. seen' \in Sightings
  BY <1>1, <1>2, SeenRecords, Zenon
<1>6. CASE request.kind = "list"
  <2>1. hits' \in Seq(Versions)
    BY <1>3, <1>6, ListedFine DEF E
  <2>2. /\ outcome' = "listed" /\ pc' = "answered"
    BY <1>3, <1>6
  <2>3. QED
    BY <1>1, <1>5, <1>6, <2>1, <2>2, AtWork DEF RequestFine, Going, Labels, Outcomes
<1>7. CASE request.kind = "search"
  <2>1. "toolset_access_denied" \in ScopeErrors
    BY DEF ScopeErrors
  <2>2. CASE Denied("toolset_access_denied")
    BY <1>1, <1>3, <1>5, <1>7, <2>1, <2>2, StepDenies
  <2>3. CASE pc' = "search" /\ outcome' = outcome
    BY <1>1, <1>3, <1>5, <1>7, <2>3, StepGoesOn DEF Labels
  <2>4. QED
    BY <1>3, <1>7, <2>2, <2>3
<1>8. CASE request.kind = "call"
  <2>1. CASE refused # "none" /\ Denied(refused)
    BY <1>1, <1>3, <1>4, <1>5, <1>8, <2>1, StepDenies
  <2>2. CASE pc' = "approval" /\ outcome' = outcome
    BY <1>1, <1>3, <1>5, <1>8, <2>2, StepGoesOn DEF Labels
  <2>3. QED
    BY <1>3, <1>8, <2>1, <2>2
<1>9. QED
  BY <1>3, <1>6, <1>7, <1>8

\* A denial is recorded, or cannot be.
LEMMA RecordDenialFine ==
    ASSUME RequestFine, RecordDenial
    PROVE  RequestFine'
<1>1. /\ pc = "deny" /\ pc' = "answered" /\ outcome' = outcome
      /\ denials' \subseteq denials \union {serial}
      /\ UNCHANGED <<composed, request, seen, hits, serial, last>>
  BY DEF RecordDenial, Goto, AuditFailed
<1>2. serial \in Nat /\ serial # 0
  BY <1>1, AtWork
<1>3. denials' \subseteq 1..serial
  BY <1>1, <1>2 DEF RequestFine
<1>4. QED
  BY <1>1, <1>2, <1>3 DEF RequestFine, Labels

\* A search begins.
LEMMA StartSearchFine ==
    ASSUME RequestFine, StartSearch
    PROVE  RequestFine'
<1>1. /\ pc = "search" /\ Going /\ hits' = hits
      /\ \E a \in {"read", "embed"} : seen' = [seen EXCEPT !.vector_at = a]
  BY HandlingGoes DEF StartSearch
<1>2. seen' \in Sightings
  <2>1. PICK a \in {"read", "embed"} : seen' = [seen EXCEPT !.vector_at = a]
    BY <1>1
  <2>2. seen \in Sightings
    BY <1>1, AtWork
  <2>3. QED
    BY <2>1, <2>2, SeenRecords, Zenon
<1>3. \/ /\ pc' = "answered"
         /\ outcome' \in {"invalid_arguments", "search_mode_unavailable"}
      \/ pc' = "searching" /\ outcome' = outcome
  BY DEF StartSearch, Fail, Goto
<1>4. CASE pc' = "searching" /\ outcome' = outcome
  <2>1. request.kind \in {"search", "lab", "catalog"}
    BY <1>1 DEF RequestFine
  <2>2. QED
    BY <1>1, <1>2, <1>4, <2>1, StepGoesOn DEF Labels
<1>5. CASE pc' = "answered" /\ outcome' \in {"invalid_arguments", "search_mode_unavailable"}
  BY <1>1, <1>2, <1>5, StepAnswers DEF Outcomes
<1>6. QED
  BY <1>3, <1>4, <1>5

\* What is in the scope of a search is finitely many versions.
LEMMA ScopeVersions ==
    /\ InSearchScope \in SUBSET Versions
    /\ IsFiniteSet(InSearchScope) /\ Cardinality(InSearchScope) \in Nat
    /\ IsFiniteSet(InSearchScope \intersect embedded)
    /\ Indexed(InSearchScope) \in Nat
<1>1. InSearchScope \in SUBSET Versions
  BY DEF InSearchScope, Published
<1>2. InSearchScope \intersect embedded \in SUBSET Versions
  BY <1>1
<1>3. QED
  BY <1>1, <1>2, VersionsAssumption, FS_Subset, FS_CardinalityType DEF Indexed

\* A statement of the search is made.
LEMMA SearchGoesOn ==
    ASSUME RequestFine, pc = "searching", Going, seen' \in Sightings,
           UNCHANGED <<pc, outcome, hits>>
    PROVE  RequestFine'
<1>1. request.kind \in {"search", "lab", "catalog"}
  BY DEF RequestFine
<1>2. QED
  BY <1>1, StepGoesOn DEF Labels

\* The full-text search.
LEMMA ReadLexicalFine ==
    ASSUME RequestFine, ReadLexical
    PROVE  RequestFine'
<1> DEFINE s == Candidates(LexicalOrder, InSearchScope)
<1>1. /\ pc = "searching" /\ Going /\ UNCHANGED <<pc, outcome, hits>>
      /\ seen' = [seen EXCEPT !.lexical_read = TRUE, !.lexical = s]
  BY HandlingGoes DEF ReadLexical
<1>2. s \in Seq(Versions)
  BY <1>1, LimitIsNumber, CandidatesFine, OrderAssumption
<1> HIDE DEF s
<1>3. seen' \in Sightings
  <2>1. seen \in Sightings
    BY <1>1, AtWork
  <2>2. QED
    BY <1>1, <1>2, <2>1, SeenRecords, Zenon
<1>4. QED
  BY <1>1, <1>3, SearchGoesOn

\* The text is embedded, or cannot be.
LEMMA EmbedQueryFine ==
    ASSUME RequestFine, EmbedQuery
    PROVE  RequestFine'
<1>1. /\ pc = "searching" /\ Going /\ hits' = hits
      /\ \/ seen' = [seen EXCEPT !.vector_at = "coverage"] /\ UNCHANGED <<pc, outcome>>
         \/ seen' = seen /\ pc' = "answered" /\ outcome' = "embedding_failed"
  BY HandlingGoes DEF EmbedQuery, Fail, Goto
<1>2. seen' \in Sightings
  <2>1. seen \in Sightings
    BY <1>1, AtWork
  <2>2. QED
    BY <1>1, <2>1, SeenRecords, Zenon
<1>3. QED
  BY <1>1, <1>2, SearchGoesOn, StepAnswers DEF Outcomes

\* The vector search counts.
LEMMA ReadCoverageFine ==
    ASSUME RequestFine, ReadCoverage
    PROVE  RequestFine'
<1> DEFINE i == Indexed(InSearchScope)
           e == Cardinality(InSearchScope)
<1>1. /\ pc = "searching" /\ Going /\ UNCHANGED <<pc, outcome, hits>>
      /\ seen' = [seen EXCEPT !.vector_at = "candidates", !.indexed = i,
                              !.eligible = e]
  BY HandlingGoes DEF ReadCoverage
<1>2. i \in Nat /\ e \in Nat
  BY ScopeVersions
<1> HIDE DEF i, e
<1>3. seen' \in Sightings
  <2>1. seen \in Sightings
    BY <1>1, AtWork
  <2>2. QED
    BY <1>1, <1>2, <2>1, SeenRecords, Zenon
<1>4. QED
  BY <1>1, <1>3, SearchGoesOn

\* The vector search finds.
LEMMA ReadCandidatesFine ==
    ASSUME RequestFine, ReadCandidates
    PROVE  RequestFine'
<1> DEFINE s == Candidates(VectorOrder, InSearchScope \intersect embedded)
<1>1. /\ pc = "searching" /\ Going /\ hits' = hits
      /\ \/ /\ seen' = [seen EXCEPT !.vector_at = "read", !.vector = s]
            /\ UNCHANGED <<pc, outcome>>
         \/ /\ seen' = seen /\ pc' = "answered"
            /\ outcome' \in {"internal_error", "search_mode_unavailable"}
  BY HandlingGoes DEF ReadCandidates, Fail, Goto
<1>2. s \in Seq(Versions)
  BY <1>1, LimitIsNumber, CandidatesFine, OrderAssumption
<1> HIDE DEF s
<1>3. seen' \in Sightings
  <2>1. seen \in Sightings
    BY <1>1, AtWork
  <2>2. [seen EXCEPT !.vector_at = "read", !.vector = s] \in Sightings
    BY <1>2, <2>1, SeenRecords, Zenon
  <2>3. QED
    BY <1>1, <2>1, <2>2
<1>4. QED
  BY <1>1, <1>3, SearchGoesOn, StepAnswers DEF Outcomes

\* What a search ranks.
LEMMA FoundVersions ==
    ASSUME RequestFine, pc = "searching",
           NEW found \in IF request.mode = "hybrid" THEN fuse ELSE {seen.lexical}
    PROVE  found \in Seq(Versions) /\ Len(found) \in Nat
<1>1. seen \in Sightings /\ SearchLimit \in Nat
  BY AtWork, LimitIsNumber
<1>2. CASE request.mode = "hybrid"
  BY <1>1, <1>2, FuseFine
<1>3. CASE request.mode # "hybrid"
  BY <1>1, <1>3 DEF Sightings
<1>4. QED
  BY <1>2, <1>3

\* The search answers.
LEMMA FinishSearchFine ==
    ASSUME RequestFine, FinishSearch
    PROVE  RequestFine'
<1>1. pc = "searching" /\ Going /\ outcome' = "found" /\ pc' = "answered"
  BY HandlingGoes DEF FinishSearch, Goto
<1>2. PICK found \in IF request.mode = "hybrid" THEN fuse ELSE {seen.lexical} :
          /\ hits' = InAccess(Allowed(found))
          /\ seen' = [seen EXCEPT !.fetched = Len(found)]
  BY DEF FinishSearch
<1>3. found \in Seq(Versions) /\ Len(found) \in Nat
  BY <1>1, <1>2, FoundVersions
<1>4. /\ request \in Requests /\ request.limit \in Nat /\ seen \in Sightings
      /\ serial # 0
  BY <1>1, AtWork
<1>5. hits' \in Seq(Versions) /\ Len(hits') <= request.limit
  BY <1>2, <1>3, <1>4, HitsFine
<1>6. seen' \in Sightings
  BY <1>2, <1>3, <1>4, SeenRecords, Zenon
<1>7. QED
  BY <1>1, <1>4, <1>5, <1>6 DEF RequestFine, Going, Labels, Outcomes

\* The client's response is a decision.
LEMMA DecideElicitedFine ==
    ASSUME RequestFine, DecideElicited
    PROVE  RequestFine'
<1>1. /\ pc = "approval" /\ Going /\ UNCHANGED <<hits, seen>>
      /\ \/ pc' = "resolve" /\ outcome' = outcome
         \/ /\ pc' = "answered"
            /\ outcome' \in {"approval_mismatch", "approval_not_found",
                             "approval_invalid_state"}
  BY DEF DecideElicited, Fail, Goto, Going
<1>2. request.kind = "call" /\ seen' \in Sightings
  BY <1>1 DEF RequestFine
<1>3. QED
  BY <1>1, <1>2, StepGoesOn, StepAnswers DEF Outcomes, Labels

\* What is executable of a tool is one version.
LEMMA ExecutableVersion ==
    ASSUME StoreInv, NEW S, S = {v \in Published : /\ ToolOf[v] = request.tool
                                                   /\ request.tool \in usable},
           S # {}
    PROVE  LET v == CHOOSE w \in S : TRUE
           IN  /\ v \in Versions /\ v \in Published /\ ToolOf[v] = request.tool
               /\ \A w \in Published : ToolOf[w] = request.tool => w = v
<1> DEFINE v == CHOOSE w \in S : TRUE
<1>1. v \in S
  OBVIOUS
<1> HIDE DEF v
<1>2. v \in Published /\ ToolOf[v] = request.tool
  BY <1>1
<1>3. v \in Versions
  BY <1>2 DEF Published
<1>4. \A w \in Published : ToolOf[w] = request.tool => w = v
  BY <1>2 DEF StoreInv, StoreFine, OnePerTool
<1>5. QED
  BY <1>2, <1>3, <1>4 DEF v

\* What a call that goes on has resolved.
Resolved(v) ==
    /\ v \in Versions /\ ToolOf[v] = request.tool
    /\ evaluate(composed.evaluator, Principal, request.tool, SideEffect[v]) # "deny"
    /\ seen' = [seen EXCEPT !.version = {v},
                            !.effect = evaluate(composed.evaluator, Principal,
                                                request.tool, SideEffect[v])]
    /\ pc' = IF /\ evaluate(composed.evaluator, Principal, request.tool,
                            SideEffect[v]) = "require_approval"
                /\ ~request.resume
             THEN "request" ELSE "plan"
    /\ outcome' = outcome

\* What a call that does not is told, and why.
Unresolved ==
    /\ seen' = seen
    /\ pc' = "answered"
    /\ \/ outcome' \in {"invalid_arguments", "idempotency_key_required"}
       \/ /\ outcome' = "tool_not_found"
          /\ \A v \in Published : ToolOf[v] = request.tool => request.tool \notin usable
       \/ /\ outcome' = "tool_not_visible"
          /\ \A v \in Published :
                ToolOf[v] = request.tool => ~is_visible_to(Visibility[v], Principal)
       \/ /\ outcome' = "authorization_failed"
          /\ \A v \in Published : ToolOf[v] = request.tool => Denies(Principal, v)

\* The name is resolved once more, to the one version that is published.
LEMMA ResolveCases ==
    ASSUME StoreInv, Resolve
    PROVE  /\ pc = "resolve" /\ Handling /\ hits' = hits
           /\ (\E v \in Versions : Resolved(v)) \/ Unresolved
<1> DEFINE S == {v \in Published : /\ ToolOf[v] = request.tool
                                   /\ request.tool \in usable}
           v == CHOOSE w \in S : TRUE
           effect == evaluate(composed.evaluator, Principal, request.tool,
                              SideEffect[v])
<1>1. pc = "resolve" /\ Handling /\ hits' = hits
  BY DEF Resolve
<1>2. IF request.key = "malformed"
      THEN Fail("invalid_arguments") /\ UNCHANGED seen
      ELSE IF S = {}
      THEN Fail("tool_not_found") /\ UNCHANGED seen
      ELSE IF ~is_visible_to(Visibility[v], Principal)
      THEN Fail("tool_not_visible") /\ UNCHANGED seen
      ELSE IF ArgumentError(v) # "none"
      THEN Fail(ArgumentError(v)) /\ UNCHANGED seen
      ELSE IF effect = "deny"
      THEN Fail("authorization_failed") /\ UNCHANGED seen
      ELSE /\ seen' = [seen EXCEPT !.version = {v}, !.effect = effect]
           /\ Goto(IF effect = "require_approval" /\ ~request.resume
                   THEN "request" ELSE "plan")
           /\ UNCHANGED outcome
  BY Zenon DEF Resolve
<1>3. S # {} => /\ v \in Versions /\ v \in Published /\ ToolOf[v] = request.tool
                /\ \A w \in Published : ToolOf[w] = request.tool => w = v
  BY ExecutableVersion
<1>4. S = {} => \A w \in Published : ToolOf[w] = request.tool => request.tool \notin usable
  OBVIOUS
<1>5. ArgumentError(v) # "none" =>
          ArgumentError(v) \in {"invalid_arguments", "idempotency_key_required"}
  BY DEF ArgumentError
<1> HIDE DEF S, v
<1>6. CASE request.key = "malformed"
  BY <1>1, <1>2, <1>6 DEF Unresolved, Fail, Goto
<1>7. CASE request.key # "malformed" /\ S = {}
  BY <1>1, <1>2, <1>4, <1>7 DEF Unresolved, Fail, Goto
<1>8. CASE request.key # "malformed" /\ S # {} /\ ~is_visible_to(Visibility[v], Principal)
  BY <1>1, <1>2, <1>3, <1>8 DEF Unresolved, Fail, Goto
<1>9. CASE /\ request.key # "malformed" /\ S # {} /\ is_visible_to(Visibility[v], Principal)
           /\ ArgumentError(v) # "none"
  BY <1>1, <1>2, <1>5, <1>9 DEF Unresolved, Fail, Goto
<1>10. CASE /\ request.key # "malformed" /\ S # {} /\ is_visible_to(Visibility[v], Principal)
            /\ ArgumentError(v) = "none" /\ effect = "deny"
  BY <1>1, <1>2, <1>3, <1>10 DEF Unresolved, Fail, Goto, Denies
<1>11. CASE /\ request.key # "malformed" /\ S # {} /\ is_visible_to(Visibility[v], Principal)
            /\ ArgumentError(v) = "none" /\ effect # "deny"
  <2>1. Resolved(v) /\ v \in Versions
    BY <1>2, <1>3, <1>11 DEF Resolved, Goto
  <2>2. QED
    BY <1>1, <2>1
<1>12. QED
  BY <1>6, <1>7, <1>8, <1>9, <1>10, <1>11

\* The call is resolved, or not.
LEMMA ResolveFine ==
    ASSUME StoreInv, RequestFine, Resolve
    PROVE  RequestFine'
<1>1. /\ pc = "resolve" /\ Going /\ hits' = hits
      /\ (\E v \in Versions : Resolved(v)) \/ Unresolved
  BY ResolveCases, HandlingGoes
<1>2. seen \in Sightings /\ composed \in Compositions /\ request.kind = "call"
  BY <1>1, AtWork DEF RequestFine
<1>3. ASSUME NEW v \in Versions, Resolved(v)
      PROVE  RequestFine'
  <2> DEFINE e == evaluate(composed.evaluator, Principal, request.tool, SideEffect[v])
  <2>1. e \in Effects
    BY <1>2, Evaluated
  <2>2. /\ seen' = [seen EXCEPT !.version = {v}, !.effect = e] /\ outcome' = outcome
        /\ pc' \in {"request", "plan"}
    BY <1>3 DEF Resolved
  <2> HIDE DEF e
  <2>3. {v} \in SUBSET Versions
    OBVIOUS
  <2>4. seen' \in Sightings
    BY <1>2, <2>1, <2>2, <2>3, SeenRecords, Zenon
  <2>5. QED
    BY <1>1, <1>2, <2>2, <2>4, StepGoesOn DEF Labels
<1>4. CASE Unresolved
  <2>1. seen' = seen /\ pc' = "answered" /\ outcome' \in Outcomes
    BY <1>4 DEF Unresolved, Outcomes
  <2>2. QED
    BY <1>1, <1>2, <2>1, StepAnswers
<1>5. QED
  BY <1>1, <1>3, <1>4

\* An approval is requested.
LEMMA RequestApprovalFine ==
    ASSUME RequestFine, RequestApproval
    PROVE  RequestFine'
<1>1. /\ pc = "request" /\ Going /\ UNCHANGED <<hits, seen>> /\ pc' = "answered"
      /\ outcome' \in {"input_required", "approval_required"}
  BY DEF RequestApproval, Goto, Going
<1>2. seen' \in Sightings
  BY <1>1 DEF RequestFine
<1>3. QED
  BY <1>1, <1>2, StepAnswers DEF Outcomes

\* What plans no call, and what plans one.
PlanRefused ==
    /\ UNCHANGED <<approval, planned>>
    /\ pc' = "answered"
    /\ \/ outcome' \in {"credential_binding_conflict", "credential_binding_not_found",
                        "internal_error"}
       \/ /\ outcome' = Unconsumable
          /\ Unconsumable # "none"
          /\ seen.effect = "require_approval"

PlanMade ==
    /\ pc' = "answered"
    /\ outcome' = "planned"
    /\ planned' = Credential
    /\ Credential # Ambiguous
    /\ Credential # NoBinding
    /\ \A v \in seen.version : status[v] # "absent"
    /\ IF seen.effect = "require_approval"
       THEN /\ Unconsumable = "none"
            /\ approval' = [approval EXCEPT !.status = "consumed"]
       ELSE approval' = approval

\* A call is planned, or not.
LEMMA PlanCases ==
    ASSUME Plan
    PROVE  /\ pc = "plan" /\ Going /\ TablesStay /\ UNCHANGED <<hits, seen>>
           /\ PlanRefused \/ PlanMade
<1>1. pc = "plan" /\ Going /\ TablesStay /\ UNCHANGED <<hits, seen>>
  BY DEF Plan, Going, TablesStay
<1>2. PlanRefused \/ PlanMade
  BY DEF Plan, PlanRefused, PlanMade, Fail, Goto
<1>3. QED
  BY <1>1, <1>2

\* What refuses an approval.
LEMMA UnconsumableOutcome ==
    Unconsumable \in {"none", "approval_not_found", "approval_pending",
                      "approval_rejected", "approval_already_consumed",
                      "approval_mismatch"}
  BY DEF Unconsumable

\* The call is planned, or refused.
LEMMA PlanFine ==
    ASSUME RequestFine, Plan
    PROVE  RequestFine'
<1>1. /\ pc = "plan" /\ Going /\ UNCHANGED <<hits, seen>>
      /\ PlanRefused \/ PlanMade
  BY PlanCases
<1>2. seen' \in Sightings
  BY <1>1 DEF RequestFine
<1>3. pc' = "answered" /\ outcome' \in Outcomes
  BY <1>1, UnconsumableOutcome DEF PlanRefused, PlanMade, Outcomes
<1>4. QED
  BY <1>1, <1>2, <1>3, StepAnswers

\* Something else refuses the plan.
LEMMA RefusePlanFine ==
    ASSUME RequestFine, RefusePlan
    PROVE  RequestFine'
<1>1. /\ pc = "plan" /\ Going /\ UNCHANGED <<hits, seen>> /\ pc' = "answered"
      /\ outcome' \in {"unsafe_upstream_endpoint", "idempotency_conflict"}
  BY HandlingGoes DEF RefusePlan, Fail, Goto
<1>2. seen' \in Sightings
  BY <1>1 DEF RequestFine
<1>3. QED
  BY <1>1, <1>2, StepAnswers DEF Outcomes

\* A statement fails.
LEMMA StatementFailsFine ==
    ASSUME RequestFine, StatementFails
    PROVE  RequestFine'
<1>1. /\ pc \notin {"idle", "answered"} /\ Going /\ hits' = hits /\ pc' = "answered"
      /\ outcome' = "internal_error" /\ seen' = [seen EXCEPT !.faulted = TRUE]
  BY HandlingGoes DEF StatementFails, Fail, Goto
<1>2. seen' \in Sightings
  <2>1. seen \in Sightings
    BY <1>1, AtWork
  <2>2. QED
    BY <1>1, <2>1, SeenRecords, Zenon
<1>3. QED
  BY <1>1, <1>2, StepAnswers DEF Outcomes

\* The client has its answer.
LEMMA AnsweredFine ==
    ASSUME RequestFine, Answered
    PROVE  RequestFine'
<1>1. /\ pc = "answered" /\ pc' = "idle" /\ request' = NoRequest
      /\ seen' = NothingSeen /\ outcome' = "none" /\ hits' = <<>>
      /\ UNCHANGED <<composed, serial, denials>>
  BY DEF Answered, Goto
<1>2. serial # 0 /\ seen' \in Sightings /\ hits' \in Seq(Versions)
  BY <1>1, AtWork, NothingIsSeen
<1>3. request'.kind = "none"
  BY <1>1 DEF NoRequest
<1>4. QED
  BY <1>1, <1>2, <1>3 DEF RequestFine, Labels, Outcomes

\* Every step leaves the handler where its request may be.
LEMMA NextRequest ==
    ASSUME StoreInv, RequestFine, [Next]_vars
    PROVE  RequestFine'
<1>1. CASE UNCHANGED discoveryVars
  BY <1>1 DEF discoveryVars, requestVars, RequestFine
<1>2. CASE Request
  BY <1>2, ReceiveFine, ReadToolsetsFine, ReadPublishedFine, RecordDenialFine,
     StartSearchFine, ReadLexicalFine, EmbedQueryFine, ReadCoverageFine,
     ReadCandidatesFine, FinishSearchFine, DecideElicitedFine, ResolveFine,
     RequestApprovalFine, RefusePlanFine, PlanFine, StatementFailsFine, AnsweredFine
  DEF Request, DiscoveryStep
<1>3. QED
  BY <1>1, <1>2 DEF Next, Write, Query, vars

-----------------------------------------------------------------------------
(***************************************************************************)
(* Searches                                                                *)
(***************************************************************************)
\* A ranking within what was on offer and what is searched.
Ranked(s, offered, searchable) ==
    /\ IsInjective(s)
    /\ ToSet(s) \subseteq offered
    /\ \A v \in ToSet(s) : ToolOf[v] \in searchable
    /\ OnePerTool(ToSet(s))

\* The full-text search has left out nothing, nor has the vector search.
LexicalWhole ==
    seen.lexical_read /\ Len(seen.lexical) < SearchLimit =>
        Steady \intersect ToSet(LexicalOrder) \subseteq ToSet(seen.lexical)
VectorWhole ==
    request.mode = "hybrid" /\ seen.vector_at = "read"
        /\ Len(seen.vector) < SearchLimit =>
        Steady \intersect watch.embedded \subseteq ToSet(seen.vector)

\* What the vector search has counted.
Counted ==
    seen.vector_at = "candidates" =>
        /\ seen.indexed = 0 => Steady \intersect watch.embedded = {}
        /\ quiet > 0 => seen.indexed = Indexed(InSearchScope)

Searching ==
    /\ Ranked(seen.lexical, Offered, Searchable)
    /\ Ranked(seen.vector, Offered, Searchable)
    /\ request.mode = "hybrid" => composed.hybrid
    /\ LexicalWhole
    /\ VectorWhole
    /\ Counted

Confined ==
    ~Unconfined => Steady \subseteq seen.tools /\ seen.tools \subseteq Offered

\* What is known of a search that is being made.
LEMMA SearchFacts ==
    ASSUME SearchFine
    PROVE  /\ pc \in {"search", "searching"} => Confined
           /\ pc = "searching" => Searching
  BY DEF SearchFine, Searching, Confined, FoundFine, Ranked, LexicalWhole,
         VectorWhole, Counted

\* What is left to show of a search that goes on.
LEMMA SearchingKeeps ==
    ASSUME pc' = "searching", Confined', Searching'
    PROVE  SearchFine'
  BY DEF SearchFine, Searching, Confined, FoundFine, Ranked, LexicalWhole,
         VectorWhole, Counted

\* Nothing is left to show of any other handler.
LEMMA SearchOver ==
    ASSUME pc' \notin {"toolsets", "published", "search", "searching"}
    PROVE  SearchFine'
  BY DEF SearchFine

\* What a step of a handler does not change.
LEMMA FrameOfSearch ==
    ASSUME Going, TablesStay
    PROVE  /\ Steady' = Steady /\ Offered' = Offered
           /\ (Unconfined' <=> Unconfined) /\ SearchPrincipal' = SearchPrincipal
           /\ SearchLimit' = SearchLimit
           /\ seen'.tools = seen.tools =>
                  Searchable' = Searchable /\ InSearchScope' = InSearchScope
           /\ watch' = watch /\ quiet' = quiet /\ embedded' = embedded
           /\ request' = request /\ composed' = composed
<1>1. /\ request' = request /\ composed' = composed /\ watch' = watch
      /\ status' = status /\ quiet' = quiet /\ embedded' = embedded
  BY DEF Going, TablesStay
<1>2. Unconfined' <=> Unconfined
  BY <1>1 DEF Unconfined
<1>3. SearchPrincipal' = SearchPrincipal
  BY <1>1 DEF SearchPrincipal, Principal, PrincipalOf, Unconfined
<1>4. SearchLimit' = SearchLimit
  BY <1>1 DEF SearchLimit
<1>5. Steady' = Steady /\ Offered' = Offered
  BY <1>1, <1>2, <1>3 DEF Steady, Offered
<1>6. seen'.tools = seen.tools => Searchable' = Searchable
  BY <1>1, <1>2 DEF Searchable
<1>7. Published' = Published
  BY <1>1 DEF Published
<1>8. seen'.tools = seen.tools => InSearchScope' = InSearchScope
  BY <1>3, <1>6, <1>7 DEF InSearchScope
<1>9. QED
  BY <1>1, <1>2, <1>3, <1>4, <1>5, <1>6, <1>8

\* The scope of a search lies between what was on offer throughout and what
\* once was.
LEMMA ScopeBounds ==
    ASSUME StoreInv, RequestFine, Confined, pc # "idle"
    PROVE  /\ Steady \subseteq InSearchScope
           /\ InSearchScope \subseteq Offered
           /\ OnePerTool(InSearchScope)
           /\ \A v \in InSearchScope : ToolOf[v] \in Searchable
<1>1. /\ watch.published \subseteq Published /\ Published \subseteq watch.ever_published
      /\ OnePerTool(Published) /\ Published \subseteq Versions
  BY DEF StoreInv, WatchFine, StoreFine, Published
<1>2. \A v \in Steady : ToolOf[v] \in Searchable
  <2>1. CASE Unconfined
    BY <1>1, <2>1, ToolOfAssumption DEF Steady, Searchable
  <2>2. CASE ~Unconfined
    BY <2>2 DEF Confined, Searchable
  <2>3. QED
    BY <2>1, <2>2
<1>3. Steady \subseteq InSearchScope
  BY <1>1, <1>2 DEF Steady, InSearchScope
<1>4. ASSUME NEW v \in InSearchScope, ~Unconfined
      PROVE  ToolOf[v] \in watch.ever_granted[request.scope]
  <2>1. PICK w \in seen.tools : ToolOf[v] = ToolOf[w]
    BY <1>4 DEF InSearchScope, Searchable
  <2>2. w \in Offered
    BY <2>1, <1>4 DEF Confined
  <2>3. QED
    BY <2>1, <2>2, <1>4 DEF Offered
<1>5. InSearchScope \subseteq Offered
  BY <1>1, <1>4 DEF InSearchScope, Offered
<1>6. OnePerTool(InSearchScope)
  BY <1>1 DEF OnePerTool, InSearchScope
<1>7. \A v \in InSearchScope : ToolOf[v] \in Searchable
  BY DEF InSearchScope
<1>8. QED
  BY <1>3, <1>5, <1>6, <1>7

\* What a statement of the search finds is a ranking.
LEMMA CandidatesRanked ==
    ASSUME StoreInv, RequestFine, Confined, pc # "idle",
           NEW order \in Seq(Versions), IsInjective(order),
           NEW S \in SUBSET InSearchScope
    PROVE  /\ Ranked(Candidates(order, S), Offered, Searchable)
           /\ Candidates(order, S) \in Seq(Versions)
           /\ ToSet(Candidates(order, S)) \subseteq S
           /\ Len(Candidates(order, S)) < SearchLimit =>
                  ToSet(order) \intersect S \subseteq ToSet(Candidates(order, S))
<1> DEFINE c == Candidates(order, S)
<1>1. SearchLimit \in Nat
  BY LimitIsNumber
<1>2. /\ c \in Seq(Versions) /\ IsInjective(c) /\ ToSet(c) \subseteq S
      /\ Len(c) < SearchLimit => ToSet(order) \intersect S \subseteq ToSet(c)
  BY <1>1, CandidatesFine
<1> HIDE DEF c
<1>3. /\ InSearchScope \subseteq Offered /\ OnePerTool(InSearchScope)
      /\ \A v \in InSearchScope : ToolOf[v] \in Searchable
  BY ScopeBounds
<1>4. ToSet(c) \subseteq InSearchScope
  BY <1>2
<1>5. OnePerTool(ToSet(c))
  BY <1>3, <1>4 DEF OnePerTool
<1>6. Ranked(c, Offered, Searchable)
  BY <1>2, <1>3, <1>4, <1>5 DEF Ranked
<1>7. QED
  BY <1>2, <1>6 DEF c

\* A transaction leaves less that was on offer throughout, and more that once
\* was.
LEMMA OfferAfterWrite ==
    ASSUME StoreInv, RequestFine, pc # "idle", StoreStep, UNCHANGED discoveryVars
    PROVE  /\ Steady' \subseteq Steady /\ Offered \subseteq Offered'
           /\ (Unconfined' <=> Unconfined) /\ Searchable' = Searchable
           /\ SearchLimit' = SearchLimit
           /\ watch'.embedded \subseteq watch.embedded /\ quiet' = 0
           /\ request' = request /\ composed' = composed /\ seen' = seen /\ pc' = pc
<1>1. request' = request /\ composed' = composed /\ seen' = seen /\ pc' = pc
  BY DEF discoveryVars, requestVars
<1>2. (Unconfined' <=> Unconfined) /\ SearchLimit' = SearchLimit
  BY <1>1 DEF Unconfined, SearchLimit
<1>3. SearchPrincipal' = SearchPrincipal /\ Searchable' = Searchable
  BY <1>1, <1>2 DEF SearchPrincipal, Principal, PrincipalOf, Searchable
<1>4. request.scope \in Scopes
  BY AtWork
<1>5. /\ watch'.published \subseteq watch.published
      /\ watch.ever_published \subseteq watch'.ever_published
      /\ watch'.granted[request.scope] \subseteq watch.granted[request.scope]
      /\ watch.ever_granted[request.scope] \subseteq watch'.ever_granted[request.scope]
      /\ watch'.embedded \subseteq watch.embedded
      /\ quiet' = 0
  BY <1>4 DEF StoreStep, Weakened
<1>6. Steady' \subseteq Steady
  BY <1>1, <1>2, <1>3, <1>5 DEF Steady
<1>7. Offered \subseteq Offered'
  BY <1>1, <1>2, <1>3, <1>5 DEF Offered
<1>8. QED
  BY <1>1, <1>2, <1>3, <1>5, <1>6, <1>7

\* A search survives a transaction.
LEMMA SearchSurvivesWrite ==
    ASSUME StoreInv, RequestFine, SearchFine, StoreStep, UNCHANGED discoveryVars,
           pc # "idle"
    PROVE  SearchFine'
<1>1. /\ Steady' \subseteq Steady /\ Offered \subseteq Offered'
      /\ (Unconfined' <=> Unconfined) /\ Searchable' = Searchable
      /\ SearchLimit' = SearchLimit
      /\ watch'.embedded \subseteq watch.embedded /\ quiet' = 0
      /\ request' = request /\ composed' = composed /\ seen' = seen /\ pc' = pc
  BY OfferAfterWrite
<1>2. request.scope \in Scopes
  BY AtWork
<1>3. CASE pc = "searching"
  <2>1. Confined /\ Searching
    BY <1>3, SearchFacts
  <2>2. Confined'
    BY <1>1, <2>1 DEF Confined
  <2>3. \A s : Ranked(s, Offered, Searchable) => Ranked(s, Offered', Searchable')
    BY <1>1 DEF Ranked
  <2>4. LexicalWhole' /\ VectorWhole' /\ Counted'
    BY <1>1, <2>1 DEF Searching, LexicalWhole, VectorWhole, Counted
  <2>5. Searching'
    BY <1>1, <2>1, <2>3, <2>4 DEF Searching
  <2>6. QED
    BY <1>1, <1>3, <2>2, <2>5, SearchingKeeps
<1>4. CASE pc = "search"
  <2>1. Confined
    BY <1>4, SearchFacts
  <2>2. Confined'
    BY <1>1, <2>1 DEF Confined
  <2>3. QED
    BY <1>1, <1>4, <2>2 DEF SearchFine, Confined
<1>5. CASE pc = "published"
  <2>1. /\ watch'.granted[request.scope] \subseteq watch.granted[request.scope]
        /\ watch.ever_granted[request.scope] \subseteq watch'.ever_granted[request.scope]
    BY <1>2 DEF StoreStep, Weakened
  <2>2. QED
    BY <1>1, <1>5, <2>1 DEF SearchFine
<1>6. CASE pc = "toolsets"
  BY <1>1, <1>6 DEF SearchFine
<1>7. CASE pc \notin {"toolsets", "published", "search", "searching"}
  BY <1>1, <1>7, SearchOver
<1>8. QED
  BY <1>3, <1>4, <1>5, <1>6, <1>7

\* A request that comes in has found nothing yet.
LEMMA ReceiveSearch ==
    ASSUME NEW r \in Requests, Receive(r)
    PROVE  SearchFine'
<1>1. /\ request' = r /\ seen' = NothingSeen
      /\ \/ pc' = "answered"
         \/ pc' = "search" /\ r.kind \in {"lab", "catalog"}
         \/ pc' = "toolsets"
  BY DEF Receive, Fail, Goto
<1>2. /\ seen'.lexical = <<>> /\ seen'.lexical_read = FALSE /\ seen'.vector = <<>>
  BY <1>1 DEF NothingSeen
<1>3. pc' = "search" => Unconfined'
  BY <1>1 DEF Unconfined
<1>4. QED
  BY <1>1, <1>2, <1>3 DEF SearchFine

\* What the toolsets grant is what is granted now.
LEMMA ReadToolsetsSearch ==
    ASSUME StoreInv, RequestFine, SearchFine, ReadToolsets
    PROVE  SearchFine'
<1>1. pc = "toolsets" /\ Going /\ TablesStay
  BY HandlingGoes DEF ReadToolsets
<1>2. seen \in Sightings /\ request.scope \in Scopes
  BY <1>1, AtWork
<1>3. CASE request.scope = "toolset" /\ ScopedOutcome # "none"
  <2>1. pc' \in {"deny", "answered"}
    BY <1>3 DEF ReadToolsets, Denied, Goto
  <2>2. QED
    BY <2>1, SearchOver
<1>4. CASE ~(request.scope = "toolset" /\ ScopedOutcome # "none")
  <2>1. /\ pc' = "published"
        /\ seen' = [seen EXCEPT !.allowed = Granted(request.scope),
                                !.members = Known(Granted("toolset")),
                                !.unavailable = Unavailable(Granted("toolset")),
                                !.mode = toolset.mode]
    BY <1>4 DEF ReadToolsets, Goto
  <2>2. /\ seen'.allowed = Granted(request.scope)
        /\ seen'.lexical = seen.lexical /\ seen'.lexical_read = seen.lexical_read
        /\ seen'.vector = seen.vector
    BY <1>2, <2>1 DEF Sightings
  <2>3. /\ watch.granted[request.scope] \subseteq Granted(request.scope)
        /\ Granted(request.scope) \subseteq watch.ever_granted[request.scope]
    BY <1>2 DEF StoreInv, WatchFine
  <2>4. watch' = watch /\ request' = request
    BY <1>1 DEF Going, TablesStay
  <2>5. seen.lexical = <<>> /\ ~seen.lexical_read /\ seen.vector = <<>>
    BY <1>1 DEF SearchFine
  <2>6. QED
    BY <2>1, <2>2, <2>3, <2>4, <2>5 DEF SearchFine
<1>5. QED
  BY <1>3, <1>4

\* What is eligible lies between what was on offer throughout and what once
\* was.
LEMMA EligibleBounds ==
    ASSUME StoreInv, RequestFine, SearchFine, pc = "published"
    PROVE  /\ ~Unconfined
           /\ Steady \subseteq Eligible(seen.allowed)
           /\ Eligible(seen.allowed) \subseteq Offered
<1>1. /\ ~Unconfined /\ SearchPrincipal = Principal
  BY DEF RequestFine, Unconfined, SearchPrincipal
<1>2. /\ watch.granted[request.scope] \subseteq seen.allowed
      /\ seen.allowed \subseteq watch.ever_granted[request.scope]
  BY DEF SearchFine
<1>3. watch.published \subseteq Published /\ Published \subseteq watch.ever_published
  BY DEF StoreInv, WatchFine
<1>4. QED
  BY <1>1, <1>2, <1>3 DEF Steady, Offered, Eligible

\* A search begins with what is eligible.
LEMMA ReadPublishedSearch ==
    ASSUME StoreInv, RequestFine, SearchFine, ReadPublished
    PROVE  SearchFine'
<1> DEFINE E == Eligible(seen.allowed)
<1>1. /\ pc = "published" /\ Going /\ TablesStay /\ seen' = [seen EXCEPT !.tools = E]
  BY HandlingGoes DEF ReadPublished
<1>2. pc' \in {"answered", "deny", "search", "approval"}
  BY DEF ReadPublished, Denied, Goto
<1>3. ~Unconfined /\ Steady \subseteq E /\ E \subseteq Offered
  BY <1>1, EligibleBounds
<1> HIDE DEF E
<1>4. seen \in Sightings
  BY <1>1, AtWork
<1>5. /\ seen'.tools = E
      /\ seen'.lexical = seen.lexical /\ seen'.lexical_read = seen.lexical_read
      /\ seen'.vector = seen.vector
  BY <1>1, <1>4 DEF Sightings
<1>6. Steady' = Steady /\ Offered' = Offered
  BY <1>1, FrameOfSearch
<1>7. seen.lexical = <<>> /\ ~seen.lexical_read /\ seen.vector = <<>>
  BY <1>1 DEF SearchFine
<1>8. CASE pc' = "search"
  BY <1>3, <1>5, <1>6, <1>7, <1>8 DEF SearchFine
<1>9. CASE pc' # "search"
  BY <1>2, <1>9, SearchOver
<1>10. QED
  BY <1>8, <1>9

\* Nothing is ranked to begin with.
LEMMA NothingRanked ==
    ASSUME NEW offered, NEW searchable
    PROVE  Ranked(<<>>, offered, searchable)
  BY DEF Ranked, IsInjective, ToSet, OnePerTool

\* A search begins; where nothing can be searched there is nothing to find.
LEMMA StartSearchSearch ==
    ASSUME StoreInv, RequestFine, SearchFine, StartSearch
    PROVE  SearchFine'
<1> DEFINE a == IF request.mode = "lexical" THEN "read"
                ELSE IF Searchable = {} THEN "read" ELSE "embed"
<1>1. /\ pc = "search" /\ Going /\ TablesStay /\ seen' = [seen EXCEPT !.vector_at = a]
      /\ pc' \in {"answered", "searching"}
      /\ pc' = "searching" => ~(request.mode = "hybrid" /\ ~composed.hybrid)
  BY HandlingGoes DEF StartSearch, Fail, Goto
<1>2. /\ seen \in Sightings /\ request.mode \in {"lexical", "hybrid"}
  BY <1>1, AtWork
<1>3. /\ a # "candidates"
      /\ request.mode = "hybrid" /\ a = "read" => Searchable = {}
  BY <1>2
<1> HIDE DEF a
<1>4. /\ seen'.vector_at = a /\ seen'.tools = seen.tools
      /\ seen'.lexical = seen.lexical /\ seen'.lexical_read = seen.lexical_read
      /\ seen'.vector = seen.vector
  BY <1>1, <1>2 DEF Sightings
<1>5. seen.lexical = <<>> /\ ~seen.lexical_read /\ seen.vector = <<>>
  BY <1>1 DEF SearchFine
<1>6. /\ Steady' = Steady /\ Offered' = Offered /\ (Unconfined' <=> Unconfined)
      /\ watch' = watch /\ request' = request /\ composed' = composed
  BY <1>1, FrameOfSearch
<1>7. Confined
  BY <1>1, SearchFacts
<1>8. Searchable = {} => Steady = {}
  BY <1>1, <1>7, ScopeBounds
<1>9. CASE pc' = "searching"
  <2>1. Confined'
    BY <1>4, <1>6, <1>7 DEF Confined
  <2>2. LexicalWhole' /\ Counted'
    BY <1>3, <1>4, <1>5 DEF LexicalWhole, Counted
  <2>3. VectorWhole'
    BY <1>3, <1>4, <1>6, <1>8 DEF VectorWhole
  <2>4. Ranked(seen.lexical, Offered, Searchable)' /\ Ranked(seen.vector, Offered, Searchable)'
    BY <1>4, <1>5, NothingRanked
  <2>5. request'.mode = "hybrid" => composed'.hybrid
    BY <1>1, <1>6, <1>9
  <2>6. Searching'
    BY <2>2, <2>3, <2>4, <2>5 DEF Searching
  <2>7. QED
    BY <1>9, <2>1, <2>6, SearchingKeeps
<1>10. CASE pc' = "answered"
  BY <1>10, SearchOver
<1>11. QED
  BY <1>1, <1>9, <1>10

\* What is left to show of a statement of the search.
LEMMA SearchStep ==
    ASSUME StoreInv, RequestFine, SearchFine, pc = "searching", Going, TablesStay,
           pc' = pc, seen'.tools = seen.tools,
           Ranked(seen'.lexical, Offered, Searchable),
           Ranked(seen'.vector, Offered, Searchable),
           LexicalWhole', VectorWhole', Counted'
    PROVE  SearchFine'
<1>1. /\ Steady' = Steady /\ Offered' = Offered /\ (Unconfined' <=> Unconfined)
      /\ Searchable' = Searchable
      /\ request' = request /\ composed' = composed
  BY FrameOfSearch
<1>2. Confined /\ Searching
  BY SearchFacts
<1>3. Confined'
  BY <1>1, <1>2 DEF Confined
<1>4. Searching'
  BY <1>1, <1>2 DEF Searching
<1>5. QED
  BY <1>3, <1>4, SearchingKeeps

\* What the full-text search finds.
LEMMA ReadLexicalSearch ==
    ASSUME StoreInv, RequestFine, SearchFine, ReadLexical
    PROVE  SearchFine'
<1> DEFINE s == Candidates(LexicalOrder, InSearchScope)
<1>1. /\ pc = "searching" /\ pc' = pc /\ Going /\ TablesStay
      /\ seen' = [seen EXCEPT !.lexical_read = TRUE, !.lexical = s]
  BY HandlingGoes DEF ReadLexical
<1>2. Confined /\ Searching
  BY <1>1, SearchFacts
<1>3. Steady \subseteq InSearchScope
  BY <1>1, <1>2, ScopeBounds
<1>4. /\ Ranked(s, Offered, Searchable)
      /\ Len(s) < SearchLimit =>
             ToSet(LexicalOrder) \intersect InSearchScope \subseteq ToSet(s)
  BY <1>1, <1>2, CandidatesRanked, OrderAssumption
<1> HIDE DEF s
<1>5. seen \in Sightings
  BY <1>1, AtWork
<1>6. /\ seen'.lexical = s /\ seen'.tools = seen.tools /\ seen'.vector = seen.vector
      /\ seen'.vector_at = seen.vector_at /\ seen'.indexed = seen.indexed
  BY <1>1, <1>5 DEF Sightings
<1>7. /\ Steady' = Steady /\ SearchLimit' = SearchLimit /\ watch' = watch
      /\ request' = request /\ quiet' = quiet /\ embedded' = embedded
      /\ InSearchScope' = InSearchScope
  BY <1>1, <1>6, FrameOfSearch
<1>8. LexicalWhole'
  BY <1>3, <1>4, <1>6, <1>7 DEF LexicalWhole
<1>9. VectorWhole' /\ Counted'
  BY <1>2, <1>6, <1>7 DEF Searching, VectorWhole, Counted, Indexed
<1>10. Ranked(seen'.vector, Offered, Searchable)
  BY <1>2, <1>6 DEF Searching
<1>11. QED
  BY <1>1, <1>4, <1>6, <1>8, <1>9, <1>10, SearchStep

\* The text is embedded.
LEMMA EmbedQuerySearch ==
    ASSUME StoreInv, RequestFine, SearchFine, EmbedQuery
    PROVE  SearchFine'
<1>1. /\ pc = "searching" /\ Going /\ TablesStay
      /\ \/ seen' = [seen EXCEPT !.vector_at = "coverage"] /\ pc' = pc
         \/ pc' = "answered"
  BY HandlingGoes DEF EmbedQuery, Fail, Goto
<1>2. CASE pc' = "answered"
  BY <1>2, SearchOver
<1>3. CASE seen' = [seen EXCEPT !.vector_at = "coverage"] /\ pc' = pc
  <2>1. seen \in Sightings
    BY <1>1, AtWork
  <2>2. /\ seen'.vector_at = "coverage" /\ seen'.tools = seen.tools
        /\ seen'.lexical = seen.lexical /\ seen'.lexical_read = seen.lexical_read
        /\ seen'.vector = seen.vector
    BY <1>3, <2>1 DEF Sightings
  <2>3. Searching
    BY <1>1, SearchFacts
  <2>4. Steady' = Steady /\ SearchLimit' = SearchLimit
    BY <1>1, FrameOfSearch
  <2>5. LexicalWhole' /\ VectorWhole' /\ Counted'
    BY <2>2, <2>3, <2>4 DEF Searching, LexicalWhole, VectorWhole, Counted
  <2>6. QED
    BY <1>1, <1>3, <2>2, <2>3, <2>5, SearchStep DEF Searching
<1>4. QED
  BY <1>1, <1>2, <1>3

\* The vector search counts what is in scope and has an embedding.
LEMMA ReadCoverageSearch ==
    ASSUME StoreInv, RequestFine, SearchFine, ReadCoverage
    PROVE  SearchFine'
<1> DEFINE i == Indexed(InSearchScope)
           e == Cardinality(InSearchScope)
<1>1. /\ pc = "searching" /\ pc' = pc /\ Going /\ TablesStay
      /\ seen' = [seen EXCEPT !.vector_at = "candidates", !.indexed = i,
                              !.eligible = e]
  BY HandlingGoes DEF ReadCoverage
<1>2. Confined /\ Searching
  BY <1>1, SearchFacts
<1>3. Steady \subseteq InSearchScope
  BY <1>1, <1>2, ScopeBounds
<1>4. i = 0 => Steady \intersect watch.embedded = {}
  <2>1. i = 0 => InSearchScope \intersect embedded = {}
    BY ScopeVersions, FS_EmptySet DEF Indexed
  <2>2. watch.embedded \subseteq embedded
    BY DEF StoreInv, WatchFine
  <2>3. QED
    BY <1>3, <2>1, <2>2
<1>5. i = Indexed(InSearchScope)
  OBVIOUS
<1> HIDE DEF i, e
<1>6. seen \in Sightings
  BY <1>1, AtWork
<1>7. /\ seen'.lexical = seen.lexical /\ seen'.lexical_read = seen.lexical_read
      /\ seen'.tools = seen.tools /\ seen'.vector = seen.vector
      /\ seen'.vector_at = "candidates" /\ seen'.indexed = i
  BY <1>1, <1>6 DEF Sightings
<1>8. /\ Steady' = Steady /\ SearchLimit' = SearchLimit /\ watch' = watch
      /\ quiet' = quiet /\ embedded' = embedded /\ InSearchScope' = InSearchScope
  BY <1>1, <1>7, FrameOfSearch
<1>9. LexicalWhole' /\ VectorWhole'
  BY <1>2, <1>7, <1>8 DEF Searching, LexicalWhole, VectorWhole
<1>10. Counted'
  BY <1>4, <1>5, <1>7, <1>8 DEF Counted, Indexed
<1>11. QED
  BY <1>1, <1>2, <1>7, <1>9, <1>10, SearchStep DEF Searching

\* What the vector search finds.
LEMMA ReadCandidatesSearch ==
    ASSUME StoreInv, RequestFine, SearchFine, ReadCandidates
    PROVE  SearchFine'
<1> DEFINE S == InSearchScope \intersect embedded
           s == Candidates(VectorOrder, S)
<1>1. /\ pc = "searching" /\ Going /\ TablesStay
      /\ \/ seen' = [seen EXCEPT !.vector_at = "read", !.vector = s] /\ pc' = pc
         \/ pc' = "answered"
  BY HandlingGoes DEF ReadCandidates, Fail, Goto
<1>2. CASE pc' = "answered"
  BY <1>2, SearchOver
<1>3. CASE seen' = [seen EXCEPT !.vector_at = "read", !.vector = s] /\ pc' = pc
  <2>1. Confined /\ Searching
    BY <1>1, SearchFacts
  <2>2. Steady \intersect watch.embedded \subseteq S /\ S \in SUBSET InSearchScope
    BY <1>1, <2>1, ScopeBounds DEF StoreInv, WatchFine
  <2>3. S \subseteq Versions
    BY ScopeVersions
  <2> HIDE DEF S
  <2>4. /\ Ranked(s, Offered, Searchable)
        /\ Len(s) < SearchLimit => ToSet(VectorOrder) \intersect S \subseteq ToSet(s)
    BY <1>1, <2>1, <2>2, CandidatesRanked, OrderAssumption
  <2>5. Len(s) < SearchLimit => Steady \intersect watch.embedded \subseteq ToSet(s)
    BY <2>2, <2>3, <2>4, OrderAssumption
  <2> HIDE DEF s
  <2>6. seen \in Sightings
    BY <1>1, AtWork
  <2>7. /\ seen'.lexical = seen.lexical /\ seen'.lexical_read = seen.lexical_read
        /\ seen'.tools = seen.tools /\ seen'.vector = s
        /\ seen'.vector_at = "read"
    BY <1>3, <2>6 DEF Sightings
  <2>8. /\ Steady' = Steady /\ SearchLimit' = SearchLimit /\ watch' = watch
    BY <1>1, <2>7, FrameOfSearch
  <2>9. LexicalWhole' /\ VectorWhole' /\ Counted'
    BY <2>1, <2>5, <2>7, <2>8 DEF Searching, LexicalWhole, VectorWhole, Counted
  <2>10. Ranked(seen'.lexical, Offered, Searchable)
    BY <2>1, <2>7 DEF Searching
  <2>11. QED
    BY <1>1, <1>3, <2>4, <2>7, <2>9, <2>10, SearchStep
<1>4. QED
  BY <1>1, <1>2, <1>3

\* The other steps of a handler end the search, or are of a call.
LEMMA OtherwiseSearch ==
    ASSUME RecordDenial \/ FinishSearch \/ DecideElicited \/ Resolve
           \/ RequestApproval \/ RefusePlan \/ Plan \/ StatementFails \/ Answered
    PROVE  SearchFine'
<1>1. pc' \in {"answered", "resolve", "request", "plan", "idle"}
  BY DEF RecordDenial, FinishSearch, DecideElicited, Resolve, RequestApproval,
         RefusePlan, Plan, StatementFails, Answered, Fail, Goto
<1>2. QED
  BY <1>1, SearchOver

\* Every step keeps what a search rests on.
LEMMA NextSearch ==
    ASSUME StoreInv, RequestFine, SearchFine, [Next]_vars
    PROVE  SearchFine'
<1>1. CASE Write
  <2>1. StoreStep /\ UNCHANGED discoveryVars
    BY <1>1, StoreKeeps DEF Write
  <2>2. CASE pc = "idle"
    <3>1. pc' = "idle"
      BY <2>1, <2>2 DEF discoveryVars, requestVars
    <3>2. QED
      BY <3>1, SearchOver
  <2>3. CASE pc # "idle"
    BY <2>1, <2>3, SearchSurvivesWrite
  <2>4. QED
    BY <2>2, <2>3
<1>2. CASE Request
  BY <1>2, ReceiveSearch, ReadToolsetsSearch, ReadPublishedSearch,
     StartSearchSearch, ReadLexicalSearch, EmbedQuerySearch, ReadCoverageSearch,
     ReadCandidatesSearch, OtherwiseSearch
  DEF Request, DiscoveryStep
<1>3. CASE Query
  <2>1. pc' = "idle"
    BY <1>3 DEF Query, RequestFine, discoveryVars, requestVars
  <2>2. QED
    BY <2>1, SearchOver
<1>4. CASE UNCHANGED vars
  <2>1. /\ Going /\ TablesStay /\ seen' = seen /\ pc' = pc
    BY <1>4 DEF vars, storeVars, tableVars, discoveryVars, requestVars, Going,
                TablesStay
  <2>2. /\ Steady' = Steady /\ Offered' = Offered /\ (Unconfined' <=> Unconfined)
        /\ SearchLimit' = SearchLimit /\ Searchable' = Searchable
        /\ InSearchScope' = InSearchScope
        /\ watch' = watch /\ quiet' = quiet /\ embedded' = embedded
        /\ request' = request /\ composed' = composed
    BY <2>1, FrameOfSearch
  <2>3. QED
    BY <2>1, <2>2 DEF SearchFine, FoundFine, Indexed
<1>5. QED
  BY <1>1, <1>2, <1>3, <1>4 DEF Next

-----------------------------------------------------------------------------
(***************************************************************************)
(* Calls and approvals                                                     *)
(***************************************************************************)
\* An approval is of a call that the rules ask one for.
ApprovalFine ==
    /\ approval \in {NoApproval} \union Approvals
    /\ approval # NoApproval => AsksApproval(approval.principal, approval.tool)

\* What a call in progress is about.
Gated ==
    /\ pc \in {"request", "plan"} =>
          \E v \in Versions :
              /\ seen.version = {v}
              /\ ToolOf[v] = request.tool
              /\ seen.effect = evaluate(composed.evaluator, Principal,
                                        request.tool, SideEffect[v])
              /\ seen.effect # "deny"
    /\ pc = "request" => seen.effect = "require_approval" /\ ~request.resume
Resumed ==
    request.resume =>
        AllAbsent \/ (approval # NoApproval /\ approval.tool = request.tool)
Declined ==
    request.response = "decline" =>
        request.resume /\ (AllAbsent \/ approval.status = "rejected")

OnOffer ==
    /\ pc \in {"request", "plan"} => seen.version \subseteq watch.ever_published
    /\ pc \in {"approval", "resolve", "request", "plan"} =>
          request.tool \in watch.ever_granted[request.scope]
    /\ pc \in {"request", "plan"} /\ quiet > 0 => request.tool \in usable

\* The parts of what is known of a call.
LEMMA CallParts ==
    CallFine <=> /\ ApprovalFine /\ Gated /\ OnOffer
                 /\ pc # "idle" => Resumed
                 /\ pc \in {"resolve", "request", "plan"} => Declined
  BY DEF CallFine, ApprovalFine, Gated, OnOffer, Resumed, Declined

\* The same of the next state.
LEMMA CallKeeps ==
    ASSUME ApprovalFine', Gated', OnOffer', pc' # "idle" => Resumed',
           pc' \in {"resolve", "request", "plan"} => Declined'
    PROVE  CallFine'
  BY DEF CallFine, ApprovalFine, Gated, OnOffer, Resumed, Declined

\* The rules and the principals are those of the process.
LEMMA RulesStay ==
    ASSUME composed' = composed
    PROVE  /\ Approvals' = Approvals
           /\ \A p, t : AsksApproval(p, t)' <=> AsksApproval(p, t)
           /\ \A h : PrincipalOf(h)' = PrincipalOf(h)
           /\ \A p, v : Denies(p, v)' <=> Denies(p, v)
<1>1. \A h : PrincipalOf(h)' = PrincipalOf(h)
  BY DEF PrincipalOf
<1>2. Approvals' = Approvals
  BY <1>1 DEF Approvals
<1>3. QED
  BY <1>1, <1>2 DEF AsksApproval, Denies

\* An approval that is left alone stays fine.
LEMMA ApprovalStays ==
    ASSUME ApprovalFine, composed' = composed, approval' = approval
    PROVE  ApprovalFine'
  BY RulesStay DEF ApprovalFine

\* So does one that changes its status.
LEMMA ApprovalDecided ==
    ASSUME ApprovalFine, composed' = composed, approval # NoApproval,
           NEW s \in {"approved", "rejected", "consumed"},
           approval' = [approval EXCEPT !.status = s]
    PROVE  /\ ApprovalFine' /\ approval' # NoApproval /\ approval'.status = s
           /\ approval'.tool = approval.tool
           /\ approval'.principal = approval.principal
           /\ approval'.version = approval.version
<1>1. approval \in Approvals
  BY DEF ApprovalFine
<1>2. /\ approval' \in Approvals /\ approval'.status = s
      /\ approval'.tool = approval.tool
      /\ approval'.principal = approval.principal
      /\ approval'.version = approval.version
  BY <1>1 DEF Approvals
<1>3. approval' # NoApproval
  BY <1>2 DEF NoApproval
<1>4. AsksApproval(approval.principal, approval.tool)
  BY DEF ApprovalFine
<1>5. ApprovalFine'
  BY <1>2, <1>4, RulesStay DEF ApprovalFine
<1>6. QED
  BY <1>2, <1>3, <1>5

\* A step of a handler that is not of the end of a call.
LEMMA CallElsewhere ==
    ASSUME CallFine, OnOffer', composed' = composed, approval' = approval, status' = status,
           request' = request, pc # "idle", pc' \notin {"resolve", "request", "plan"}
    PROVE  CallFine'
<1>1. ApprovalFine /\ Resumed
  BY CallParts
<1>2. ApprovalFine'
  BY <1>1, ApprovalStays
<1>3. Gated' /\ Resumed'
  BY <1>1 DEF Gated, Resumed, AllAbsent
<1>4. QED
  BY <1>2, <1>3, CallKeeps

\* The steps of a handler that look at no approval.
LEMMA OtherwiseCall ==
    ASSUME CallFine, OnOffer',
           ReadToolsets \/ ReadPublished \/ RecordDenial \/ StartSearch
                     \/ ReadLexical \/ EmbedQuery \/ ReadCoverage \/ ReadCandidates
                     \/ FinishSearch \/ RefusePlan \/ StatementFails
    PROVE  CallFine'
<1>1. /\ pc # "idle" /\ pc' \notin {"resolve", "request", "plan"}
  BY DEF ReadToolsets, ReadPublished, RecordDenial, StartSearch, ReadLexical,
         EmbedQuery, ReadCoverage, ReadCandidates, FinishSearch, RefusePlan,
         StatementFails, Fail, Denied, Goto
<1>2. Handling \/ RecordDenial
  BY DEF ReadToolsets, ReadPublished, StartSearch, ReadLexical,
         EmbedQuery, ReadCoverage, ReadCandidates, FinishSearch, RefusePlan,
         StatementFails
<1>3. composed' = composed /\ approval' = approval /\ status' = status
      /\ request' = request
  BY <1>2 DEF Handling, RecordDenial, storeVars, tableVars
<1>4. QED
  BY <1>1, <1>3, CallElsewhere

\* A request comes in, with a state that the gateway gave or without.
LEMMA ReceiveCall ==
    ASSUME CallFine, OnOffer', NEW r \in Requests, Receive(r)
    PROVE  CallFine'
<1>1. /\ request' = r /\ composed' = composed /\ approval' = approval
      /\ status' = status /\ Sealed(r)
      /\ pc' \in {"answered", "search", "toolsets"}
  BY DEF Receive, Fail, Goto, BeginReading, tableVars
<1>2. ApprovalFine
  BY CallParts
<1>3. ApprovalFine'
  BY <1>1, <1>2, ApprovalStays
<1>4. Resumed'
  BY <1>1 DEF Resumed, Sealed, NoApproval
<1>5. Gated'
  BY <1>1 DEF Gated
<1>6. QED
  BY <1>1, <1>3, <1>4, <1>5, CallKeeps

\* The client's response: who declines has the approval rejected.
LEMMA DecideElicitedCall ==
    ASSUME CallFine, OnOffer', DecideElicited
    PROVE  CallFine'
<1>1. /\ pc = "approval" /\ composed' = composed /\ status' = status
      /\ request' = request
  BY DEF DecideElicited
<1>2. ApprovalFine /\ Resumed
  BY <1>1, CallParts
<1>3. CASE pc' = "answered"
  <2>1. approval' = approval
    BY <1>3 DEF DecideElicited, Fail, Goto
  <2>2. QED
    BY <1>1, <1>3, <2>1, CallElsewhere
<1>4. CASE pc' # "answered" /\ request.response = "none"
  <2>1. approval' = approval /\ pc' = "resolve"
    BY <1>4 DEF DecideElicited, Fail, Goto
  <2>2. ApprovalFine'
    BY <1>1, <1>2, <2>1, ApprovalStays
  <2>3. Gated' /\ Resumed' /\ Declined'
    BY <1>1, <1>2, <1>4, <2>1 DEF Gated, Resumed, Declined, AllAbsent
  <2>4. QED
    BY <2>2, <2>3, CallKeeps
<1>5. CASE pc' # "answered" /\ request.response # "none"
  <2> DEFINE s == Decided(Consents(request.response))
  <2>1. /\ approval' = [approval EXCEPT !.status = s] /\ pc' = "resolve"
        /\ approval.status = "pending" /\ request.resume
    BY <1>5 DEF DecideElicited, Fail, Goto
  <2>2. /\ s \in {"approved", "rejected", "consumed"}
        /\ request.response = "decline" => s = "rejected"
    BY DEF Decided, Consents
  <2>3. approval # NoApproval
    BY <2>1 DEF NoApproval
  <2> HIDE DEF s
  <2>4. /\ ApprovalFine' /\ approval' # NoApproval /\ approval'.status = s
        /\ approval'.tool = approval.tool
    BY <1>1, <1>2, <2>1, <2>2, <2>3, ApprovalDecided
  <2>5. Gated' /\ Resumed' /\ Declined'
    BY <1>1, <1>2, <2>1, <2>2, <2>4 DEF Gated, Resumed, Declined, AllAbsent
  <2>6. QED
    BY <2>4, <2>5, CallKeeps
<1>6. QED
  BY <1>3, <1>4, <1>5

\* The call is resolved.
LEMMA ResolveCall ==
    ASSUME StoreInv, RequestFine, CallFine, OnOffer', Resolve
    PROVE  CallFine'
<1>1. /\ pc = "resolve" /\ Handling
      /\ (\E v \in Versions : Resolved(v)) \/ Unresolved
  BY ResolveCases
<1>2. composed' = composed /\ approval' = approval /\ status' = status
      /\ request' = request
  BY <1>1 DEF Handling, storeVars, tableVars
<1>3. CASE Unresolved
  <2>1. pc' = "answered"
    BY <1>3 DEF Unresolved
  <2>2. QED
    BY <1>1, <1>2, <2>1, CallElsewhere
<1>4. ASSUME NEW v \in Versions, Resolved(v)
      PROVE  CallFine'
  <2> DEFINE e == evaluate(composed.evaluator, Principal, request.tool, SideEffect[v])
  <2>1. /\ ToolOf[v] = request.tool /\ e # "deny"
        /\ seen' = [seen EXCEPT !.version = {v}, !.effect = e]
        /\ pc' = IF e = "require_approval" /\ ~request.resume THEN "request" ELSE "plan"
    BY <1>4 DEF Resolved
  <2>2. e = evaluate(composed.evaluator, Principal, request.tool, SideEffect[v])'
    BY <1>2 DEF Principal, PrincipalOf
  <2> HIDE DEF e
  <2>3. seen \in Sightings
    BY <1>1, AtWork
  <2>4. seen'.version = {v} /\ seen'.effect = e
    BY <2>1, <2>3 DEF Sightings
  <2>5. Gated'
    BY <1>2, <2>1, <2>2, <2>4 DEF Gated
  <2>6. ApprovalFine /\ Resumed /\ Declined
    BY <1>1, CallParts
  <2>7. ApprovalFine'
    BY <1>2, <2>6, ApprovalStays
  <2>8. Resumed' /\ Declined'
    BY <1>2, <2>6 DEF Resumed, Declined, AllAbsent
  <2>9. QED
    BY <2>5, <2>7, <2>8, CallKeeps
<1>5. QED
  BY <1>1, <1>3, <1>4

\* An approval is requested, of a call that the rules ask one for.
LEMMA RequestApprovalCall ==
    ASSUME RequestFine, CallFine, OnOffer', RequestApproval
    PROVE  CallFine'
<1>1. /\ pc = "request" /\ composed' = composed /\ request' = request
      /\ approval' = [status |-> "pending", tool |-> request.tool,
                      version |-> seen.version, principal |-> Principal]
      /\ pc' = "answered"
  BY DEF RequestApproval, Goto
<1>2. PICK v \in Versions :
          /\ seen.version = {v} /\ ToolOf[v] = request.tool
          /\ seen.effect = evaluate(composed.evaluator, Principal, request.tool,
                                    SideEffect[v])
          /\ seen.effect = "require_approval" /\ ~request.resume
  BY <1>1, CallParts DEF Gated
<1>3. composed \in Compositions /\ request \in Requests
  BY <1>1, AtWork
<1>4. AsksApproval(Principal, request.tool)
  BY <1>2, <1>3, Evaluated
<1>5. request.tool \in Tools /\ seen.version \in SUBSET Versions
  BY <1>2, ToolOfAssumption
<1>6. Principal \in {PrincipalOf(r.header) : r \in Requests}
  BY <1>3 DEF Principal
<1>7. approval' \in Approvals
  BY <1>1, <1>5, <1>6 DEF Approvals
<1>8. approval'.principal = Principal /\ approval'.tool = request.tool
  BY <1>1
<1>9. ApprovalFine'
  BY <1>1, <1>4, <1>7, <1>8, RulesStay DEF ApprovalFine
<1>10. Gated' /\ Resumed'
  BY <1>1, <1>2 DEF Gated, Resumed
<1>11. QED
  BY <1>1, <1>9, <1>10, CallKeeps

\* A call is planned, and its approval consumed.
LEMMA PlanCall ==
    ASSUME CallFine, OnOffer', Plan
    PROVE  CallFine'
<1>1. /\ pc = "plan" /\ Going /\ TablesStay /\ (PlanRefused \/ PlanMade)
  BY PlanCases
<1>2. composed' = composed /\ request' = request /\ status' = status
  BY <1>1 DEF Going, TablesStay
<1>3. pc' = "answered"
  BY <1>1 DEF PlanRefused, PlanMade
<1>4. CASE approval' = approval
  BY <1>1, <1>2, <1>3, <1>4, CallElsewhere
<1>5. CASE approval' # approval
  <2>1. /\ approval' = [approval EXCEPT !.status = "consumed"]
        /\ Unconsumable = "none"
    BY <1>1, <1>5 DEF PlanRefused, PlanMade
  <2>2. approval # NoApproval
    BY <2>1 DEF Unconsumable, NoApproval
  <2>3. ApprovalFine /\ Resumed
    BY <1>1, CallParts
  <2>4. ApprovalFine' /\ approval' # NoApproval /\ approval'.tool = approval.tool
    BY <1>2, <2>1, <2>2, <2>3, ApprovalDecided
  <2>5. Gated' /\ Resumed'
    BY <1>2, <1>3, <2>2, <2>3, <2>4 DEF Gated, Resumed, AllAbsent
  <2>6. QED
    BY <1>3, <2>4, <2>5, CallKeeps
<1>6. QED
  BY <1>4, <1>5

\* An administrator decides, or the demonstration is reset.
LEMMA CallSurvivesWrite ==
    ASSUME CallFine, OnOffer', StoreStep, UNCHANGED discoveryVars
    PROVE  CallFine'
<1>1. /\ composed' = composed /\ request' = request /\ seen' = seen /\ pc' = pc
      /\ AllAbsent => AllAbsent'
      /\ ApprovalMoves
  BY DEF discoveryVars, requestVars, StoreStep
<1>2. ApprovalFine /\ Gated /\ (pc # "idle" => Resumed)
  BY CallParts
<1>3. pc \in {"resolve", "request", "plan"} => Declined
  BY CallParts
<1>4. Gated'
  BY <1>1, <1>2 DEF Gated, Principal, PrincipalOf
<1>5. CASE approval' = approval
  <2>1. ApprovalFine'
    BY <1>1, <1>2, <1>5, ApprovalStays
  <2>2. (Resumed => Resumed') /\ (Declined => Declined')
    BY <1>1, <1>5 DEF Resumed, Declined
  <2>3. QED
    BY <1>1, <1>2, <1>3, <1>4, <2>1, <2>2, CallKeeps
<1>6. CASE approval' = NoApproval /\ AllAbsent'
  <2>1. ApprovalFine'
    BY <1>6 DEF ApprovalFine
  <2>2. Resumed' /\ (Declined => Declined')
    BY <1>1, <1>6 DEF Resumed, Declined
  <2>3. QED
    BY <1>1, <1>3, <1>4, <2>1, <2>2, CallKeeps
<1>7. CASE /\ approval.status = "pending"
           /\ \E d \in {"approved", "rejected"} :
                 approval' = [approval EXCEPT !.status = d]
  <2>1. PICK d \in {"approved", "rejected"} :
            approval' = [approval EXCEPT !.status = d]
    BY <1>7
  <2>2. approval # NoApproval
    BY <1>7 DEF NoApproval
  <2>3. ApprovalFine' /\ approval' # NoApproval /\ approval'.tool = approval.tool
    BY <1>1, <1>2, <2>1, <2>2, ApprovalDecided
  <2>4. (Resumed => Resumed') /\ (Declined => Declined')
    BY <1>1, <1>7, <2>2, <2>3 DEF Resumed, Declined
  <2>5. QED
    BY <1>1, <1>2, <1>3, <1>4, <2>3, <2>4, CallKeeps
<1>8. QED
  BY <1>1, <1>5, <1>6, <1>7 DEF ApprovalMoves

\* Nothing is asked.
LEMMA CallIdle ==
    ASSUME CallFine, OnOffer', composed' = composed, approval' = approval, pc' = "idle"
    PROVE  CallFine'
<1>1. ApprovalFine'
  BY CallParts, ApprovalStays
<1>2. Gated'
  BY DEF Gated
<1>3. QED
  BY <1>1, <1>2, CallKeeps

\* A call that is resolved has an upstream in use.
LEMMA ResolvedInUse ==
    ASSUME StoreInv, Resolve, pc' \in {"request", "plan"}
    PROVE  /\ request.tool \in usable
           /\ \E v \in Published :
                 seen' = [seen EXCEPT !.version = {v}, !.effect = seen'.effect]
<1> DEFINE S == {v \in Published : /\ ToolOf[v] = request.tool
                                   /\ request.tool \in usable}
           v == CHOOSE w \in S : TRUE
           effect == evaluate(composed.evaluator, Principal, request.tool,
                              SideEffect[v])
<1>1. S # {} /\ seen' = [seen EXCEPT !.version = {v}, !.effect = effect]
  BY DEF Resolve, Fail, Goto
<1>2. v \in S
  BY <1>1
<1>3. QED
  BY <1>1, <1>2

\* The steps that a call takes on its way to its plan.
LEMMA CallsGoOn ==
    ASSUME RequestFine, Request, pc' \in {"approval", "resolve", "request", "plan"}
    PROVE  \/ ReadPublished /\ pc' = "approval"
           \/ DecideElicited /\ pc' = "resolve"
           \/ Resolve
  BY DEF Request, DiscoveryStep, Answered, Receive, ReadToolsets, ReadPublished,
         RecordDenial, StartSearch, ReadLexical, EmbedQuery, ReadCoverage,
         ReadCandidates, FinishSearch, DecideElicited, Resolve, RequestApproval,
         RefusePlan, Plan, StatementFails, Fail, Denied, Goto

\* Whatever a call has come to, its tool was offered to its caller: the toolset
\* had it, the version was published, and its upstream was in use when the
\* name was resolved.
LEMMA NextOnOffer ==
    ASSUME StoreInv, RequestFine, SearchFine, CallFine, [Next]_vars
    PROVE  OnOffer'
<1>0. OnOffer
  BY CallParts
<1>1. CASE Write
  <2>1. StoreStep /\ UNCHANGED discoveryVars
    BY <1>1, StoreKeeps DEF Write
  <2>2. pc' = pc /\ seen' = seen /\ request' = request /\ quiet' = 0 /\ Weakened
    BY <2>1 DEF StoreStep, discoveryVars, requestVars
  <2>3. pc # "idle" => request.scope \in Scopes
    BY AtWork DEF RequestFine
  <2>4. QED
    BY <1>0, <2>2, <2>3 DEF OnOffer, Weakened
<1>2. CASE Request
  <2>1. CASE pc' \notin {"approval", "resolve", "request", "plan"}
    BY <2>1 DEF OnOffer
  <2>2. CASE ReadPublished /\ pc' = "approval"
    <3>1. /\ pc = "published" /\ Going /\ TablesStay
      BY <2>2, HandlingGoes DEF ReadPublished
    <3>2. \E U : require_business_tool(Eligible(seen.allowed), U, request.tool) = "none"
      BY <2>2 DEF ReadPublished, Denied, Goto
    <3>3. request.tool \in seen.allowed
      BY <3>2 DEF require_business_tool, Eligible
    <3>4. request.tool \in watch.ever_granted[request.scope]
      BY <3>1, <3>3 DEF SearchFine
    <3>5. QED
      BY <2>2, <3>1, <3>4 DEF OnOffer, Going, TablesStay
  <2>3. CASE DecideElicited /\ pc' = "resolve"
    <3>1. pc = "approval" /\ request' = request /\ watch' = watch
      BY <2>3 DEF DecideElicited
    <3>2. QED
      BY <1>0, <2>3, <3>1 DEF OnOffer
  <2>4. CASE Resolve
    <3>1. /\ pc = "resolve" /\ Going /\ TablesStay
      BY <2>4, HandlingGoes DEF Resolve
    <3>2. request' = request /\ watch' = watch /\ usable' = usable
      BY <3>1 DEF Going, TablesStay
    <3>3. request.tool \in watch.ever_granted[request.scope]
      BY <1>0, <3>1 DEF OnOffer
    <3>4. CASE pc' \in {"request", "plan"}
      <4>1. PICK v \in Published : /\ seen' = [seen EXCEPT !.version = {v},
                                                        !.effect = seen'.effect]
                                 /\ request.tool \in usable
        BY <2>4, <3>4, ResolvedInUse
      <4>2. seen \in Sightings
        BY <3>1, AtWork
      <4>3. seen'.version = {v}
        BY <4>1, <4>2 DEF Sightings
      <4>4. v \in watch.ever_published
        BY DEF StoreInv, WatchFine
      <4>5. QED
        BY <3>2, <3>3, <4>1, <4>3, <4>4 DEF OnOffer
    <3>5. QED
      BY <3>2, <3>3, <3>4 DEF OnOffer
  <2>5. QED
    BY <1>2, <2>1, <2>2, <2>3, <2>4, CallsGoOn
<1>3. CASE Query
  <2>1. pc' = "idle"
    BY <1>3 DEF Query, RequestFine, discoveryVars, requestVars
  <2>2. QED
    BY <2>1 DEF OnOffer
<1>4. CASE UNCHANGED vars
  BY <1>0, <1>4 DEF vars, storeVars, tableVars, discoveryVars, requestVars, OnOffer
<1>5. QED
  BY <1>1, <1>2, <1>3, <1>4 DEF Next

\* Every step keeps what a call rests on.
LEMMA NextCall ==
    ASSUME StoreInv, RequestFine, SearchFine, CallFine, [Next]_vars
    PROVE  CallFine'
<1>0. OnOffer'
  BY NextOnOffer
<1>1. CASE Write
  BY <1>0, <1>1, StoreKeeps, CallSurvivesWrite DEF Write
<1>2. CASE Request
  <2>1. CASE Answered
    <3>1. composed' = composed /\ approval' = approval /\ pc' = "idle"
      BY <2>1 DEF Answered, Goto, storeVars, tableVars
    <3>2. QED
      BY <1>0, <3>1, CallIdle
  <2>2. QED
    BY <1>0, <1>2, <2>1, ReceiveCall, OtherwiseCall, DecideElicitedCall, ResolveCall,
       RequestApprovalCall, PlanCall
    DEF Request, DiscoveryStep
<1>3. CASE Query
  <2>1. composed' = composed /\ pc' = "idle"
    BY <1>3 DEF Query, RequestFine, discoveryVars, requestVars
  <2>2. Reading \/ BeginReading
    BY <1>3, QueryBegins, AdminStaysOffStore DEF Query
  <2>3. approval' = approval
    BY <2>2 DEF Reading, BeginReading, storeVars, tableVars
  <2>4. QED
    BY <1>0, <2>1, <2>3, CallIdle
<1>4. CASE UNCHANGED vars
  <2>1. /\ composed' = composed /\ approval' = approval /\ status' = status
        /\ request' = request /\ seen' = seen /\ pc' = pc
    BY <1>4 DEF vars, storeVars, tableVars, discoveryVars, requestVars
  <2>2. ApprovalFine'
    BY <2>1, CallParts, ApprovalStays
  <2>3. /\ Gated => Gated'
        /\ Resumed => Resumed'
        /\ Declined => Declined'
    BY <2>1 DEF Gated, Resumed, Declined, AllAbsent, Principal, PrincipalOf
  <2>4. QED
    BY <1>0, <2>1, <2>2, <2>3, CallParts, CallKeeps
<1>5. QED
  BY <1>1, <1>2, <1>3, <1>4 DEF Next

-----------------------------------------------------------------------------
(***************************************************************************)
(* What the client was last told of                                        *)
(***************************************************************************)
\* The steps of a handler between its request and its answer.
HandlerStep ==
    \/ ReadToolsets \/ ReadPublished \/ RecordDenial
    \/ StartSearch \/ ReadLexical \/ EmbedQuery \/ ReadCoverage
    \/ ReadCandidates \/ FinishSearch
    \/ DecideElicited \/ Resolve \/ RequestApproval \/ RefusePlan \/ Plan
    \/ StatementFails

\* What such a step leaves alone.
LEMMA HandlerFrame ==
    ASSUME HandlerStep
    PROVE  /\ pc \notin {"idle", "answered"} /\ pc' # "idle" /\ TablesStay
           /\ UNCHANGED <<composed, request, serial, last>>
<1>1. CASE Handling
  <2>1. TablesStay /\ UNCHANGED <<composed, request, serial, last>>
    BY <1>1 DEF Handling, storeVars, tableVars, TablesStay
  <2>2. pc \notin {"idle", "answered"} /\ pc' # "idle"
    BY DEF HandlerStep, ReadToolsets, ReadPublished, RecordDenial, StartSearch,
           ReadLexical, EmbedQuery, ReadCoverage, ReadCandidates, FinishSearch,
           DecideElicited, Resolve, RequestApproval, RefusePlan, Plan,
           StatementFails, Fail, Denied, Goto
  <2>3. QED
    BY <2>1, <2>2
<1>2. CASE RecordDenial
  BY <1>2 DEF RecordDenial, Goto, storeVars, tableVars, TablesStay
<1>3. CASE DecideElicited \/ RequestApproval \/ Plan
  BY <1>3 DEF DecideElicited, RequestApproval, Plan, Fail, Goto, TablesStay
<1>4. Handling \/ RecordDenial \/ DecideElicited \/ RequestApproval \/ Plan
  BY DEF HandlerStep, ReadToolsets, ReadPublished, StartSearch, ReadLexical,
         EmbedQuery, ReadCoverage, ReadCandidates, FinishSearch, Resolve,
         RefusePlan, StatementFails
<1>5. QED
  BY <1>1, <1>2, <1>3, <1>4

\* What the client was told of is still so when the tables are as they were.
LEMMA LastStays ==
    ASSUME LastFine, LastIsCurrent' => LastIsCurrent,
           UNCHANGED <<composed, last, status, toolset, rootAll>>
    PROVE  LastFine'
<1>1. Published' = Published /\ \A s : Granted(s)' = Granted(s)
  BY DEF Published, Granted
<1>2. /\ \A h : PrincipalOf(h)' = PrincipalOf(h)
      /\ \A p, v : Denies(p, v)' <=> Denies(p, v)
  BY RulesStay
<1>3. QED
  BY <1>1, <1>2 DEF LastFine

\* Every answer tells the client what is so, if nothing was written since it
\* was asked for.
LEMMA AnsweredLast ==
    ASSUME StoreInv, RequestFine, NamedWasVisible, Answered
    PROVE  LastFine'
<1>1. /\ pc = "answered" /\ pc' = "idle"
      /\ last' = IF outcome \in {"listed", "found"}
                 THEN [tools |-> {ToolOf[v] : v \in ToSet(hits)},
                       kind |-> request.kind, request |-> request]
                 ELSE NoAnswer
      /\ UNCHANGED <<composed, status, toolset, rootAll, quiet>>
  BY DEF Answered, Goto, storeVars, tableVars
<1>2. CASE outcome \notin {"listed", "found"}
  <2>1. last'.kind = "none"
    BY <1>1, <1>2 DEF NoAnswer
  <2>2. QED
    BY <2>1 DEF LastFine
<1>3. CASE outcome \in {"listed", "found"}
  <2>1. /\ last'.tools = {ToolOf[v] : v \in ToSet(hits)}
        /\ last'.kind = request.kind /\ last'.request = request
    BY <1>1, <1>3
  <2>2. SUFFICES ASSUME quiet > 0, request.kind \in {"list", "search"},
                        NEW v \in ToSet(hits)
                 PROVE  /\ v \in Published
                        /\ ToolOf[v] \in Granted(request.scope)
                        /\ is_visible_to(Visibility[v], PrincipalOf(request.header))
                        /\ request.kind = "search" =>
                              ~Denies(PrincipalOf(request.header), v)
    <3>1. Published' = Published /\ \A s : Granted(s)' = Granted(s)
      BY <1>1 DEF Published, Granted
    <3>2. /\ \A h : PrincipalOf(h)' = PrincipalOf(h)
          /\ \A p, v : Denies(p, v)' <=> Denies(p, v)
      BY <1>1, RulesStay
    <3>3. LastIsCurrent' => quiet > 0
      BY <1>1 DEF LastIsCurrent
    <3>4. QED
      BY <2>1, <2>2, <3>1, <3>2, <3>3 DEF LastFine
  <2>3. ~Unconfined /\ SearchPrincipal = PrincipalOf(request.header)
    BY <2>2 DEF Unconfined, SearchPrincipal, Principal
  <2>4. /\ v \in watch.ever_published
        /\ is_visible_to(Visibility[v], PrincipalOf(request.header))
        /\ ToolOf[v] \in watch.ever_granted[request.scope]
        /\ request.kind = "search" => ~Denies(PrincipalOf(request.header), v)
    BY <1>1, <1>3, <2>2, <2>3 DEF NamedWasVisible, Answer
  <2>5. watch = Watch /\ request.scope \in Scopes
    BY <1>1, <2>2, AtWork DEF StoreInv, WatchFine
  <2>6. /\ watch.ever_published = Published
        /\ watch.ever_granted[request.scope] = Granted(request.scope)
    BY <2>5, WatchBegins DEF StoreInv
  <2>7. QED
    BY <2>4, <2>6
<1>4. QED
  BY <1>2, <1>3

\* What the client was last told of is so after every step.
LEMMA NextLast ==
    ASSUME StoreInv, RequestFine, NamedWasVisible, LastFine, [Next]_vars
    PROVE  LastFine'
<1>1. CASE Write
  <2>1. quiet' = 0
    BY <1>1, StoreKeeps DEF Write, StoreStep
  <2>2. QED
    BY <2>1 DEF LastFine, LastIsCurrent
<1>2. CASE Request
  <2>1. ASSUME NEW r \in Requests, Receive(r)
        PROVE  LastFine'
    <3>1. /\ pc = "idle" /\ pc' # "idle"
          /\ UNCHANGED <<composed, last, status, toolset, rootAll>>
          /\ quiet' = IF quiet < 2 THEN quiet + 1 ELSE quiet
      BY <2>1 DEF Receive, Fail, Goto, BeginReading, tableVars
    <3>2. quiet \in 0..2
      BY DEF StoreInv, StoreFine
    <3>3. LastIsCurrent' => LastIsCurrent
      BY <3>1, <3>2 DEF LastIsCurrent
    <3>4. QED
      BY <3>1, <3>3, LastStays
  <2>2. ASSUME HandlerStep
        PROVE  LastFine'
    <3>1. /\ pc # "idle" /\ pc' # "idle" /\ quiet' = quiet
          /\ UNCHANGED <<composed, last, status, toolset, rootAll>>
      BY <2>2, HandlerFrame DEF TablesStay
    <3>2. LastIsCurrent' => LastIsCurrent
      BY <3>1 DEF LastIsCurrent
    <3>3. QED
      BY <3>1, <3>2, LastStays
  <2>3. QED
    BY <1>2, <2>1, <2>2, AnsweredLast DEF Request, DiscoveryStep, HandlerStep
<1>3. CASE Query
  <2>1. last' = NoAnswer
    BY <1>3 DEF Query, RequestFine, discoveryVars
  <2>2. last'.kind = "none"
    BY <2>1 DEF NoAnswer
  <2>3. QED
    BY <2>2 DEF LastFine
<1>4. CASE UNCHANGED vars
  <2>1. /\ UNCHANGED <<composed, last, status, toolset, rootAll>>
        /\ pc' = pc /\ quiet' = quiet
    BY <1>4 DEF vars, storeVars, tableVars, discoveryVars, requestVars
  <2>2. LastIsCurrent' => LastIsCurrent
    BY <2>1 DEF LastIsCurrent
  <2>3. QED
    BY <2>1, <2>2, LastStays
<1>5. QED
  BY <1>1, <1>2, <1>3, <1>4 DEF Next

\* A version that the client of a call was just told of.
LEMMA JustNamed ==
    ASSUME StoreInv, RequestFine, LastFine, quiet = 2, pc # "idle",
           last.kind \in {"list", "search"}, request.tool \in last.tools,
           last.request.scope = request.scope,
           last.request.header = request.header
    PROVE  \E v \in Published :
               /\ ToolOf[v] = request.tool
               /\ request.tool \in Granted(request.scope)
               /\ is_visible_to(Visibility[v], Principal)
               /\ last.kind = "search" => ~Denies(Principal, v)
  BY DEF LastFine, LastIsCurrent, Principal

\* No handler denies what the client was just told of.
LEMMA NextDenies ==
    ASSUME StoreInv, RequestFine, SearchFine, LastFine, ~DeniesNamed, [Next]_vars
    PROVE  ~DeniesNamed'
<1>1. CASE Write
  <2>1. quiet' = 0
    BY <1>1, StoreKeeps DEF Write, StoreStep
  <2>2. QED
    BY <2>1 DEF DeniesNamed
<1>2. CASE Query
  <2>1. pc' = "idle"
    BY <1>2 DEF Query, RequestFine, discoveryVars, requestVars
  <2>2. QED
    BY <2>1 DEF DeniesNamed
<1>3. CASE UNCHANGED vars
  BY <1>3 DEF vars, storeVars, discoveryVars, requestVars, DeniesNamed
<1>4. CASE Request
  <2>1. SUFFICES ASSUME DeniesNamed' PROVE FALSE
    OBVIOUS
  <2>2. pc' = "deny"
    BY <2>1 DEF DeniesNamed
  <2>3. ReadToolsets \/ ReadPublished
    BY <1>4, <2>2
    DEF Request, Receive, DiscoveryStep, RecordDenial, StartSearch, ReadLexical,
        EmbedQuery, ReadCoverage, ReadCandidates, FinishSearch, DecideElicited,
        Resolve, RequestApproval, RefusePlan, Plan, StatementFails, Answered,
        Fail, Goto
  <2>4. HandlerStep
    BY <2>3 DEF HandlerStep
  <2>5. pc # "idle" /\ quiet' = quiet /\ request' = request /\ last' = last
    BY <2>4, HandlerFrame DEF TablesStay
  <2>6. PICK v \in Published : /\ ToolOf[v] = request.tool
                               /\ request.tool \in Granted(request.scope)
                               /\ is_visible_to(Visibility[v], Principal)
    BY <2>1, <2>5, JustNamed DEF DeniesNamed
  <2>7. request.kind = "call" /\ quiet = 2 /\ request.scope \in Scopes
    BY <2>1, <2>5, AtWork DEF DeniesNamed
  <2>8. CASE ReadToolsets
    <3>1. request.scope = "toolset" /\ ScopedOutcome # "none"
      BY <2>2, <2>8 DEF ReadToolsets, Goto
    <3>2. toolset.status = "active" /\ toolset.granted
      BY <3>1, <2>6 DEF Granted
    <3>3. QED
      BY <3>1, <3>2 DEF ScopedOutcome
  <2>9. CASE ReadPublished
    <3>1. pc = "published"
      BY <2>9 DEF ReadPublished
    <3>2. watch = Watch
      BY <2>7 DEF StoreInv, WatchFine
    <3>3. watch.granted[request.scope] = Granted(request.scope)
      BY <2>7, <3>2, WatchBegins DEF StoreInv
    <3>4. request.tool \in seen.allowed
      BY <2>6, <3>1, <3>3 DEF SearchFine
    <3>5. v \in Eligible(seen.allowed)
      BY <2>6, <3>4 DEF Eligible
    <3>6. \A U : require_business_tool(Eligible(seen.allowed), U, request.tool) = "none"
      BY <2>6, <3>5 DEF require_business_tool
    <3>7. pc' = "approval"
      BY <2>7, <2>9, <3>6 DEF ReadPublished, Goto
    <3>8. QED
      BY <2>2, <3>7
  <2>10. QED
    BY <2>3, <2>8, <2>9
<1>5. QED
  BY <1>1, <1>2, <1>3, <1>4 DEF Next

-----------------------------------------------------------------------------
(***************************************************************************)
(* Answers                                                                 *)
(***************************************************************************)
\* What the runs check of an answer.
Sound == AnswersAreSound /\ CallsAreGoverned

\* The outcomes that a property of a call speaks of, but for a denial.
Decisive == {"planned", "input_required", "approval_required",
             "approval_rejected", "tool_not_found", "tool_not_visible",
             "authorization_failed"}

\* Before the answer nothing is claimed of it.
LEMMA NotAnswered ==
    ASSUME pc' # "answered"
    PROVE  Sound'
  BY DEF Sound, AnswersAreSound, CallsAreGoverned, NamedWasVisible,
         AnswerNamesToolOnce, ShortAnswerIsWhole, HybridFailsOnlyInRace,
         NamedIsCallable, DenialStands, PlannedIsAllowed, PlannedWasOnOffer,
         CredentialUnambiguous, DeclinedNeverPlanned, Answer

\* An answer that names nothing is sound, if it is no failed search.
LEMMA PlainAnswer ==
    ASSUME hits' = <<>>, outcome' \notin {"listed", "found"}, HybridFailsOnlyInRace'
    PROVE  AnswersAreSound'
<1>1. Len(hits') = 0
  OBVIOUS
<1>2. AnswerNamesToolOnce'
  BY <1>1 DEF AnswerNamesToolOnce
<1>3. QED
  BY <1>2 DEF AnswersAreSound, NamedWasVisible, ShortAnswerIsWhole

\* An answer that neither denies nor plans is one that no rule of a call is
\* about.
LEMMA QuietAnswer ==
    ASSUME serial' \notin denials', ~lost', outcome' \notin Decisive,
           outcome' \in ScopeErrors => request'.kind \notin {"search", "call"}
    PROVE  CallsAreGoverned'
<1>1. NamedIsCallable'
  BY DEF NamedIsCallable, Decisive
<1>2. DenialStands'
  BY DEF DenialStands
<1>3. /\ PlannedIsAllowed' /\ PlannedWasOnOffer' /\ CredentialUnambiguous'
      /\ DeclinedNeverPlanned'
  BY DEF PlannedIsAllowed, PlannedWasOnOffer, CredentialUnambiguous,
         DeclinedNeverPlanned, Decisive
<1>4. QED
  BY <1>1, <1>2, <1>3 DEF CallsAreGoverned

\* The searches that do not fail, or fail by a fault.
LEMMA NotRaced ==
    ASSUME \/ outcome' \notin {"internal_error", "search_mode_unavailable"}
           \/ request'.kind \notin {"search", "lab"}
           \/ outcome' = "internal_error" /\ seen'.faulted
    PROVE  HybridFailsOnlyInRace'
  BY DEF HybridFailsOnlyInRace

\* A handler that ends with nothing to tell.
LEMMA EndsPlainly ==
    ASSUME RequestFine, pc \notin {"idle", "answered"}, Going, hits' = hits,
           outcome' \notin Decisive, outcome' \notin {"listed", "found"},
           outcome' \in ScopeErrors => request.kind \notin {"search", "call"},
           HybridFailsOnlyInRace'
    PROVE  Sound'
<1>1. hits' = <<>>
  BY DEF RequestFine
<1>2. serial' \notin denials' /\ ~lost' /\ request' = request
  BY DEF RequestFine, Going
<1>3. QED
  BY <1>1, <1>2, PlainAnswer, QuietAnswer DEF Sound

\* A request that is refused at once.
LEMMA ReceiveSound ==
    ASSUME RequestFine, NEW r \in Requests, Receive(r)
    PROVE  Sound'
<1>1. CASE pc' # "answered"
  BY <1>1, NotAnswered
<1>2. CASE pc' = "answered"
  <2>1. /\ hits' = <<>> /\ ~lost' /\ serial' = serial + 1 /\ denials' = denials
    BY DEF Receive
  <2>2. outcome' \in {"unsupported_protocol", "authentication_failed"}
    BY <1>2 DEF Receive, Fail, Goto
  <2>3. serial \in Nat /\ denials \subseteq 1..serial
    BY DEF RequestFine
  <2>4. serial' \notin denials'
    BY <2>1, <2>3
  <2>5. outcome' \notin Decisive /\ outcome' \notin ScopeErrors
    BY <2>2 DEF Decisive, ScopeErrors
  <2>6. HybridFailsOnlyInRace'
    BY <2>2, NotRaced
  <2>7. QED
    BY <2>1, <2>2, <2>4, <2>5, <2>6, PlainAnswer, QuietAnswer DEF Sound
<1>3. QED
  BY <1>1, <1>2

\* A list of a toolset that the caller has not is refused.
LEMMA ReadToolsetsSound ==
    ASSUME RequestFine, ReadToolsets
    PROVE  Sound'
<1>1. CASE pc' # "answered"
  BY <1>1, NotAnswered
<1>2. CASE pc' = "answered"
  <2>1. pc = "toolsets" /\ Going /\ hits' = hits
    BY HandlingGoes DEF ReadToolsets
  <2>2. /\ ScopedOutcome # "none" /\ outcome' = ScopedOutcome
        /\ ~(request.kind \in {"search", "call"} /\ ScopedOutcome \in ScopeErrors)
    BY <1>2 DEF ReadToolsets, Denied, Goto
  <2>3. ScopedOutcome \in ScopeErrors
    BY <2>2 DEF ScopedOutcome, ScopeErrors
  <2>4. outcome' \notin Decisive /\ outcome' \notin {"listed", "found"}
    BY <2>2, <2>3 DEF Decisive, ScopeErrors
  <2>5. HybridFailsOnlyInRace'
    BY <2>2, <2>3, NotRaced DEF ScopeErrors
  <2>6. QED
    BY <2>1, <2>2, <2>3, <2>4, <2>5, EndsPlainly
<1>3. QED
  BY <1>1, <1>2

\* A list names what was on offer.
LEMMA ReadPublishedSound ==
    ASSUME StoreInv, RequestFine, SearchFine, ReadPublished
    PROVE  Sound'
<1>1. CASE pc' # "answered"
  BY <1>1, NotAnswered
<1>2. CASE pc' = "answered"
  <2>1. /\ pc = "published" /\ Going /\ TablesStay
    BY HandlingGoes DEF ReadPublished
  <2>2. \A U : require_business_tool(Eligible(seen.allowed), U, request.tool)
                   \in ScopeErrors \union {"none"}
    BY DEF require_business_tool, ScopeErrors
  <2>3. /\ request.kind = "list" /\ outcome' = "listed"
        /\ hits' \in ListNames(Eligible(seen.allowed))
    BY <1>2, <2>2 DEF ReadPublished, Denied, Goto, ScopeErrors
  <2>4. /\ hits' \in Seq(Versions) /\ IsInjective(hits')
        /\ ToSet(hits') \subseteq Eligible(seen.allowed)
    BY <2>3, ListedFine
  <2>5. /\ ~Unconfined /\ Eligible(seen.allowed) \subseteq Offered
    BY <2>1, EligibleBounds
  <2>6. OnePerTool(ToSet(hits'))
    BY <2>4, EligibleVersions DEF StoreInv, StoreFine, OnePerTool
  <2>7. /\ Offered' = Offered /\ (Unconfined' <=> Unconfined)
        /\ SearchPrincipal' = SearchPrincipal /\ watch' = watch
        /\ request' = request
    BY <2>1, FrameOfSearch
  <2>8. NamedWasVisible'
    BY <2>3, <2>4, <2>5, <2>7 DEF NamedWasVisible, Offered
  <2>9. AnswerNamesToolOnce'
    <3>1. \A i, j \in 1..Len(hits') :
              i # j => hits'[i] # hits'[j] /\ ToolOf[hits'[i]] # ToolOf[hits'[j]]
      BY <2>4, <2>6 DEF IsInjective, ToSet, OnePerTool
    <3>2. QED
      BY <3>1 DEF AnswerNamesToolOnce
  <2>10. ShortAnswerIsWhole' /\ HybridFailsOnlyInRace'
    BY <2>3, NotRaced DEF ShortAnswerIsWhole
  <2>11. CallsAreGoverned'
    <3>1. serial' \notin denials' /\ ~lost'
      BY <2>1 DEF RequestFine, Going
    <3>2. outcome' \notin Decisive /\ outcome' \notin ScopeErrors
      BY <2>3 DEF Decisive, ScopeErrors
    <3>3. QED
      BY <3>1, <3>2, QuietAnswer
  <2>12. QED
    BY <2>8, <2>9, <2>10, <2>11 DEF Sound, AnswersAreSound
<1>3. QED
  BY <1>1, <1>2

\* A denial is answered, with its audit event or without.
LEMMA RecordDenialSound ==
    ASSUME RequestFine, ~DeniesNamed, RecordDenial
    PROVE  Sound'
<1>1. /\ pc = "deny" /\ hits' = hits /\ outcome' = outcome
      /\ request' = request /\ serial' = serial /\ last' = last /\ quiet' = quiet
      /\ serial' \in denials' \/ lost'
  BY DEF RecordDenial, AuditFailed, storeVars
<1>2. outcome' \in ScopeErrors /\ request'.kind \in {"search", "call"} /\ hits' = <<>>
  BY <1>1 DEF RequestFine
<1>3. AnswersAreSound'
  BY <1>2, PlainAnswer, NotRaced DEF ScopeErrors
<1>4. outcome' \notin Decisive
  BY <1>2 DEF ScopeErrors, Decisive
<1>5. NamedIsCallable'
  BY <1>1, <1>2 DEF NamedIsCallable, DeniesNamed
<1>6. DenialStands'
  BY <1>1, <1>2 DEF DenialStands
<1>7. /\ PlannedIsAllowed' /\ PlannedWasOnOffer' /\ CredentialUnambiguous'
      /\ DeclinedNeverPlanned'
  BY <1>4 DEF PlannedIsAllowed, PlannedWasOnOffer, CredentialUnambiguous,
              DeclinedNeverPlanned, Decisive
<1>8. QED
  BY <1>3, <1>5, <1>6, <1>7 DEF Sound, CallsAreGoverned

\* A statement that fails is a fault.
LEMMA StatementFailsSound ==
    ASSUME RequestFine, StatementFails
    PROVE  Sound'
<1>1. /\ pc \notin {"idle", "answered"} /\ Going /\ hits' = hits
      /\ outcome' = "internal_error" /\ seen' = [seen EXCEPT !.faulted = TRUE]
  BY HandlingGoes DEF StatementFails, Fail
<1>2. seen \in Sightings
  BY DEF RequestFine
<1>3. seen'.faulted
  BY <1>1, <1>2 DEF Sightings
<1>4. HybridFailsOnlyInRace'
  BY <1>1, <1>3, NotRaced
<1>5. QED
  BY <1>1, <1>4, EndsPlainly DEF Decisive, ScopeErrors

\* A search that does not begin.
LEMMA StartSearchSound ==
    ASSUME RequestFine, StartSearch
    PROVE  Sound'
<1>1. CASE pc' # "answered"
  BY <1>1, NotAnswered
<1>2. CASE pc' = "answered"
  <2>1. /\ pc = "search" /\ Going /\ hits' = hits
        /\ \/ outcome' = "invalid_arguments"
           \/ outcome' = "search_mode_unavailable" /\ ~composed.hybrid
    BY <1>2, HandlingGoes DEF StartSearch, Fail, Goto
  <2>2. HybridFailsOnlyInRace'
    BY <2>1 DEF HybridFailsOnlyInRace, Going
  <2>3. QED
    BY <2>1, <2>2, EndsPlainly DEF Decisive, ScopeErrors
<1>3. QED
  BY <1>1, <1>2

\* A text that cannot be embedded.
LEMMA EmbedQuerySound ==
    ASSUME RequestFine, EmbedQuery
    PROVE  Sound'
<1>1. /\ pc = "searching" /\ Going /\ hits' = hits
      /\ pc' = pc \/ outcome' = "embedding_failed"
  BY HandlingGoes DEF EmbedQuery, Fail
<1>2. CASE pc' = pc
  BY <1>1, <1>2, NotAnswered
<1>3. CASE outcome' = "embedding_failed"
  <2>1. HybridFailsOnlyInRace'
    BY <1>3, NotRaced
  <2>2. QED
    BY <1>1, <1>3, <2>1, EndsPlainly DEF Decisive, ScopeErrors
<1>4. QED
  BY <1>1, <1>2, <1>3

\* A vector search that fails by itself: more is found than was counted only
\* when a transaction came between, and no index means that nothing on offer
\* was indexed.
LEMMA ReadCandidatesSound ==
    ASSUME StoreInv, RequestFine, SearchFine, ReadCandidates
    PROVE  Sound'
<1> DEFINE S == InSearchScope \intersect embedded
           found == Candidates(VectorOrder, S)
<1>1. /\ pc = "searching" /\ seen.vector_at = "candidates" /\ Going /\ TablesStay
      /\ hits' = hits
      /\ \/ pc' = pc
         \/ outcome' = "internal_error" /\ Len(found) > seen.indexed
         \/ outcome' = "search_mode_unavailable" /\ seen.indexed = 0
  BY HandlingGoes DEF ReadCandidates, Fail
<1>2. CASE pc' = pc
  BY <1>1, <1>2, NotAnswered
<1>3. CASE pc' # pc
  <2>1. Confined /\ Searching
    BY <1>1, SearchFacts
  <2>2. Counted
    BY <2>1 DEF Searching
  <2>3. IsFiniteSet(S) /\ Indexed(InSearchScope) = Cardinality(S)
    BY ScopeVersions DEF Indexed
  <2>4. S \in SUBSET InSearchScope
    OBVIOUS
  <2> HIDE DEF S
  <2>5. /\ found \in Seq(Versions) /\ IsInjective(found) /\ ToSet(found) \subseteq S
    BY <1>1, LimitIsNumber, CandidatesFine, OrderAssumption
  <2> HIDE DEF found
  <2>6. Len(found) <= Cardinality(S)
    BY <2>3, <2>5, InjectiveCounts, FS_Subset
  <2>7. Len(found) \in Nat /\ Cardinality(S) \in Nat /\ seen.indexed \in Nat
    <3>1. Len(found) \in Nat /\ Cardinality(S) \in Nat
      BY <2>3, <2>5, FS_CardinalityType
    <3>2. seen \in Sightings
      BY DEF RequestFine
    <3>3. QED
      BY <3>1, <3>2 DEF Sightings
  <2>8. quiet \in 0..2
    BY DEF StoreInv, StoreFine
  <2>9. CASE outcome' = "internal_error" /\ Len(found) > seen.indexed
    <3>1. quiet = 0
      BY <1>1, <2>2, <2>3, <2>6, <2>7, <2>8, <2>9 DEF Counted
    <3>2. quiet' = 0
      BY <1>1, <3>1 DEF TablesStay
    <3>3. HybridFailsOnlyInRace'
      BY <2>9, <3>2 DEF HybridFailsOnlyInRace
    <3>4. QED
      BY <1>1, <2>9, <3>3, EndsPlainly DEF Decisive, ScopeErrors
  <2>10. CASE outcome' = "search_mode_unavailable" /\ seen.indexed = 0
    <3>1. Steady \intersect watch.embedded = {}
      BY <1>1, <2>2, <2>10 DEF Counted
    <3>2. Steady' = Steady /\ watch' = watch
      BY <1>1, FrameOfSearch
    <3>3. HybridFailsOnlyInRace'
      BY <2>10, <3>1, <3>2 DEF HybridFailsOnlyInRace
    <3>4. QED
      BY <1>1, <2>10, <3>3, EndsPlainly DEF Decisive, ScopeErrors
  <2>11. QED
    BY <1>1, <1>3, <2>9, <2>10
<1>4. QED
  BY <1>2, <1>3

\* What is found, before the policy: within what was on offer, no version
\* twice, no tool twice but in a race, and whole when it is short.
LEMMA FoundIsSound ==
    ASSUME StoreInv, RequestFine, SearchFine, pc = "searching",
           seen.lexical_read, seen.vector_at = "read",
           NEW found \in IF request.mode = "hybrid" THEN fuse ELSE {seen.lexical}
    PROVE  /\ found \in Seq(Versions) /\ IsInjective(found)
           /\ ToSet(found) \subseteq Offered
           /\ \A v \in ToSet(found) : ToolOf[v] \in Searchable
           /\ (request.mode # "hybrid" \/ quiet > 0) => OnePerTool(ToSet(found))
           /\ Len(found) < SearchLimit =>
                 \A v \in Steady :
                     \/ v \in ToSet(LexicalOrder)
                     \/ request.mode = "hybrid" /\ v \in watch.embedded
                     => v \in ToSet(found)
<1>1. Searching /\ seen \in Sightings /\ SearchLimit \in Nat
  BY SearchFacts, AtWork, LimitIsNumber
<1>2. seen.lexical \in Seq(Versions) /\ seen.vector \in Seq(Versions)
  BY <1>1 DEF Sightings
<1>3. /\ IsInjective(seen.lexical) /\ IsInjective(seen.vector)
      /\ Fusible \subseteq Offered
      /\ \A v \in Fusible : ToolOf[v] \in Searchable
      /\ OnePerTool(ToSet(seen.lexical))
  BY <1>1 DEF Searching, Ranked, Fusible
<1>4. CASE request.mode # "hybrid"
  <2>1. found = seen.lexical /\ ToSet(found) \subseteq Fusible
    BY <1>4 DEF Fusible
  <2>2. QED
    BY <1>1, <1>2, <1>3, <1>4, <2>1 DEF Searching, LexicalWhole
<1>5. CASE request.mode = "hybrid"
  <2>1. found \in fuse
    BY <1>5
  <2>2. /\ found \in Seq(Versions) /\ IsInjective(found)
        /\ ToSet(found) \subseteq Fusible /\ IsFiniteSet(Fusible)
        /\ Len(found) < SearchLimit =>
              ToSet(found) = Fusible /\ Len(found) = Cardinality(Fusible)
    BY <1>1, <2>1, FuseFine
  <2>3. ASSUME quiet > 0
        PROVE  OnePerTool(ToSet(found))
    <3>1. watch = Watch
      BY <2>3 DEF StoreInv, WatchFine
    <3>2. watch.ever_published = Published
      BY <3>1, WatchBegins DEF StoreInv
    <3>3. ToSet(found) \subseteq Published
      BY <1>3, <2>2, <3>2 DEF Offered
    <3>4. QED
      BY <3>3 DEF StoreInv, StoreFine, OnePerTool
  <2>4. ASSUME Len(found) < SearchLimit, NEW v \in Steady,
               v \in ToSet(LexicalOrder) \/ v \in watch.embedded
        PROVE  v \in ToSet(found)
    <3>1. ToSet(found) = Fusible /\ Len(found) = Cardinality(Fusible)
      BY <2>2, <2>4
    <3>2. /\ Cardinality(ToSet(seen.lexical)) = Len(seen.lexical)
          /\ Cardinality(ToSet(seen.vector)) = Len(seen.vector)
      BY <1>2, <1>3, InjectiveCounts
    <3>3. ToSet(seen.lexical) \subseteq Fusible /\ ToSet(seen.vector) \subseteq Fusible
      BY DEF Fusible
    <3>4. /\ Cardinality(ToSet(seen.lexical)) <= Cardinality(Fusible)
          /\ Cardinality(ToSet(seen.vector)) <= Cardinality(Fusible)
      BY <2>2, <3>3, FS_Subset
    <3>5. /\ Len(seen.lexical) \in Nat /\ Len(seen.vector) \in Nat
          /\ Len(found) \in Nat
      BY <1>2, <2>2
    <3>6. Len(seen.lexical) < SearchLimit /\ Len(seen.vector) < SearchLimit
      BY <1>1, <2>4, <3>1, <3>2, <3>4, <3>5
    <3>7. /\ Steady \intersect ToSet(LexicalOrder) \subseteq ToSet(seen.lexical)
          /\ Steady \intersect watch.embedded \subseteq ToSet(seen.vector)
      BY <1>1, <1>5, <3>6 DEF Searching, LexicalWhole, VectorWhole
    <3>8. QED
      BY <2>4, <3>1, <3>3, <3>7
  <2>5. QED
    BY <1>3, <1>5, <2>2, <2>3, <2>4
<1>6. QED
  BY <1>4, <1>5

\* A search names what was on offer, once, and leaves nothing out that it
\* does not admit.
LEMMA FinishSearchSound ==
    ASSUME StoreInv, RequestFine, SearchFine, FinishSearch
    PROVE  Sound'
<1>1. /\ pc = "searching" /\ seen.lexical_read /\ seen.vector_at = "read"
      /\ outcome' = "found" /\ Going /\ TablesStay
  BY HandlingGoes DEF FinishSearch
<1>2. PICK found \in IF request.mode = "hybrid" THEN fuse ELSE {seen.lexical} :
          /\ hits' = InAccess(Allowed(found))
          /\ seen' = [seen EXCEPT !.fetched = Len(found)]
  BY DEF FinishSearch
<1>3. /\ found \in Seq(Versions) /\ IsInjective(found)
      /\ ToSet(found) \subseteq Offered
      /\ \A v \in ToSet(found) : ToolOf[v] \in Searchable
      /\ (request.mode # "hybrid" \/ quiet > 0) => OnePerTool(ToSet(found))
      /\ Len(found) < SearchLimit =>
            \A v \in Steady :
                \/ v \in ToSet(LexicalOrder)
                \/ request.mode = "hybrid" /\ v \in watch.embedded
                => v \in ToSet(found)
  BY <1>1, FoundIsSound
<1>4. /\ request.limit \in Nat /\ seen \in Sightings
      /\ request.kind \in {"search", "lab", "catalog"}
  BY <1>1, AtWork DEF RequestFine
<1>5. /\ hits' \in Seq(Versions) /\ IsInjective(hits')
      /\ ToSet(hits') \subseteq ToSet(found) \intersect Passed
      /\ Len(hits') < request.limit =>
            ToSet(found) \intersect Passed \subseteq ToSet(hits')
  BY <1>2, <1>3, <1>4, HitsFine
<1>6. seen'.fetched = Len(found)
  BY <1>2, <1>4 DEF Sightings
<1>7. /\ Steady' = Steady /\ Offered' = Offered /\ (Unconfined' <=> Unconfined)
      /\ SearchPrincipal' = SearchPrincipal /\ SearchLimit' = SearchLimit
      /\ watch' = watch /\ quiet' = quiet /\ request' = request
      /\ composed' = composed
  BY <1>1, FrameOfSearch
<1>8. \A p, v : Denies(p, v)' <=> Denies(p, v)
  BY <1>7, RulesStay
<1>9. \A v \in Versions :
          v \in Passed <=> (request.kind = "catalog" \/ ~Denies(SearchPrincipal, v))
  BY DEF Passed, Permitted, Denies
<1>10. ToSet(hits') \subseteq Versions /\ Steady \subseteq Versions
  <2>1. ToSet(hits') \subseteq Versions
    BY <1>5 DEF ToSet
  <2>2. Steady \subseteq Versions
    BY DEF Steady, StoreInv, WatchFine, Watches
  <2>3. QED
    BY <2>1, <2>2
<1>11. NamedWasVisible'
  <2>1. SUFFICES ASSUME NEW v \in ToSet(hits')
                 PROVE  /\ v \in watch.ever_published
                        /\ is_visible_to(Visibility[v], SearchPrincipal)
                        /\ ~Unconfined =>
                              ToolOf[v] \in watch.ever_granted[request.scope]
                        /\ request.kind \in {"search", "lab"} =>
                              ~Denies(SearchPrincipal, v)
    BY <1>7, <1>8 DEF NamedWasVisible
  <2>2. v \in Offered /\ v \in Passed /\ v \in Versions
    BY <1>3, <1>5, <1>10
  <2>3. QED
    BY <1>9, <2>2 DEF Offered
<1>12. AnswerNamesToolOnce'
  <2>1. SUFFICES ASSUME NEW i \in 1..Len(hits'), NEW j \in 1..Len(hits'), i # j
                 PROVE  /\ hits'[i] # hits'[j]
                        /\ ToolOf[hits'[i]] = ToolOf[hits'[j]] =>
                              request.mode = "hybrid" /\ quiet = 0
    BY <1>7 DEF AnswerNamesToolOnce
  <2>2. hits'[i] # hits'[j] /\ hits'[i] \in ToSet(hits') /\ hits'[j] \in ToSet(hits')
    BY <1>5, <2>1 DEF IsInjective, ToSet
  <2>3. hits'[i] \in ToSet(found) /\ hits'[j] \in ToSet(found)
    BY <1>5, <2>2
  <2>4. ~OnePerTool(ToSet(found)) \/ ToolOf[hits'[i]] # ToolOf[hits'[j]]
    BY <2>2, <2>3 DEF OnePerTool
  <2>5. quiet \in 0..2
    BY DEF StoreInv, StoreFine
  <2>6. QED
    BY <1>3, <2>2, <2>4, <2>5
<1>13. ShortAnswerIsWhole'
  <2>1. SUFFICES ASSUME Len(hits') < request.limit, Len(found) < SearchLimit,
                        NEW v \in Steady,
                        request.kind = "catalog" \/ ~Denies(SearchPrincipal, v),
                        \/ v \in ToSet(LexicalOrder)
                        \/ request.mode = "hybrid" /\ v \in watch.embedded
                 PROVE  v \in ToSet(hits')
    BY <1>6, <1>7, <1>8 DEF ShortAnswerIsWhole
  <2>2. v \in ToSet(found) /\ v \in Passed
    BY <1>3, <1>9, <1>10, <2>1
  <2>3. QED
    BY <1>5, <2>1, <2>2
<1>14. HybridFailsOnlyInRace'
  BY <1>1, NotRaced
<1>15. CallsAreGoverned'
  <2>1. serial' \notin denials' /\ ~lost'
    BY <1>1 DEF RequestFine, Going
  <2>2. QED
    BY <1>1, <2>1, QuietAnswer DEF Decisive, ScopeErrors
<1>16. QED
  BY <1>11, <1>12, <1>13, <1>14, <1>15 DEF Sound, AnswersAreSound

\* A response that decides nothing.
LEMMA DecideElicitedSound ==
    ASSUME RequestFine, DecideElicited
    PROVE  Sound'
<1>1. /\ pc = "approval" /\ Going /\ hits' = hits
      /\ \/ pc' = "resolve"
         \/ outcome' \in {"approval_mismatch", "approval_not_found",
                          "approval_invalid_state"}
  BY DEF DecideElicited, Going, Fail, Goto
<1>2. CASE pc' = "resolve"
  BY <1>2, NotAnswered
<1>3. CASE outcome' \in {"approval_mismatch", "approval_not_found",
                         "approval_invalid_state"}
  <2>1. HybridFailsOnlyInRace'
    BY <1>3, NotRaced
  <2>2. QED
    BY <1>1, <1>3, <2>1, EndsPlainly DEF Decisive, ScopeErrors
<1>4. QED
  BY <1>1, <1>2, <1>3

\* A call answered with an outcome that no rule on plans is about.
LEMMA CallAnswer ==
    ASSUME RequestFine, pc \notin {"idle", "answered"}, Going, hits' = hits,
           request.kind = "call",
           outcome' \notin ScopeErrors \union {"listed", "found"},
           NamedIsCallable', PlannedIsAllowed', PlannedWasOnOffer',
           CredentialUnambiguous', DeclinedNeverPlanned'
    PROVE  Sound'
<1>1. hits' = <<>> /\ serial' \notin denials' /\ ~lost' /\ request' = request
  BY DEF RequestFine, Going
<1>2. HybridFailsOnlyInRace'
  BY <1>1, NotRaced
<1>3. DenialStands'
  BY <1>1 DEF DenialStands
<1>4. QED
  BY <1>1, <1>2, <1>3, PlainAnswer DEF Sound, CallsAreGoverned

\* A name that is not resolved is not one that the client was just told of.
LEMMA ResolveSound ==
    ASSUME StoreInv, RequestFine, LastFine, Resolve
    PROVE  Sound'
<1>1. /\ pc = "resolve" /\ Going /\ TablesStay /\ hits' = hits
      /\ (\E v \in Versions : Resolved(v)) \/ Unresolved
  BY ResolveCases, HandlingGoes
<1>2. CASE \E v \in Versions : Resolved(v)
  <2>1. pc' # "answered"
    BY <1>2 DEF Resolved
  <2>2. QED
    BY <2>1, NotAnswered
<1>3. CASE Unresolved
  <2>1. request.kind = "call"
    BY <1>1 DEF RequestFine
  <2>2. outcome' \in {"invalid_arguments", "idempotency_key_required",
                      "tool_not_found", "tool_not_visible", "authorization_failed"}
    BY <1>3 DEF Unresolved
  <2>3. NamedIsCallable'
    <3>1. SUFFICES ASSUME quiet = 2, last.kind \in {"list", "search"},
                          request.tool \in last.tools, request.tool \in usable,
                          last.request.scope = request.scope,
                          last.request.header = request.header
                   PROVE  /\ outcome' \notin {"tool_not_found", "tool_not_visible"}
                          /\ last.kind = "search" => outcome' # "authorization_failed"
      <4>1. /\ quiet' = quiet /\ usable' = usable /\ request' = request
            /\ last' = last
        BY <1>1 DEF Going, TablesStay
      <4>2. outcome' \notin ScopeErrors
        BY <2>2 DEF ScopeErrors
      <4>3. QED
        BY <3>1, <4>1, <4>2 DEF NamedIsCallable
    <3>2. PICK v \in Published : /\ ToolOf[v] = request.tool
                                 /\ is_visible_to(Visibility[v], Principal)
                                 /\ last.kind = "search" => ~Denies(Principal, v)
      BY <1>1, <3>1, JustNamed
    <3>3. QED
      BY <1>3, <3>1, <3>2 DEF Unresolved
  <2>4. /\ PlannedIsAllowed' /\ PlannedWasOnOffer' /\ CredentialUnambiguous'
        /\ DeclinedNeverPlanned'
    BY <2>2 DEF PlannedIsAllowed, PlannedWasOnOffer, CredentialUnambiguous,
                DeclinedNeverPlanned
  <2>5. outcome' \notin ScopeErrors \union {"listed", "found"}
    BY <2>2 DEF ScopeErrors
  <2>6. QED
    BY <1>1, <2>1, <2>3, <2>4, <2>5, CallAnswer
<1>4. QED
  BY <1>1, <1>2, <1>3

\* An approval is asked for of a caller that has not declined.
LEMMA RequestApprovalSound ==
    ASSUME RequestFine, CallFine, RequestApproval
    PROVE  Sound'
<1>1. /\ pc = "request" /\ Going /\ hits' = hits
      /\ outcome' \in {"input_required", "approval_required"}
  BY DEF RequestApproval, Going
<1>2. request.kind = "call" /\ request' = request
  BY <1>1 DEF RequestFine, Going
<1>3. request.response # "decline"
  BY <1>1 DEF CallFine
<1>4. /\ NamedIsCallable' /\ PlannedIsAllowed' /\ PlannedWasOnOffer'
      /\ CredentialUnambiguous' /\ DeclinedNeverPlanned'
      /\ outcome' \notin ScopeErrors \union {"listed", "found"}
  BY <1>1, <1>2, <1>3 DEF NamedIsCallable, PlannedIsAllowed, PlannedWasOnOffer,
                          CredentialUnambiguous, DeclinedNeverPlanned, ScopeErrors
<1>5. QED
  BY <1>1, <1>2, <1>4, CallAnswer

\* A plan that something else refuses.
LEMMA RefusePlanSound ==
    ASSUME RequestFine, RefusePlan
    PROVE  Sound'
<1>1. /\ pc = "plan" /\ Going /\ hits' = hits
      /\ outcome' \in {"unsafe_upstream_endpoint", "idempotency_conflict"}
  BY HandlingGoes DEF RefusePlan, Fail
<1>2. HybridFailsOnlyInRace'
  BY <1>1, NotRaced
<1>3. QED
  BY <1>1, <1>2, EndsPlainly DEF Decisive, ScopeErrors

\* A plan that is refused says why.
LEMMA PlanRefusedSound ==
    ASSUME RequestFine, Plan, PlanRefused
    PROVE  Sound'
<1>1. /\ pc = "plan" /\ Going /\ hits' = hits /\ approval' = approval
      /\ \/ outcome' \in {"credential_binding_conflict",
                          "credential_binding_not_found", "internal_error"}
         \/ outcome' = Unconsumable /\ Unconsumable # "none"
  BY PlanCases DEF PlanRefused
<1>2. outcome' = "approval_rejected" => approval'.status = "rejected"
  BY <1>1 DEF Unconsumable
<1>3. outcome' \in {"credential_binding_conflict", "credential_binding_not_found",
                    "internal_error", "approval_not_found", "approval_pending",
                    "approval_rejected", "approval_already_consumed",
                    "approval_mismatch"}
  BY <1>1, UnconsumableOutcome
<1>4. request.kind = "call"
  BY <1>1 DEF RequestFine
<1>5. /\ NamedIsCallable' /\ PlannedIsAllowed' /\ PlannedWasOnOffer'
      /\ CredentialUnambiguous' /\ DeclinedNeverPlanned'
      /\ outcome' \notin ScopeErrors \union {"listed", "found"}
  BY <1>2, <1>3 DEF NamedIsCallable, PlannedIsAllowed, PlannedWasOnOffer,
                    CredentialUnambiguous, DeclinedNeverPlanned, ScopeErrors
<1>6. QED
  BY <1>1, <1>4, <1>5, CallAnswer

\* The rules allow a call that is planned.
LEMMA PlannedByRules ==
    ASSUME RequestFine, CallFine, Plan, PlanMade
    PROVE  PlannedIsAllowed'
<1>1. /\ pc = "plan" /\ Going /\ seen' = seen
  BY PlanCases
<1>2. PICK v \in Versions :
          /\ seen.version = {v}
          /\ seen.effect = evaluate(composed.evaluator, Principal, request.tool,
                                    SideEffect[v])
          /\ seen.effect # "deny"
  BY <1>1 DEF CallFine
<1>3. SUFFICES ASSUME composed.evaluator.kind = "rules"
               PROVE  PlannedIsAllowed'
  BY <1>1 DEF PlannedIsAllowed, Going
<1> DEFINE policies == composed.evaluator.policies
           rules == Applicable(policies, Principal, request.tool)
           outdone(p) == \E q \in rules :
                             \/ Specificity(q) > Specificity(p)
                             \/ /\ Specificity(q) = Specificity(p)
                                /\ q.priority > p.priority
<1>4. seen.effect = rule_based(policies, Principal, request.tool)
  BY <1>2, <1>3 DEF evaluate
<1>5. composed \in Compositions
  BY DEF RequestFine
<1>6. \A p \in policies : p.effect \in Effects
  BY <1>5, CompositionsAssumption DEF Effects
<1>7. /\ Finalists(policies, Principal, request.tool) # {}
      /\ \A p \in Finalists(policies, Principal, request.tool) :
            /\ p.effect # "deny"
            /\ p.effect = "require_approval" => seen.effect = "require_approval"
  BY <1>2, <1>4, <1>6, RuleBased
<1>8. \A p \in rules :
          ~outdone(p) => p \in Finalists(policies, Principal, request.tool)
  BY <1>5, UndoneIsFinalist
<1>9. rules # {}
  BY <1>7 DEF Finalists, MostSpecific
<1>10. seen.effect = "require_approval" =>
          approval'.status = "consumed" /\ approval'.version = seen.version
  <2>1. SUFFICES ASSUME seen.effect = "require_approval"
                 PROVE  approval'.status = "consumed" /\ approval'.version = seen.version
    OBVIOUS
  <2>2. Unconsumable = "none" /\ approval' = [approval EXCEPT !.status = "consumed"]
    BY <2>1 DEF PlanMade
  <2>3. approval.status # "none" /\ approval.version = seen.version
    BY <2>2 DEF Unconsumable
  <2>4. approval # NoApproval
    BY <2>3 DEF NoApproval
  <2>5. ApprovalFine
    BY CallParts
  <2>6. QED
    BY <1>1, <2>2, <2>3, <2>4, <2>5, ApprovalDecided DEF Going
<1>11. Principal' = Principal /\ request' = request /\ composed' = composed
  BY <1>1 DEF Principal, PrincipalOf, Going
<1>12. \A p \in rules :
          /\ p.effect = "deny" => outdone(p)
          /\ p.effect = "require_approval" =>
                outdone(p) \/ (approval'.status = "consumed"
                               /\ approval'.version = seen.version)
  BY <1>7, <1>8, <1>10
<1>13. QED
  BY <1>1, <1>9, <1>11, <1>12 DEF PlannedIsAllowed

\* The credential of a call that is planned is the only one that fits best.
LEMMA PlannedWithCredential ==
    ASSUME RequestFine, Plan, PlanMade
    PROVE  CredentialUnambiguous'
<1>1. Going
  BY PlanCases
<1>2. Principal' = Principal /\ request' = request /\ composed' = composed
  BY <1>1 DEF Principal, PrincipalOf, Going
<1>3. SUFFICES ASSUME composed.auth_scheme # "none"
               PROVE  /\ planned' \in composed.bindings
                      /\ planned'.upstream = request.tool
                      /\ \A b \in Applicable(composed.bindings, Principal,
                                             request.tool) :
                            b.upstream = request.tool /\ b # planned' =>
                                Specificity(b) < Specificity(planned')
  BY <1>2 DEF CredentialUnambiguous
<1> DEFINE B == {b \in composed.bindings : b.upstream = request.tool}
           A == Applicable(B, Principal, request.tool)
           F == MostSpecific(A)
<1>4. planned' = SelectBinding(F) /\ planned' # NoBinding /\ planned' # Ambiguous
  BY <1>3 DEF PlanMade, Credential, resolve_binding
<1>5. IsFiniteSet(F)
  <2>1. IsFiniteSet(composed.bindings)
    BY CompositionsAssumption DEF RequestFine
  <2>2. F \subseteq composed.bindings
    BY DEF MostSpecific, Applicable
  <2>3. QED
    BY <2>1, <2>2, FS_Subset
<1> HIDE DEF F
<1>6. F = {planned'}
  BY <1>4, <1>5, Selected
<1>7. planned' \in A /\ \A q \in A : Specificity(q) <= Specificity(planned')
  BY <1>6 DEF F, MostSpecific
<1>8. planned' \in composed.bindings /\ planned'.upstream = request.tool
  BY <1>7 DEF Applicable
<1>9. ASSUME NEW b \in Applicable(composed.bindings, Principal, request.tool),
             b.upstream = request.tool, b # planned'
      PROVE  Specificity(b) < Specificity(planned')
  <2>1. b \in A
    BY <1>9 DEF Applicable
  <2>2. b \notin F
    BY <1>6, <1>9
  <2>3. PICK q \in A : ~(Specificity(q) <= Specificity(b))
    BY <2>1, <2>2 DEF F, MostSpecific
  <2>4. \A r : Specificity(r) \in Nat
    BY DEF Specificity
  <2>5. QED
    BY <1>7, <2>3, <2>4
<1>10. QED
  BY <1>8, <1>9

\* A call that was declined is not planned.
LEMMA DeclinedNotPlanned ==
    ASSUME RequestFine, CallFine, Plan, PlanMade
    PROVE  DeclinedNeverPlanned'
<1>1. /\ pc = "plan" /\ Going
  BY PlanCases
<1>2. Principal' = Principal /\ request' = request
  BY <1>1 DEF Principal, PrincipalOf, Going
<1>3. SUFFICES ASSUME request.response = "decline",
                      approval'.status # "none" => approval'.principal = Principal
               PROVE  FALSE
  BY <1>2 DEF DeclinedNeverPlanned
<1>4. ApprovalFine /\ Resumed /\ Declined
  BY <1>1, CallParts
<1>5. PICK v \in Versions :
          /\ seen.version = {v} /\ ToolOf[v] = request.tool
          /\ seen.effect = evaluate(composed.evaluator, Principal, request.tool,
                                    SideEffect[v])
  BY <1>1 DEF CallFine
<1>6. ~AllAbsent
  BY <1>5 DEF PlanMade, AllAbsent
<1>7. /\ request.resume /\ approval.status = "rejected"
      /\ approval # NoApproval /\ approval.tool = request.tool
  BY <1>3, <1>4, <1>6 DEF Resumed, Declined
<1>8. seen.effect # "require_approval" /\ approval' = approval
  BY <1>7 DEF PlanMade, Unconsumable
<1>9. AsksApproval(Principal, request.tool)
  BY <1>3, <1>4, <1>7, <1>8 DEF ApprovalFine
<1>10. composed \in Compositions
  BY DEF RequestFine
<1>11. QED
  BY <1>5, <1>8, <1>9, <1>10, Evaluated

\* A call that is planned is of what was offered to its caller.
LEMMA PlannedFromOffer ==
    ASSUME CallFine, Plan
    PROVE  PlannedWasOnOffer'
<1>1. /\ pc = "plan" /\ seen' = seen /\ request' = request /\ watch' = watch
      /\ quiet' = quiet /\ usable' = usable
  BY DEF Plan
<1>2. OnOffer /\ Gated
  BY CallParts
<1>3. QED
  BY <1>1, <1>2 DEF OnOffer, Gated, PlannedWasOnOffer

\* A plan obeys the rules, the credentials and the caller.
LEMMA PlanSound ==
    ASSUME RequestFine, CallFine, Plan
    PROVE  Sound'
<1>1. pc = "plan" /\ Going /\ hits' = hits /\ (PlanRefused \/ PlanMade)
  BY PlanCases
<1>2. CASE PlanRefused
  BY <1>2, PlanRefusedSound
<1>3. CASE PlanMade
  <2>1. outcome' = "planned"
    BY <1>3 DEF PlanMade
  <2>2. NamedIsCallable' /\ outcome' \notin ScopeErrors \union {"listed", "found"}
    BY <2>1 DEF NamedIsCallable, ScopeErrors
  <2>3. request.kind = "call"
    BY <1>1 DEF RequestFine
  <2>4. QED
    BY <1>1, <1>3, <2>2, <2>3, PlannedByRules, PlannedWithCredential,
       PlannedFromOffer, DeclinedNotPlanned, CallAnswer
<1>4. QED
  BY <1>1, <1>2, <1>3

\* Every answer is sound when it is given, and until the client has it.
LEMMA NextSound ==
    ASSUME StoreInv, RequestFine, SearchFine, CallFine, LastFine, ~DeniesNamed,
           Sound, [Next]_vars
    PROVE  Sound'
<1>1. CASE Write
  <2>1. pc' # "answered"
    BY <1>1 DEF Write, discoveryVars, requestVars
  <2>2. QED
    BY <2>1, NotAnswered
<1>2. CASE Request
  <2>1. CASE ReadLexical \/ ReadCoverage \/ Answered
    <3>1. pc' # "answered"
      BY <2>1 DEF ReadLexical, ReadCoverage, Answered, Goto
    <3>2. QED
      BY <3>1, NotAnswered
  <2>2. QED
    BY <1>2, <2>1, ReceiveSound, ReadToolsetsSound, ReadPublishedSound,
       RecordDenialSound, StartSearchSound, EmbedQuerySound, ReadCandidatesSound,
       FinishSearchSound, DecideElicitedSound, ResolveSound, RequestApprovalSound,
       RefusePlanSound, PlanSound, StatementFailsSound
    DEF Request, DiscoveryStep
<1>3. CASE Query
  <2>1. pc' # "answered"
    BY <1>3 DEF Query, RequestFine, discoveryVars, requestVars
  <2>2. QED
    BY <2>1, NotAnswered
<1>4. CASE UNCHANGED vars
  <2>1. /\ UNCHANGED <<status, embedded, usable, toolset, rootAll, approval, quiet,
                       watch, composed, request, pc, seen, outcome, hits, planned,
                       serial, denials, lost, last>>
    BY <1>4 DEF vars, storeVars, tableVars, discoveryVars, requestVars
  <2>2. AnswersAreSound'
    BY <2>1 DEF Sound, AnswersAreSound, NamedWasVisible, AnswerNamesToolOnce,
                ShortAnswerIsWhole, HybridFailsOnlyInRace, Answer, Denies, Steady,
                SearchLimit, Unconfined, SearchPrincipal, Principal, PrincipalOf
  <2>3. CallsAreGoverned'
    BY <2>1 DEF Sound, CallsAreGoverned, NamedIsCallable, DenialStands,
                PlannedIsAllowed, PlannedWasOnOffer, CredentialUnambiguous,
                DeclinedNeverPlanned, Answer, Principal, PrincipalOf
  <2>4. QED
    BY <2>2, <2>3 DEF Sound
<1>5. QED
  BY <1>1, <1>2, <1>3, <1>4 DEF Next

-----------------------------------------------------------------------------
(***************************************************************************)
(* The theorems                                                            *)
(***************************************************************************)
\* No request is being answered to begin with.
LEMMA DiscoveryBegins ==
    ASSUME Init
    PROVE  /\ RequestFine /\ SearchFine /\ CallFine /\ LastFine /\ ~DeniesNamed
           /\ Sound
<1>1. /\ composed \in Compositions /\ request = NoRequest /\ pc = "idle"
      /\ seen = NothingSeen /\ outcome = "none" /\ hits = <<>> /\ serial = 0
      /\ denials = {} /\ lost = FALSE /\ last = NoAnswer /\ approval = NoApproval
  BY DEF Init, DiscoveryInit
<1>2. request.kind = "none" /\ last.kind = "none"
  BY <1>1 DEF NoRequest, NoAnswer
<1>3. RequestFine
  BY <1>1, <1>2, NothingIsSeen DEF RequestFine, Labels, Outcomes
<1>4. SearchFine
  BY <1>1 DEF SearchFine
<1>5. CallFine
  BY <1>1 DEF CallFine
<1>6. LastFine /\ ~DeniesNamed
  BY <1>1, <1>2 DEF LastFine, DeniesNamed
<1>7. Sound
  BY <1>1 DEF Sound, AnswersAreSound, CallsAreGoverned, NamedWasVisible,
              AnswerNamesToolOnce, ShortAnswerIsWhole, HybridFailsOnlyInRace,
              NamedIsCallable, DenialStands, PlannedIsAllowed,
              PlannedWasOnOffer, CredentialUnambiguous, DeclinedNeverPlanned, Answer
<1>8. QED
  BY <1>3, <1>4, <1>5, <1>6, <1>7

\* What a request rests on, together.
Answering ==
    /\ StoreInv /\ RequestFine /\ SearchFine /\ CallFine /\ LastFine
    /\ ~DeniesNamed /\ Sound

\* Every step keeps it.
LEMMA NextAnswering ==
    ASSUME Answering, [Next]_vars
    PROVE  Answering'
<1>1. /\ StoreInv /\ RequestFine /\ SearchFine /\ CallFine /\ LastFine
      /\ ~DeniesNamed /\ Sound /\ NamedWasVisible
  BY DEF Answering, Sound, AnswersAreSound
<1>2. StoreInv' /\ RequestFine' /\ SearchFine' /\ CallFine'
  BY <1>1, NextStore, NextRequest, NextSearch, NextCall
<1>3. LastFine' /\ ~DeniesNamed' /\ Sound'
  BY <1>1, NextLast, NextDenies, NextSound
<1>4. QED
  BY <1>2, <1>3 DEF Answering

\* The inductive invariant: the store and what a request could rely on of it,
\* where a handler is and what it has read, what the client was last told of,
\* and what a walk or a report has read (runtime.py, use_cases.py and
\* admin_queries.py, for all constants).
THEOREM IInvInvariant == Spec => []IInv
<1>1. Init => Answering /\ AdminInv
  BY StoreBegins, DiscoveryBegins, AdminBegins DEF Answering
<1>2. Answering /\ AdminInv /\ [Next]_vars => (Answering /\ AdminInv)'
  <2>1. Answering => StoreInv
    BY DEF Answering
  <2>2. QED
    BY <2>1, NextAnswering, NextAdmin
<1>3. Answering /\ AdminInv => IInv
  BY DEF Answering, AdminInv, StoreInv, IInv
<1>4. QED
  BY <1>1, <1>2, <1>3, PTL DEF Spec

\* At most one version of a tool is published.
LEMMA OneIsCounted ==
    ASSUME StoreFine, NEW t \in Tools
    PROVE  Cardinality({v \in Published : ToolOf[v] = t}) <= 1
<1> DEFINE S == {v \in Published : ToolOf[v] = t}
<1>1. \A v, w \in S : v = w
  BY DEF StoreFine, OnePerTool
<1> HIDE DEF S
<1>2. S = {} => Cardinality(S) <= 1
  BY FS_EmptySet
<1>3. ASSUME S # {}
      PROVE  Cardinality(S) <= 1
  <2>1. PICK v \in S : TRUE
    BY <1>3
  <2>2. S = {v}
    BY <1>1, <2>1
  <2>3. QED
    BY <2>2, FS_Singleton
<1>4. QED
  BY <1>2, <1>3 DEF S

\* The states of the inductive invariant have their types.
LEMMA FineIsTyped ==
    ASSUME IInv
    PROVE  TypeOK
<1>1. toolset \in Toolsets /\ rows \in RowTables
  BY DEF IInv, StoreFine
<1>2. /\ toolset.status \in ToolsetStatuses /\ toolset.members \subseteq Tools
      /\ toolset.granted \in BOOLEAN
  BY <1>1 DEF Toolsets
<1>3. DOMAIN rows \subseteq Rows
  BY <1>1 DEF RowTables
<1>4. approval.status \in {"none", "pending", "approved", "rejected", "consumed"}
  <2>1. approval = NoApproval \/ approval \in Approvals
    BY DEF IInv, CallFine
  <2>2. QED
    BY <2>1 DEF NoApproval, Approvals
<1>5. \A t \in Tools : Cardinality({v \in Published : ToolOf[v] = t}) <= 1
  BY OneIsCounted DEF IInv
<1>6. StoreTypeOK
  BY <1>2, <1>3, <1>4, <1>5 DEF IInv, StoreFine, StoreTypeOK
<1>7. ToSet(hits) \subseteq Versions
  BY DEF IInv, RequestFine, ToSet
<1>8. /\ outcome \in Outcomes
      /\ request.kind \in {"search", "lab", "catalog"} => Len(hits) <= request.limit
      /\ denials \subseteq 1..serial
  BY DEF IInv, RequestFine
<1>9. /\ collected \subseteq Rows
      /\ walk.kind = "walk" => Len(page.items) <= walk.query.limit
  BY DEF IInv, AdminFine
<1>10. QED
  BY <1>6, <1>7, <1>8, <1>9 DEF TypeOK

\* Every answer is one that the handlers give, no answer is longer than was
\* asked for, and a version is published for a tool at most once.
THEOREM TypeInvariant == Spec => []TypeOK
  BY IInvInvariant, FineIsTyped, PTL

\* A list or a search, put together from several snapshots, names only what
\* was on offer, names it once, leaves nothing out that it does not admit, and
\* fails by itself only in a race (runtime.py, search.py and fusion.py).
THEOREM AnswersInvariant == Spec => []AnswersAreSound
<1>1. Init => Answering
  BY StoreBegins, DiscoveryBegins DEF Answering
<1>2. Answering /\ [Next]_vars => Answering'
  BY NextAnswering
<1>3. Answering => AnswersAreSound
  BY DEF Answering, Sound
<1>4. QED
  BY <1>1, <1>2, <1>3, PTL DEF Spec

\* What was named can be called, and scope, rules, credentials and the
\* caller's own decision are each decisive for a call (runtime.py and the
\* CallTool of use_cases.py).
THEOREM CallsInvariant == Spec => []CallsAreGoverned
<1>1. Init => Answering
  BY StoreBegins, DiscoveryBegins DEF Answering
<1>2. Answering /\ [Next]_vars => Answering'
  BY NextAnswering
<1>3. Answering => CallsAreGoverned
  BY DEF Answering, Sound
<1>4. QED
  BY <1>1, <1>2, <1>3, PTL DEF Spec
=============================================================================
