------------------------ MODULE OpenApiImportsProofs ------------------------
(***************************************************************************)
(* For any documents, allowlists, upstreams, imports and administrators:   *)
(* what an import says of itself is true, what ended does not come back,   *)
(* and what the parser and the endpoint policy let pass keeps what they    *)
(* promise.                                                                *)
(***************************************************************************)
EXTENDS OpenApiImports, FiniteSetTheorems, SequenceTheorems,
        WellFoundedInduction, TLAPS

-----------------------------------------------------------------------------
(***************************************************************************)
(* Numbers                                                                 *)
(***************************************************************************)
\* Any natural numbers there are have a least one.
LEMMA LeastNumber ==
    ASSUME NEW S \in SUBSET Nat, S # {}
    PROVE  \E n \in S : \A m \in S : n <= m
<1> DEFINE R == {ss \in Nat \X Nat : ss[1] < ss[2]}
<1>1. IsWellFoundedOn(R, Nat)
  BY NatLessThanWellFounded, Zenon DEF OpToRel
<1>2. PICK n \in S : \A m \in S : ~(<<m, n>> \in R)
  <2> HIDE DEF R
  <2> QED
    BY <1>1, WFMin, Zenon
<1>3. ASSUME NEW m \in S, m < n
      PROVE  FALSE
  <2>1. m \in Nat /\ n \in Nat
    OBVIOUS
  <2>2. <<m, n>> \in R
    BY <2>1, <1>3
  <2>3. QED
    BY <1>2, <2>2
<1>4. QED
  BY <1>3

\* Bounded numbers have a greatest one.
LEMMA GreatestNumber ==
    ASSUME NEW N \in Nat, NEW S \in SUBSET (1..N), S # {}
    PROVE  \E n \in S : \A m \in S : m <= n
<1> DEFINE T == {k \in Nat : N - k \in S}
<1>1. T \in SUBSET Nat /\ T # {}
  <2>1. PICK m \in S : TRUE
    OBVIOUS
  <2>2. m \in 1..N
    OBVIOUS
  <2>3. N - m \in Nat /\ N - (N - m) = m
    BY <2>2
  <2>4. QED
    BY <2>3
<1>2. PICK k \in T : \A l \in T : k <= l
  <2> HIDE DEF T
  <2> QED
    BY <1>1, LeastNumber
<1>3. k \in Nat /\ N - k \in S
  OBVIOUS
<1>4. ASSUME NEW m \in S
      PROVE  m <= N - k
  <2>1. m \in 1..N
    OBVIOUS
  <2>2. N - m \in Nat /\ N - (N - m) = m
    BY <2>1
  <2>3. N - m \in T
    BY <2>2
  <2>4. k <= N - m
    BY <1>2, <2>3
  <2>5. QED
    BY <2>1, <2>4, <1>3
<1>5. QED
  BY <1>3, <1>4

-----------------------------------------------------------------------------
(***************************************************************************)
(* References                                                              *)
(***************************************************************************)
\* What a node resolves with does not depend on more than the levels below.
LEMMA LevelsBelow ==
    ASSUME NEW node, IsNode(node), NEW n \in Nat, NEW g, NEW h,
           \A m \in 0..(n - 1) : g[m] = h[m]
    PROVE  Resolves(node, n, g) = Resolves(node, n, h)
<1>1. ASSUME node.height < n, NEW r \in DOMAIN node.references
      PROVE  n - 1 - node.references[r] \in 0..(n - 1)
  <2>1. node.height \in Nat /\ node.references[r] \in 0..node.height
    BY DEF IsNode
  <2>2. QED
    BY <2>1, <1>1
<1>2. QED
  BY <1>1 DEF Resolves

\* The references that resolve, with up to k levels.
IsLevels(c, k, g) ==
    g = [n \in 0..k |-> {r \in DOMAIN c : Resolves(c[r], n, g)}]

\* There are as many levels as are asked for.
LEMMA LevelsExist ==
    ASSUME NEW c, \A r \in DOMAIN c : IsNode(c[r]), NEW N \in Nat
    PROVE  \E g : IsLevels(c, N, g)
<1> DEFINE Bad == {k \in Nat : ~\E g : IsLevels(c, k, g)}
<1>1. SUFFICES ASSUME Bad # {} PROVE FALSE
  OBVIOUS
<1>2. PICK k \in Bad : \A m \in Bad : k <= m
  <2>1. Bad \in SUBSET Nat
    OBVIOUS
  <2> HIDE DEF Bad
  <2> QED
    BY <1>1, <2>1, LeastNumber
<1>3. k \in Nat /\ ~\E g : IsLevels(c, k, g)
  OBVIOUS
<1>4. PICK g : \A n \in 0..(k - 1) :
                   g[n] = {r \in DOMAIN c : Resolves(c[r], n, g)}
  <2>1. CASE k = 0
    BY <2>1
  <2>2. CASE k # 0
    <3>1. k - 1 \in Nat /\ ~(k <= k - 1)
      BY <2>2, <1>3
    <3>2. k - 1 \notin Bad
      BY <3>1, <1>2
    <3>3. PICK g : IsLevels(c, k - 1, g)
      BY <3>1, <3>2
    <3>4. QED
      BY <3>3 DEF IsLevels
  <2>3. QED
    BY <2>1, <2>2
<1> DEFINE h == [n \in 0..k |->
                   IF n = k THEN {r \in DOMAIN c : Resolves(c[r], k, g)}
                            ELSE g[n]]
<1>5. ASSUME NEW n \in 0..k
      PROVE  h[n] = {r \in DOMAIN c : Resolves(c[r], n, h)}
  <2>1. n \in Nat /\ \A m \in 0..(n - 1) : g[m] = h[m]
    BY <1>3
  <2>2. h[n] = {r \in DOMAIN c : Resolves(c[r], n, g)}
    <3>1. CASE n = k
      BY <3>1
    <3>2. CASE n # k
      <4>1. n \in 0..(k - 1)
        BY <3>2, <1>3
      <4>2. QED
        BY <4>1, <3>2, <1>4
    <3>3. QED
      BY <3>1, <3>2
  <2> HIDE DEF h
  <2>3. \A r \in DOMAIN c : Resolves(c[r], n, g) = Resolves(c[r], n, h)
    BY <2>1, LevelsBelow
  <2>4. QED
    BY <2>2, <2>3
<1>6. IsLevels(c, k, h)
  <2>1. h = [n \in 0..k |-> h[n]]
    OBVIOUS
  <2> HIDE DEF h
  <2>2. QED
    BY <2>1, <1>5 DEF IsLevels
<1>7. QED
  BY <1>6, <1>3

\* resolve_node is those levels.
LEMMA ResolveNodeLevels ==
    ASSUME NEW c, \A r \in DOMAIN c : IsNode(c[r])
    PROVE  IsLevels(c, MaxRefDepth + 1, resolve_node(c))
<1> DEFINE within == CHOOSE g : IsLevels(c, MaxRefDepth + 1, g)
<1>1. IsLevels(c, MaxRefDepth + 1, within)
  <2>1. MaxRefDepth + 1 \in Nat
    BY DepthAssumption
  <2>2. QED
    BY <2>1, LevelsExist
<1>2. resolve_node(c) = within
  BY DEF resolve_node, IsLevels
<1>3. QED
  BY <1>1, <1>2

\* A node that the parser resolves nests within the limit: a reference takes
\* the least number of levels that it resolves with.
LEMMA ResolvedNests ==
    ASSUME NEW c, \A r \in DOMAIN c : IsNode(c[r]),
           NEW node, IsNode(node),
           Resolves(node, MaxRefDepth + 1, resolve_node(c))
    PROVE  NestsWithin(MaxRefDepth + 1, c, node)
<1> DEFINE N == MaxRefDepth + 1
           g == resolve_node(c)
           Least(r) == CHOOSE n \in 0..N :
                           r \in g[n] /\ \A m \in 0..N : r \in g[m] => n <= m
           takes == [r \in DOMAIN c |->
                       IF \E n \in 0..N : r \in g[n] THEN Least(r) ELSE 0]
<1>1. /\ N \in Nat
      /\ \A n \in 0..N : g[n] = {r \in DOMAIN c : Resolves(c[r], n, g)}
  BY ResolveNodeLevels, DepthAssumption DEF IsLevels
<1>2. ASSUME NEW n \in 0..N, NEW r \in g[n]
      PROVE  /\ r \in DOMAIN c /\ Resolves(c[r], takes[r], g)
             /\ takes[r] \in 1..n
  <2> DEFINE T == {m \in 0..N : r \in g[m]}
  <2>1. T \in SUBSET Nat /\ T # {}
    BY <1>1, <1>2
  <2>2. \E m \in T : \A l \in T : m <= l
    <3> HIDE DEF T
    <3> QED
      BY <2>1, LeastNumber
  <2>3. /\ Least(r) \in 0..N /\ r \in g[Least(r)]
        /\ \A m \in 0..N : r \in g[m] => Least(r) <= m
    <3> HIDE DEF g
    <3> QED
      BY <2>2
  <2>4. r \in DOMAIN c /\ takes[r] = Least(r)
    BY <1>1, <1>2
  <2>5. Resolves(c[r], Least(r), g)
    BY <1>1, <2>3
  <2> HIDE DEF Least, g, takes
  <2>6. Least(r) # 0
    BY <2>5, <2>4, <1>1 DEF Resolves, IsNode
  <2>7. Least(r) <= n
    BY <2>3, <1>2
  <2>8. QED
    BY <2>3, <2>4, <2>5, <2>6, <2>7, <1>1
<1>3. takes \in [DOMAIN c -> 0..N]
  <2>1. ASSUME NEW r \in DOMAIN c PROVE takes[r] \in 0..N
    <3>1. CASE \E n \in 0..N : r \in g[n]
      <4>1. PICK n \in 0..N : r \in g[n]
        BY <3>1
      <4> HIDE DEF takes, g
      <4>2. takes[r] \in 1..n
        BY <4>1, <1>2
      <4>3. QED
        BY <4>2, <1>1
    <3>2. CASE ~\E n \in 0..N : r \in g[n]
      BY <3>2, <1>1
    <3>3. QED
      BY <3>1, <3>2
  <2>2. takes = [r \in DOMAIN c |-> takes[r]]
    OBVIOUS
  <2> HIDE DEF takes
  <2>3. QED
    BY <2>1, <2>2
<1>4. \A r \in DOMAIN c : takes[r] # 0 => Resolves(c[r], takes[r], g)
  <2>1. ASSUME NEW r \in DOMAIN c, takes[r] # 0
        PROVE  \E n \in 0..N : r \in g[n]
    BY <2>1
  <2> HIDE DEF takes
  <2>2. QED
    BY <2>1, <1>2
<1> HIDE DEF takes
<1>5. ASSUME NEW m, IsNode(m), NEW levels \in 0..N, Resolves(m, levels, g)
      PROVE  /\ m.height < levels
             /\ \A r \in DOMAIN m.references :
                   /\ r \in DOMAIN c
                   /\ takes[r] # 0
                   /\ m.references[r] + takes[r] < levels
  <2> HIDE DEF g
  <2>1. m.height < levels
    BY <1>5 DEF Resolves
  <2>2. ASSUME NEW r \in DOMAIN m.references
        PROVE  /\ r \in DOMAIN c
               /\ takes[r] # 0
               /\ m.references[r] + takes[r] < levels
    <3>1. m.height \in Nat /\ m.references[r] \in 0..m.height
      BY <1>5 DEF IsNode
    <3>2. levels - 1 - m.references[r] \in 0..N
      BY <3>1, <2>1, <1>1
    <3>3. r \in g[levels - 1 - m.references[r]]
      BY <1>5 DEF Resolves
    <3>4. r \in DOMAIN c /\ takes[r] \in 1..(levels - 1 - m.references[r])
      BY <3>2, <3>3, <1>2
    <3>5. QED
      BY <3>1, <3>4, <1>1
  <2>3. QED
    BY <2>1, <2>2
<1>6. N \in 0..N
  BY <1>1
<1>7. QED
  <2> HIDE DEF g
  <2>1. Resolves(node, N, g)
    BY DEF g
  <2>2. \A r \in DOMAIN c : takes[r] # 0 => takes[r] \in 0..N /\ IsNode(c[r])
    BY <1>3
  <2> HIDE DEF N
  <2>3. NestsWithin(N, c, node)
    BY <1>3, <1>4, <1>5, <1>6, <2>1, <2>2 DEF NestsWithin
  <2>4. QED
    BY <2>3 DEF N

-----------------------------------------------------------------------------
(***************************************************************************)
(* Parameters and arguments                                                *)
(***************************************************************************)
\* A key has a last parameter.
LEMMA LastOfKey ==
    ASSUME NEW given \in Seq(Parameters), NEW i \in DOMAIN given
    PROVE  /\ LastOf(given, i) \in DOMAIN given
           /\ Key(given[LastOf(given, i)]) = Key(given[i])
<1> DEFINE S == {k \in DOMAIN given : Key(given[k]) = Key(given[i])}
<1>1. PICK n \in S : \A m \in S : m <= n
  <2>1. Len(given) \in Nat /\ DOMAIN given = 1..Len(given)
    OBVIOUS
  <2>2. S \in SUBSET (1..Len(given)) /\ S # {}
    BY <2>1
  <2> HIDE DEF S
  <2> QED
    BY <2>1, <2>2, GreatestNumber
<1>2. /\ n \in DOMAIN given
      /\ Key(given[n]) = Key(given[i])
      /\ \A l \in DOMAIN given : Key(given[l]) = Key(given[i]) => l <= n
  BY <1>1
<1>3. QED
  BY <1>2, Zenon DEF LastOf

\* merge_parameters keeps one parameter of a name and location.
LEMMA MergedByKey ==
    ASSUME NEW o, o.path_parameters \in Seq(Parameters),
           o.parameters \in Seq(Parameters)
    PROVE  \E N \in Nat :
              /\ DOMAIN merge_parameters(o) \subseteq 1..N
              /\ \A i \in DOMAIN merge_parameters(o) :
                    merge_parameters(o)[i] \in Parameters
              /\ \A i, k \in DOMAIN merge_parameters(o) :
                    merge_parameters(o)[i] = merge_parameters(o)[k] => i = k
<1> DEFINE given == Given(o)
           places == {i \in DOMAIN given :
                         \A k \in DOMAIN given :
                             k < i => Key(given[k]) # Key(given[i])}
<1>1. given \in Seq(Parameters)
  BY DEF Given
<1> HIDE DEF given
<1>2. Len(given) \in Nat /\ DOMAIN given = 1..Len(given)
  BY <1>1
<1>3. merge_parameters(o) = [i \in places |-> given[LastOf(given, i)]]
  BY DEF merge_parameters, given
<1>4. ASSUME NEW i \in places
      PROVE  /\ merge_parameters(o)[i] \in Parameters
             /\ Key(merge_parameters(o)[i]) = Key(given[i])
  <2>1. /\ LastOf(given, i) \in DOMAIN given
        /\ Key(given[LastOf(given, i)]) = Key(given[i])
    BY <1>1, LastOfKey
  <2>2. merge_parameters(o)[i] = given[LastOf(given, i)]
    BY <1>3
  <2>3. given[LastOf(given, i)] \in Parameters
    BY <2>1, <1>1
  <2>4. QED
    BY <2>1, <2>2, <2>3
<1>5. ASSUME NEW i \in places, NEW k \in places,
             merge_parameters(o)[i] = merge_parameters(o)[k]
      PROVE  i = k
  <2>1. Key(given[i]) = Key(given[k])
    BY <1>4, <1>5
  <2>2. ~(i < k) /\ ~(k < i)
    BY <2>1
  <2>3. i \in Nat /\ k \in Nat
    BY <1>2
  <2>4. QED
    BY <2>2, <2>3
<1>6. DOMAIN merge_parameters(o) = places /\ places \subseteq 1..Len(given)
  BY <1>2, <1>3
<1>7. QED
  <2> HIDE DEF places
  <2> QED
    BY <1>2, <1>4, <1>5, <1>6

\* The names of the arguments up to a place.
NameAt(ps, g, i) ==
    IF ps[i].words \in {g[k] : k \in {l \in Supported(ps) : l < i}}
    THEN <<ps[i].in>> \o ps[i].words ELSE ps[i].words

IsNames(ps, S, g) == g = [i \in S |-> NameAt(ps, g, i)]

\* The names up to a place determine the next one.
LEMMA NamesExist ==
    ASSUME NEW ps, NEW N \in Nat, DOMAIN ps \subseteq 1..N
    PROVE  \E g : IsNames(ps, Supported(ps), g)
<1> DEFINE S == Supported(ps)
           Upto(k) == {i \in S : i <= k}
           Bad == {k \in Nat : ~\E g : IsNames(ps, Upto(k), g)}
<1>1. S \subseteq 1..N
  BY DEF Supported
<1>2. Upto(N) = S
  BY <1>1
<1>3. SUFFICES ASSUME Bad # {} PROVE FALSE
  BY <1>2
<1>4. PICK k \in Bad : \A m \in Bad : k <= m
  <2>1. Bad \in SUBSET Nat
    OBVIOUS
  <2> HIDE DEF Bad
  <2> QED
    BY <1>3, <2>1, LeastNumber
<1>5. k \in Nat /\ ~\E g : IsNames(ps, Upto(k), g)
  OBVIOUS
<1>6. CASE k = 0
  <2>1. Upto(0) = {}
    BY <1>1
  <2> DEFINE g == [i \in {} |-> {}]
  <2>2. g = [i \in {} |-> NameAt(ps, g, i)]
    OBVIOUS
  <2>3. IsNames(ps, Upto(k), g)
    BY <2>1, <2>2, <1>6 DEF IsNames
  <2>4. QED
    BY <2>3, <1>5
<1>7. CASE k # 0
  <2>1. k - 1 \in Nat /\ ~(k <= k - 1)
    BY <1>7, <1>5
  <2>2. PICK g : IsNames(ps, Upto(k - 1), g)
    BY <2>1, <1>4
  <2> DEFINE h == [i \in Upto(k) |->
                     IF i = k THEN NameAt(ps, g, k) ELSE g[i]]
  <2>3. ASSUME NEW i \in Upto(k)
        PROVE  {h[l] : l \in {m \in S : m < i}}
                 = {g[l] : l \in {m \in S : m < i}}
    <3>1. ASSUME NEW m \in S, m < i
          PROVE  m \in Upto(k) /\ m # k
      <4>1. i \in Nat /\ m \in Nat /\ i <= k
        BY <1>1
      <4>2. QED
        BY <4>1, <3>1, <1>5
    <3>2. \A l \in {m \in S : m < i} : h[l] = g[l]
      BY <3>1
    <3> HIDE DEF h
    <3>3. QED
      BY <3>2
  <2>4. ASSUME NEW i \in Upto(k)
        PROVE  h[i] = NameAt(ps, h, i)
    <3>1. NameAt(ps, h, i) = NameAt(ps, g, i)
      <4>1. {h[l] : l \in {m \in Supported(ps) : m < i}}
              = {g[l] : l \in {m \in Supported(ps) : m < i}}
        BY <2>3
      <4> HIDE DEF h
      <4> QED
        BY <4>1 DEF NameAt
    <3>2. CASE i = k
      BY <3>1, <3>2
    <3>3. CASE i # k
      <4>1. i \in Upto(k - 1)
        <5>1. i \in Nat /\ i <= k
          BY <1>1
        <5>2. i <= k - 1
          BY <5>1, <3>3, <1>5
        <5>3. QED
          BY <5>2
      <4>2. g[i] = NameAt(ps, g, i)
        BY <4>1, <2>2 DEF IsNames
      <4>3. h[i] = g[i]
        BY <3>3
      <4>4. QED
        BY <3>1, <4>2, <4>3
    <3>4. QED
      BY <3>2, <3>3
  <2>5. h = [i \in Upto(k) |-> NameAt(ps, h, i)]
    <3>1. h = [i \in Upto(k) |-> h[i]]
      OBVIOUS
    <3> HIDE DEF h, Upto
    <3> QED
      BY <2>4, <3>1
  <2>6. IsNames(ps, Upto(k), h)
    <3> HIDE DEF h, Upto
    <3> QED
      BY <2>5 DEF IsNames
  <2>7. QED
    BY <2>6, <1>5
<1>8. QED
  BY <1>6, <1>7

\* argument_name gives every supported parameter its name in turn.
LEMMA ArgumentNameIs ==
    ASSUME NEW ps, NEW N \in Nat, DOMAIN ps \subseteq 1..N
    PROVE  IsNames(ps, Supported(ps), argument_name(ps))
<1>1. \E g : IsNames(ps, Supported(ps), g)
  BY NamesExist
<1>2. argument_name(ps) = CHOOSE g : IsNames(ps, Supported(ps), g)
  BY DEF argument_name, IsNames, NameAt
<1>3. QED
  BY <1>1, <1>2

\* A list of one word.
LEMMA OneWord ==
    ASSUME NEW S, NEW a \in S
    PROVE  <<a>> \in Seq(S) /\ Len(<<a>>) = 1 /\ <<a>>[1] = a
OBVIOUS

\* A prefix and what it comes before can be told from the two together.
LEMMA PrefixedApart ==
    ASSUME NEW a \in STRING, NEW b \in STRING,
           NEW v \in Seq(STRING), NEW w \in Seq(STRING),
           <<a>> \o v = <<b>> \o w
    PROVE  a = b /\ v = w
<1>1. /\ <<a>> \in Seq(STRING) /\ Len(<<a>>) = 1 /\ <<a>>[1] = a
      /\ <<b>> \in Seq(STRING) /\ Len(<<b>>) = 1 /\ <<b>>[1] = b
  BY OneWord
<1>2. (<<a>> \o v)[1] = a /\ (<<b>> \o w)[1] = b
  BY <1>1
<1>3. Len(<<a>> \o v) = 1 + Len(v) /\ Len(<<b>> \o w) = 1 + Len(w)
  BY <1>1, ConcatProperties
<1>4. Len(v) \in Nat /\ Len(w) \in Nat
  OBVIOUS
<1>5. Len(v) = Len(w)
  BY <1>3, <1>4
<1>6. ASSUME NEW i \in 1..Len(v)
      PROVE  v[i] = w[i]
  <2>1. (<<a>> \o v)[i + 1] = v[i]
    BY <1>1, <1>4
  <2>2. (<<b>> \o w)[i + 1] = w[i]
    BY <1>1, <1>4, <1>5
  <2>3. QED
    BY <2>1, <2>2
<1>7. v = w
  BY <1>5, <1>6, SeqEqual
<1>8. QED
  BY <1>2, <1>7

\* Parameters with plain names keep arguments of their own.
LEMMA ArgumentsInjective ==
    ASSUME NEW o, o.path_parameters \in Seq(Parameters),
           o.parameters \in Seq(Parameters), Plain(o)
    PROVE  IsInjective(Arguments(o))
<1> DEFINE ps == merge_parameters(o)
           names == argument_name(ps)
           S == Supported(ps)
<1>1. PICK N \in Nat :
         /\ DOMAIN ps \subseteq 1..N
         /\ \A i \in DOMAIN ps : ps[i] \in Parameters
         /\ \A i, k \in DOMAIN ps : ps[i] = ps[k] => i = k
  BY MergedByKey
<1>2. \A p, q \in {ps[i] : i \in S} :
         /\ p.words = q.words => p = q \/ p.in # q.in
         /\ p.words # <<q.in>> \o q.words
         /\ p.words # <<"body">>
  BY DEF Plain
<1> HIDE DEF ps
<1>3. names = [i \in S |-> NameAt(ps, names, i)]
  BY <1>1, ArgumentNameIs DEF IsNames
<1> HIDE DEF names
<1>4. S \subseteq DOMAIN ps /\ \A i \in S : ps[i].in \in Locations
  BY DEF Supported
<1>5. ASSUME NEW i \in S
      PROVE  /\ ps[i].words \in Seq(STRING) /\ ps[i].in \in STRING
             /\ ps[i].in # "body" /\ i \in 1..N
             /\ names[i] \in {ps[i].words, <<ps[i].in>> \o ps[i].words}
  <2>1. ps[i] \in Parameters /\ ps[i].in \in Locations /\ i \in 1..N
    BY <1>1, <1>4
  <2>2. ps[i].words \in Seq(STRING) /\ ps[i].in \in STRING
    BY <2>1 DEF Parameters
  <2>3. ps[i].in # "body"
    BY <2>1 DEF Locations
  <2>4. names[i] = NameAt(ps, names, i)
    BY <1>3
  <2>5. QED
    BY <2>1, <2>2, <2>3, <2>4 DEF NameAt
<1>6. ASSUME NEW i \in S, NEW k \in S, i < k, names[i] = names[k]
      PROVE  FALSE
  <2> DEFINE v == ps[i].words
             w == ps[k].words
             a == ps[i].in
             b == ps[k].in
  <2>1. v \in Seq(STRING) /\ w \in Seq(STRING) /\ a \in STRING /\ b \in STRING
    BY <1>5
  <2>2. /\ v = w => ps[i] = ps[k] \/ a # b
        /\ v # <<b>> \o w /\ w # <<a>> \o v
    BY <1>2
  <2>3. ps[i] # ps[k]
    <3>1. i \in 1..N /\ k \in 1..N
      BY <1>5
    <3>2. i # k
      BY <3>1, <1>6
    <3>3. QED
      BY <1>1, <1>4, <3>2
  <2>4. names[i] \in {v, <<a>> \o v} /\ names[k] \in {w, <<b>> \o w}
    BY <1>5
  <2>5. names[k] = IF w \in {names[l] : l \in {m \in S : m < k}}
                   THEN <<b>> \o w ELSE w
    BY <1>3 DEF NameAt
  <2>6. names[i] \in {names[l] : l \in {m \in S : m < k}}
    BY <1>6
  <2> HIDE DEF v, w, a, b
  <2>7. CASE names[i] = v /\ names[k] = w
    <3>1. names[k] = <<b>> \o w
      BY <2>5, <2>6, <2>7, <1>6
    <3>2. w # <<b>> \o w
      BY <1>2 DEF w, b
    <3>3. QED
      BY <2>7, <3>1, <3>2
  <2>8. CASE names[i] = <<a>> \o v /\ names[k] = <<b>> \o w
    <3>1. <<a>> \o v = <<b>> \o w
      BY <2>8, <1>6
    <3>2. a = b /\ v = w
      BY <3>1, <2>1, PrefixedApart
    <3>3. QED
      BY <3>2, <2>2, <2>3
  <2>9. QED
    BY <2>2, <2>4, <2>7, <2>8, <1>6
<1>7. IsInjective(names)
  <2>1. DOMAIN names = S /\ S \subseteq Nat
    BY <1>1, <1>3, <1>4
  <2>2. ASSUME NEW i \in S, NEW k \in S, names[i] = names[k], i # k
        PROVE  FALSE
    <3>1. i \in Nat /\ k \in Nat
      BY <2>1
    <3>2. i < k \/ k < i
      BY <3>1, <2>2
    <3>3. QED
      BY <3>2, <2>2, <1>6
  <2> HIDE DEF S
  <2>3. QED
    BY <2>1, <2>2 DEF IsInjective
<1>8. CASE o.body # "json"
  BY <1>7, <1>8 DEF Arguments, names, ps
<1>9. CASE o.body = "json"
  <2>1. Arguments(o) = [i \in DOMAIN names \union {0} |->
                          IF i = 0 THEN <<"body">> ELSE names[i]]
    BY <1>9 DEF Arguments, names, ps
  <2>2. DOMAIN names = S /\ 0 \notin S
    <3>1. S \subseteq 1..N
      BY <1>1, <1>4
    <3>2. QED
      BY <1>3, <3>1
  <2>3. ASSUME NEW i \in S
        PROVE  names[i] # <<"body">>
    <3>1. ps[i].words # <<"body">>
      BY <1>2
    <3>2. <<ps[i].in>> \o ps[i].words # <<"body">>
      <4> DEFINE w == ps[i].words
                 b == ps[i].in
      <4>1. w \in Seq(STRING) /\ b \in STRING /\ b # "body"
        BY <1>5
      <4> HIDE DEF w, b
      <4>2. (<<b>> \o w)[1] = b
        BY <4>1
      <4>3. QED
        <5>1. <<"body">>[1] = "body"
          OBVIOUS
        <5>2. <<b>> \o w # <<"body">>
          BY <4>1, <4>2, <5>1
        <5>3. QED
          BY <5>2 DEF w, b
    <3>3. QED
      BY <1>5, <3>1, <3>2
  <2> HIDE DEF S
  <2>4. QED
    BY <2>1, <2>2, <2>3, <1>7 DEF IsInjective
<1>10. QED
  BY <1>8, <1>9

-----------------------------------------------------------------------------
(***************************************************************************)
(* Names and endpoints                                                     *)
(***************************************************************************)
\* Two elements are counted as more than one.
LEMMA TwoOfThem ==
    ASSUME NEW S, IsFiniteSet(S), NEW x \in S, NEW y \in S, x # y
    PROVE  Cardinality(S) > 1
<1>1. Cardinality({x}) = 1 /\ IsFiniteSet({x})
  BY FS_Singleton, Zenon
<1>2. Cardinality({x} \union {y}) = 2
  BY <1>1, FS_AddElement
<1>3. {x} \union {y} \in SUBSET S
  OBVIOUS
<1>4. Cardinality({x} \union {y}) <= Cardinality(S) /\ Cardinality(S) \in Nat
  BY <1>3, FS_Subset, FS_CardinalityType
<1>5. QED
  BY <1>2, <1>4

\* An operation that parse leaves without a conflict shares its name with no
\* other operation that is allowed.
LEMMA ParsedNames ==
    ASSUME NEW document, NEW allowlist,
           IsFiniteSet(DOMAIN document.operations),
           NEW m \in DOMAIN parse(document, allowlist),
           NEW n \in DOMAIN parse(document, allowlist), m # n,
           parse(document, allowlist)[m].conflict = "none"
    PROVE  parse(document, allowlist)[m].name
              # parse(document, allowlist)[n].name
<1> DEFINE A == Allowed(document, allowlist)
           o(i) == document.operations[i]
           N(i) == Namesakes(document, allowlist, o(i).name)
<1>1. DOMAIN parse(document, allowlist) = A
  BY DEF parse
<1>2. A \subseteq DOMAIN document.operations
  BY DEF Allowed
<1>3. \A i \in A :
         /\ parse(document, allowlist)[i].name = o(i).name
         /\ parse(document, allowlist)[i].conflict =
               IF Cardinality(N(i)) > 1 /\ OwnConflict(o(i)) = "none"
               THEN "name_collision" ELSE OwnConflict(o(i))
  BY DEF parse
<1>4. ~(Cardinality(N(m)) > 1)
  BY <1>1, <1>3
<1>5. N(m) \in SUBSET DOMAIN document.operations
  BY <1>2 DEF Namesakes
<1>6. IsFiniteSet(N(m))
  BY <1>5, FS_Subset
<1>7. SUFFICES ASSUME o(m).name = o(n).name PROVE FALSE
  BY <1>1, <1>3
<1>8. m \in N(m) /\ n \in N(m)
  BY <1>1, <1>7 DEF Namesakes
<1>9. QED
  BY <1>4, <1>6, <1>8, TwoOfThem

\* What the endpoint policy accepts, whatever the host resolves to, reaches
\* somewhere, and nothing that is forbidden.
LEMMA AcceptedReaches ==
    ASSUME NEW endpoint, NEW resolved \in SUBSET Addresses,
           EndpointAccepted(endpoint, resolved)
    PROVE  /\ Reached(endpoint, resolved) # {}
           /\ \A address \in Reached(endpoint, resolved) :
                 AddressAccepted(address, endpoint.host)
<1>1. CASE endpoint.host \in Literals
  BY <1>1 DEF EndpointAccepted, Reached
<1>2. CASE endpoint.host \notin Literals
  BY <1>2 DEF EndpointAccepted, Reached
<1>3. QED
  BY <1>1, <1>2

\* No allowed host opens what is always denied, and loopback and other
\* addresses are open to the hosts they are meant for.
LEMMA AddressesAccepted ==
    ASSUME NEW address, NEW host, AddressAccepted(address, host)
    PROVE  /\ address # "denied"
           /\ address = "loopback" => AllowLocalDemo /\ host \in LocalDemoHosts
           /\ address = "other" => host \in AllowedHosts
BY DEF AddressAccepted

-----------------------------------------------------------------------------
(***************************************************************************)
(* The invariant, job by job                                               *)
(***************************************************************************)
JobRows == JobStatuses \union {NoRow, Gone}
Labels == {"none", "insert", "mark", "parse", "complete", "fail", "done",
           "lost"}
Answers == {"none", "imported", "refused", "error"}
Imports ==
    [pc: Labels, upstream: Upstreams \union {NoRow},
     document: Documents \union {NoRow}, allowlist: Allowlists \union {{}},
     unsure: BOOLEAN, answer: Answers]
Readers ==
    [statement: 1..3, status: JobStatuses \union {NoRow}, operations: Rows]
UpstreamRows ==
    [status: UpstreamStatuses \union {NoRow, Gone},
     name: Names \union {NoRow}, endpoint: Requested \union {NoEndpoint}]
Edits ==
    [pc: {"none", "policy", "lookup", "write", "done"},
     kind: {"none", "register", "update"},
     upstream: Upstreams \union {NoRow}, name: Names \union {NoRow},
     endpoint: Requested \union {NoEndpoint},
     observed: UpstreamStatuses \union {NoRow}]

\* What the invariant says of one job: its row, its operations, its reader,
\* and the fields of its handler.
JobFine(row, ops, rd, pc, doc, al, unsure, answer) ==
    LET parsed == [document |-> doc, allowlist |-> al] IN
    /\ ops = IF row = "completed" THEN parsed ELSE NoOperations
    /\ row \in Open => pc \notin {"none", "done"}
    /\ answer = "imported" => row \in {"completed", Gone}
    /\ answer = "error" => row \in {"failed", Gone} \/ unsure
    /\ answer = "refused" => row = NoRow
    /\ rd.statement = 3 /\ rd.status = "completed" =>
          rd.operations = parsed \/ row = Gone
    /\ pc \in {"none", "insert"} => row = NoRow
    /\ pc = "mark" => row \in {"validating", Gone}
    /\ pc \in {"parse", "complete"} => row \in {"parsing", Gone}
    /\ pc = "fail" =>
          row \in Open \union {Gone} \/ (row = "completed" /\ unsure)
    /\ pc # "done" => answer = "none"
    /\ pc = "insert" \/ row # NoRow => doc \in Documents
    /\ pc = "complete" => WellFormed(Content[doc], al)
    /\ rd.status = "completed" => row \in {"completed", Gone}

JobIsFine(j) ==
    JobFine(job[j], operations[j], reader[j], import[j].pc,
            import[j].document, import[j].allowlist, import[j].unsure,
            import[j].answer)

Parts ==
    /\ job \in [Jobs -> JobRows]
    /\ operations \in [Jobs -> Rows]
    /\ import \in [Jobs -> Imports]
    /\ reader \in [Jobs -> Readers]
    /\ \A j \in Jobs : JobIsFine(j)
    /\ upstream \in [Upstreams -> UpstreamRows]
    /\ edit \in [Admins -> Edits]
    /\ IdReserved

\* Taken together, the jobs' invariants are the specification's.
LEMMA PartsAreIInv == Parts <=> IInv
<1>1. TypeOK <=> /\ job \in [Jobs -> JobRows]
                 /\ operations \in [Jobs -> Rows]
                 /\ import \in [Jobs -> Imports]
                 /\ reader \in [Jobs -> Readers]
                 /\ upstream \in [Upstreams -> UpstreamRows]
                 /\ edit \in [Admins -> Edits]
  BY Zenon DEF TypeOK, JobRows, Imports, Readers, UpstreamRows, Edits, Labels,
               Answers
<1>2. (\A j \in Jobs : JobIsFine(j))
         <=> ImportsTellTruth /\ RowFollowsHandler /\ JobHasDocument
                /\ ReaderIsCurrent
  <2>1. ASSUME \A j \in Jobs : JobIsFine(j)
        PROVE  /\ ImportsTellTruth /\ RowFollowsHandler /\ JobHasDocument
               /\ ReaderIsCurrent
    <3>1. CompletedIsWhole
      BY <2>1 DEF JobIsFine, JobFine, CompletedIsWhole, Operations
    <3>2. OpenHasHandler
      BY <2>1 DEF JobIsFine, JobFine, OpenHasHandler
    <3>3. AnswerAgrees
      BY <2>1 DEF JobIsFine, JobFine, AnswerAgrees
    <3>4. ReaderSeesWhole
      BY <2>1 DEF JobIsFine, JobFine, ReaderSeesWhole, Operations
    <3>5. RowFollowsHandler
      BY <2>1 DEF JobIsFine, JobFine, RowFollowsHandler
    <3>6. JobHasDocument
      BY <2>1 DEF JobIsFine, JobFine, JobHasDocument
    <3>7. ReaderIsCurrent
      BY <2>1 DEF JobIsFine, JobFine, ReaderIsCurrent
    <3>8. QED
      BY <3>1, <3>2, <3>3, <3>4, <3>5, <3>6, <3>7 DEF ImportsTellTruth
  <2>2. ASSUME ImportsTellTruth, RowFollowsHandler, JobHasDocument,
               ReaderIsCurrent, NEW j \in Jobs
        PROVE  JobIsFine(j)
    <3>1. /\ operations[j] = IF job[j] = "completed" THEN Operations(j)
                             ELSE NoOperations
          /\ job[j] \in Open => import[j].pc \notin {"none", "done"}
      BY <2>2 DEF ImportsTellTruth, CompletedIsWhole, OpenHasHandler
    <3>2. /\ import[j].answer = "imported" => job[j] \in {"completed", Gone}
          /\ import[j].answer = "error" =>
                job[j] \in {"failed", Gone} \/ import[j].unsure
          /\ import[j].answer = "refused" => job[j] = NoRow
          /\ reader[j].statement = 3 /\ reader[j].status = "completed" =>
                reader[j].operations = Operations(j) \/ job[j] = Gone
      BY <2>2 DEF ImportsTellTruth, AnswerAgrees, ReaderSeesWhole
    <3>3. QED
      BY <2>2, <3>1, <3>2, Zenon
         DEF JobIsFine, JobFine, Operations, RowFollowsHandler, JobHasDocument,
             ReaderIsCurrent
  <2>3. QED
    BY <2>1, <2>2
<1>3. QED
  BY <1>1, <1>2, Zenon DEF Parts, IInv

\* A step that is about one job keeps the invariant when it leaves that job
\* as it has to be.
LEMMA JobMove ==
    ASSUME Parts, NEW j \in Jobs, NEW row \in JobRows, NEW ops \in Rows,
           NEW im \in Imports, NEW rd \in Readers,
           JobFine(row, ops, rd, im.pc, im.document, im.allowlist, im.unsure,
                   im.answer),
           job' = [job EXCEPT ![j] = row],
           operations' = [operations EXCEPT ![j] = ops],
           import' = [import EXCEPT ![j] = im],
           reader' = [reader EXCEPT ![j] = rd],
           UNCHANGED <<upstream, edit>>
    PROVE  Parts'
<1>1. /\ job' \in [Jobs -> JobRows] /\ operations' \in [Jobs -> Rows]
      /\ import' \in [Jobs -> Imports] /\ reader' \in [Jobs -> Readers]
  BY DEF Parts
<1>2. ASSUME NEW i \in Jobs
      PROVE  JobIsFine(i)'
  <2>1. CASE i = j
    <3>1. job'[i] = row /\ operations'[i] = ops /\ import'[i] = im
             /\ reader'[i] = rd
      BY <2>1 DEF Parts
    <3>2. QED
      BY <3>1, Zenon DEF JobIsFine
  <2>2. CASE i # j
    <3>1. job'[i] = job[i] /\ operations'[i] = operations[i]
             /\ import'[i] = import[i] /\ reader'[i] = reader[i]
      BY <2>2 DEF Parts
    <3>2. JobIsFine(i)
      BY DEF Parts
    <3>3. QED
      BY <3>1, <3>2, Zenon DEF JobIsFine
  <2>3. QED
    BY <2>1, <2>2
<1>3. /\ upstream' \in [Upstreams -> UpstreamRows]
      /\ edit' \in [Admins -> Edits] /\ IdReserved'
  BY DEF Parts, IdReserved
<1>4. QED
  BY <1>1, <1>2, <1>3 DEF Parts

\* What the invariant says of a job and its reader, and how an unchanged one
\* is written.
LEMMA JobFacts ==
    ASSUME Parts, NEW j \in Jobs
    PROVE  /\ job[j] \in JobRows /\ operations[j] \in Rows
           /\ import[j] \in Imports /\ reader[j] \in Readers
           /\ JobFine(job[j], operations[j], reader[j], import[j].pc,
                      import[j].document, import[j].allowlist,
                      import[j].unsure, import[j].answer)
           /\ job = [job EXCEPT ![j] = job[j]]
           /\ operations = [operations EXCEPT ![j] = operations[j]]
           /\ import = [import EXCEPT ![j] = import[j]]
           /\ reader = [reader EXCEPT ![j] = reader[j]]
<1>1. /\ job[j] \in JobRows /\ operations[j] \in Rows
      /\ import[j] \in Imports /\ reader[j] \in Readers
      /\ JobIsFine(j)
  BY DEF Parts
<1>2. /\ job = [job EXCEPT ![j] = job[j]]
      /\ operations = [operations EXCEPT ![j] = operations[j]]
      /\ import = [import EXCEPT ![j] = import[j]]
      /\ reader = [reader EXCEPT ![j] = reader[j]]
  BY DEF Parts
<1>3. QED
  BY <1>1, <1>2, Zenon DEF JobIsFine

\* A handler takes its job to a row and operations, and goes on.
LEMMA GotoKeeps ==
    ASSUME Parts, NEW j \in Jobs, NEW row \in JobRows, NEW ops \in Rows,
           NEW label \in Labels, Goto(j, label),
           JobFine(row, ops, reader[j], label, import[j].document,
                   import[j].allowlist, import[j].unsure, import[j].answer),
           job' = [job EXCEPT ![j] = row],
           operations' = [operations EXCEPT ![j] = ops],
           UNCHANGED <<upstream, edit, reader>>
    PROVE  Parts'
<1> DEFINE im == [import[j] EXCEPT !.pc = label]
<1>1. import[j] \in Imports /\ reader[j] \in Readers
         /\ reader = [reader EXCEPT ![j] = reader[j]]
  BY JobFacts
<1>2. import' = [import EXCEPT ![j] = im]
  BY DEF Goto
<1>3. label \in Labels
  OBVIOUS
<1>4. /\ im \in Imports /\ im.pc = label /\ im.document = import[j].document
      /\ im.allowlist = import[j].allowlist /\ im.unsure = import[j].unsure
      /\ im.answer = import[j].answer
  BY <1>1, <1>3 DEF Imports
<1> HIDE DEF im
<1>5. JobFine(row, ops, reader[j], im.pc, im.document, im.allowlist,
              im.unsure, im.answer)
  BY <1>4, Zenon
<1>6. reader' = [reader EXCEPT ![j] = reader[j]] /\ UNCHANGED <<upstream, edit>>
  BY <1>1, Zenon
<1>7. QED
  BY <1>1, <1>2, <1>4, <1>5, <1>6, JobMove, Zenon

\* A handler takes its job to a row and operations, and answers.
LEMMA AnswerKeeps ==
    ASSUME Parts, NEW j \in Jobs, NEW row \in JobRows, NEW ops \in Rows,
           NEW answer \in Answers, Answer(j, answer),
           JobFine(row, ops, reader[j], "done", import[j].document,
                   import[j].allowlist, import[j].unsure, answer),
           job' = [job EXCEPT ![j] = row],
           operations' = [operations EXCEPT ![j] = ops],
           UNCHANGED <<upstream, edit, reader>>
    PROVE  Parts'
<1> DEFINE done == "done"
           im == [import[j] EXCEPT !.pc = done, !.answer = answer]
<1>1. import[j] \in Imports /\ reader[j] \in Readers
         /\ reader = [reader EXCEPT ![j] = reader[j]]
  BY JobFacts
<1>2. import' = [import EXCEPT ![j] = im]
  BY DEF Answer
<1>3. done \in Labels /\ answer \in Answers
  BY DEF Labels
<1>4. JobFine(row, ops, reader[j], done, import[j].document,
              import[j].allowlist, import[j].unsure, answer)
  OBVIOUS
<1> HIDE DEF done
<1>5. /\ im \in Imports /\ im.pc = done /\ im.document = import[j].document
      /\ im.allowlist = import[j].allowlist /\ im.unsure = import[j].unsure
      /\ im.answer = answer
  BY <1>1, <1>3 DEF Imports
<1> HIDE DEF im
<1>6. JobFine(row, ops, reader[j], im.pc, im.document, im.allowlist,
              im.unsure, im.answer)
  BY <1>5, <1>4, Zenon
<1>7. reader' = [reader EXCEPT ![j] = reader[j]] /\ UNCHANGED <<upstream, edit>>
  BY <1>1, Zenon
<1>8. QED
  BY <1>1, <1>2, <1>5, <1>6, <1>7, JobMove, Zenon

\* The insert of a job, or its refusal.
LEMMA InsertJobKeeps ==
    ASSUME Parts, NEW j \in Jobs, InsertJob(j)
    PROVE  Parts'
<1>1. /\ job[j] \in JobRows /\ operations[j] \in Rows
      /\ JobFine(job[j], operations[j], reader[j], import[j].pc,
                 import[j].document, import[j].allowlist,
                 import[j].unsure, import[j].answer)
      /\ job = [job EXCEPT ![j] = job[j]]
      /\ operations = [operations EXCEPT ![j] = operations[j]]
  BY JobFacts
<1>2. CASE upstream[import[j].upstream].status = "active"
  <2>1. JobFine("validating", operations[j], reader[j], "mark",
                import[j].document, import[j].allowlist, import[j].unsure,
                import[j].answer)
    BY <1>1, <1>2 DEF InsertJob, JobFine, Open, NoRow, Gone
  <2>2. "validating" \in JobRows /\ operations[j] \in Rows /\ "mark" \in Labels
    BY <1>1 DEF JobRows, JobStatuses, Labels
  <2>3. /\ Goto(j, "mark")
        /\ job' = [job EXCEPT ![j] = "validating"]
        /\ operations' = [operations EXCEPT ![j] = operations[j]]
        /\ UNCHANGED <<upstream, edit, reader>>
    BY <1>1, <1>2 DEF InsertJob
  <2>4. QED
    BY <2>1, <2>2, <2>3, GotoKeeps, Zenon
<1>3. CASE upstream[import[j].upstream].status # "active"
  <2>1. JobFine(job[j], operations[j], reader[j], "done",
                import[j].document, import[j].allowlist, import[j].unsure,
                "refused")
    BY <1>1, <1>3 DEF InsertJob, JobFine, Open, NoRow, Gone
  <2>2. job[j] \in JobRows /\ operations[j] \in Rows /\ "refused" \in Answers
    BY <1>1 DEF JobRows, JobStatuses, Answers
  <2>3. /\ Answer(j, "refused")
        /\ job' = [job EXCEPT ![j] = job[j]]
        /\ operations' = [operations EXCEPT ![j] = operations[j]]
        /\ UNCHANGED <<upstream, edit, reader>>
    BY <1>1, <1>3 DEF InsertJob
  <2>4. QED
    BY <2>1, <2>2, <2>3, AnswerKeeps, Zenon
<1>4. QED
  BY <1>2, <1>3 DEF InsertJob

\* The job is marked, or is to be failed.
LEMMA MarkParsingKeeps ==
    ASSUME Parts, NEW j \in Jobs, MarkParsing(j)
    PROVE  Parts'
<1>1. /\ job[j] \in JobRows /\ operations[j] \in Rows
      /\ JobFine(job[j], operations[j], reader[j], import[j].pc,
                 import[j].document, import[j].allowlist,
                 import[j].unsure, import[j].answer)
      /\ job = [job EXCEPT ![j] = job[j]]
      /\ operations = [operations EXCEPT ![j] = operations[j]]
  BY JobFacts
<1>2. CASE job[j] = "validating"
  <2>1. JobFine("parsing", operations[j], reader[j], "parse",
                import[j].document, import[j].allowlist, import[j].unsure,
                import[j].answer)
    BY <1>1, <1>2 DEF MarkParsing, JobFine, Open, NoRow, Gone
  <2>2. "parsing" \in JobRows /\ operations[j] \in Rows /\ "parse" \in Labels
    BY <1>1 DEF JobRows, JobStatuses, Labels
  <2>3. /\ Goto(j, "parse")
        /\ job' = [job EXCEPT ![j] = "parsing"]
        /\ operations' = [operations EXCEPT ![j] = operations[j]]
        /\ UNCHANGED <<upstream, edit, reader>>
    BY <1>1, <1>2 DEF MarkParsing
  <2>4. QED
    BY <2>1, <2>2, <2>3, GotoKeeps, Zenon
<1>3. CASE job[j] # "validating"
  <2>1. JobFine(job[j], operations[j], reader[j], "fail",
                import[j].document, import[j].allowlist, import[j].unsure,
                import[j].answer)
    BY <1>1, <1>3 DEF MarkParsing, JobFine, Open, NoRow, Gone
  <2>2. job[j] \in JobRows /\ operations[j] \in Rows /\ "fail" \in Labels
    BY <1>1 DEF JobRows, JobStatuses, Labels
  <2>3. /\ Goto(j, "fail")
        /\ job' = [job EXCEPT ![j] = job[j]]
        /\ operations' = [operations EXCEPT ![j] = operations[j]]
        /\ UNCHANGED <<upstream, edit, reader>>
    BY <1>1, <1>3 DEF MarkParsing
  <2>4. QED
    BY <2>1, <2>2, <2>3, GotoKeeps, Zenon
<1>4. QED
  BY <1>2, <1>3 DEF MarkParsing

\* The parser raises, or not.
LEMMA ParseKeeps ==
    ASSUME Parts, NEW j \in Jobs, Parse(j)
    PROVE  Parts'
<1>1. /\ job[j] \in JobRows /\ operations[j] \in Rows
      /\ JobFine(job[j], operations[j], reader[j], import[j].pc,
                 import[j].document, import[j].allowlist,
                 import[j].unsure, import[j].answer)
      /\ job = [job EXCEPT ![j] = job[j]]
      /\ operations = [operations EXCEPT ![j] = operations[j]]
  BY JobFacts
<1>2. CASE WellFormed(Content[import[j].document], import[j].allowlist)
  <2>1. JobFine(job[j], operations[j], reader[j], "complete",
                import[j].document, import[j].allowlist, import[j].unsure,
                import[j].answer)
    BY <1>1, <1>2 DEF Parse, JobFine, Open, NoRow, Gone
  <2>2. job[j] \in JobRows /\ operations[j] \in Rows /\ "complete" \in Labels
    BY <1>1 DEF JobRows, JobStatuses, Labels
  <2>3. /\ Goto(j, "complete")
        /\ job' = [job EXCEPT ![j] = job[j]]
        /\ operations' = [operations EXCEPT ![j] = operations[j]]
        /\ UNCHANGED <<upstream, edit, reader>>
    BY <1>1, <1>2 DEF Parse, ParserRaises
  <2>4. QED
    BY <2>1, <2>2, <2>3, GotoKeeps, Zenon
<1>3. CASE ~WellFormed(Content[import[j].document], import[j].allowlist)
  <2>1. JobFine(job[j], operations[j], reader[j], "fail",
                import[j].document, import[j].allowlist, import[j].unsure,
                import[j].answer)
    BY <1>1, <1>3 DEF Parse, JobFine, Open, NoRow, Gone
  <2>2. job[j] \in JobRows /\ operations[j] \in Rows /\ "fail" \in Labels
    BY <1>1 DEF JobRows, JobStatuses, Labels
  <2>3. /\ Goto(j, "fail")
        /\ job' = [job EXCEPT ![j] = job[j]]
        /\ operations' = [operations EXCEPT ![j] = operations[j]]
        /\ UNCHANGED <<upstream, edit, reader>>
    BY <1>1, <1>3 DEF Parse, ParserRaises
  <2>4. QED
    BY <2>1, <2>2, <2>3, GotoKeeps, Zenon
<1>4. QED
  BY <1>2, <1>3 DEF Parse

\* The operations are stored, or the job is to be failed.
LEMMA CompleteJobKeeps ==
    ASSUME Parts, NEW j \in Jobs, CompleteJob(j)
    PROVE  Parts'
<1>1. /\ job[j] \in JobRows /\ operations[j] \in Rows
      /\ JobFine(job[j], operations[j], reader[j], import[j].pc,
                 import[j].document, import[j].allowlist,
                 import[j].unsure, import[j].answer)
      /\ job = [job EXCEPT ![j] = job[j]]
      /\ operations = [operations EXCEPT ![j] = operations[j]]
  BY JobFacts
<1>2. Operations(j) \in Rows
  BY JobFacts DEF Imports, Rows, Operations
<1>3. CASE job[j] = "parsing"
  <2>1. JobFine("completed", Operations(j), reader[j], "done",
                import[j].document, import[j].allowlist, import[j].unsure,
                "imported")
    BY <1>1, <1>3, <1>2
       DEF CompleteJob, JobFine, Operations, Open, NoRow, Gone
  <2>2. "completed" \in JobRows /\ Operations(j) \in Rows /\ "imported" \in Answers
    BY <1>1, <1>2 DEF JobRows, JobStatuses, Answers
  <2>3. /\ Answer(j, "imported")
        /\ job' = [job EXCEPT ![j] = "completed"]
        /\ operations' = [operations EXCEPT ![j] = Operations(j)]
        /\ UNCHANGED <<upstream, edit, reader>>
    BY <1>1, <1>3 DEF CompleteJob, Completes
  <2>4. QED
    BY <2>1, <2>2, <2>3, AnswerKeeps, Zenon
<1>4. CASE job[j] # "parsing"
  <2>1. JobFine(job[j], operations[j], reader[j], "fail",
                import[j].document, import[j].allowlist, import[j].unsure,
                import[j].answer)
    BY <1>1, <1>4 DEF CompleteJob, JobFine, Open, NoRow, Gone
  <2>2. job[j] \in JobRows /\ operations[j] \in Rows /\ "fail" \in Labels
    BY <1>1 DEF JobRows, JobStatuses, Labels
  <2>3. /\ Goto(j, "fail")
        /\ job' = [job EXCEPT ![j] = job[j]]
        /\ operations' = [operations EXCEPT ![j] = operations[j]]
        /\ UNCHANGED <<upstream, edit, reader>>
    BY <1>1, <1>4 DEF CompleteJob, Completes
  <2>4. QED
    BY <2>1, <2>2, <2>3, GotoKeeps, Zenon
<1>5. QED
  BY <1>3, <1>4 DEF CompleteJob

\* The job is failed if it still can be, and the error raised.
LEMMA FailJobKeeps ==
    ASSUME Parts, NEW j \in Jobs, FailJob(j)
    PROVE  Parts'
<1>1. /\ job[j] \in JobRows /\ operations[j] \in Rows
      /\ JobFine(job[j], operations[j], reader[j], import[j].pc,
                 import[j].document, import[j].allowlist,
                 import[j].unsure, import[j].answer)
      /\ job = [job EXCEPT ![j] = job[j]]
      /\ operations = [operations EXCEPT ![j] = operations[j]]
  BY JobFacts
<1>2. CASE Failable(j)
  <2>1. JobFine("failed", operations[j], reader[j], "done",
                import[j].document, import[j].allowlist, import[j].unsure,
                "error")
    BY <1>1, <1>2
       DEF FailJob, FailStarts, Failable, JobFine, Open, NoRow, Gone
  <2>2. "failed" \in JobRows /\ operations[j] \in Rows /\ "error" \in Answers
    BY <1>1 DEF JobRows, JobStatuses, Answers
  <2>3. /\ Answer(j, "error")
        /\ job' = [job EXCEPT ![j] = "failed"]
        /\ operations' = [operations EXCEPT ![j] = operations[j]]
        /\ UNCHANGED <<upstream, edit, reader>>
    BY <1>1, <1>2 DEF FailJob
  <2>4. QED
    BY <2>1, <2>2, <2>3, AnswerKeeps, Zenon
<1>3. CASE ~Failable(j)
  <2>1. JobFine(job[j], operations[j], reader[j], "done",
                import[j].document, import[j].allowlist, import[j].unsure,
                "error")
    BY <1>1, <1>3
       DEF FailJob, FailStarts, Failable, JobFine, Open, NoRow, Gone
  <2>2. job[j] \in JobRows /\ operations[j] \in Rows /\ "error" \in Answers
    BY <1>1 DEF JobRows, JobStatuses, Answers
  <2>3. /\ Answer(j, "error")
        /\ job' = [job EXCEPT ![j] = job[j]]
        /\ operations' = [operations EXCEPT ![j] = operations[j]]
        /\ UNCHANGED <<upstream, edit, reader>>
    BY <1>1, <1>3 DEF FailJob
  <2>4. QED
    BY <2>1, <2>2, <2>3, AnswerKeeps, Zenon
<1>4. QED
  BY <1>2, <1>3 DEF FailJob

\* Nobody takes the job further, whether its last write took effect or not.
LEMMA ImportLostKeeps ==
    ASSUME Parts, NEW j \in Jobs, ImportLost(j)
    PROVE  Parts'
<1>1. /\ job[j] \in JobRows /\ operations[j] \in Rows
      /\ JobFine(job[j], operations[j], reader[j], import[j].pc,
                 import[j].document, import[j].allowlist,
                 import[j].unsure, import[j].answer)
      /\ job = [job EXCEPT ![j] = job[j]]
      /\ operations = [operations EXCEPT ![j] = operations[j]]
  BY JobFacts
<1>2. CASE UNCHANGED job
  <2>1. JobFine(job[j], operations[j], reader[j], "lost",
                import[j].document, import[j].allowlist, import[j].unsure,
                import[j].answer)
    BY <1>1, <1>2 DEF ImportLost, JobFine, Open, NoRow, Gone
  <2>2. job[j] \in JobRows /\ operations[j] \in Rows /\ "lost" \in Labels
    BY <1>1 DEF JobRows, JobStatuses, Labels
  <2>3. /\ Goto(j, "lost")
        /\ job' = [job EXCEPT ![j] = job[j]]
        /\ operations' = [operations EXCEPT ![j] = operations[j]]
        /\ UNCHANGED <<upstream, edit, reader>>
    BY <1>1, <1>2 DEF ImportLost
  <2>4. QED
    BY <2>1, <2>2, <2>3, GotoKeeps, Zenon
<1>3. CASE import[j].pc = "insert" /\ job' = [job EXCEPT ![j] = "validating"]
  <2>1. JobFine("validating", operations[j], reader[j], "lost",
                import[j].document, import[j].allowlist, import[j].unsure,
                import[j].answer)
    BY <1>1, <1>3 DEF ImportLost, JobFine, Open, NoRow, Gone
  <2>2. "validating" \in JobRows /\ operations[j] \in Rows /\ "lost" \in Labels
    BY <1>1 DEF JobRows, JobStatuses, Labels
  <2>3. /\ Goto(j, "lost")
        /\ job' = [job EXCEPT ![j] = "validating"]
        /\ operations' = [operations EXCEPT ![j] = operations[j]]
        /\ UNCHANGED <<upstream, edit, reader>>
    BY <1>1, <1>3 DEF ImportLost
  <2>4. QED
    BY <2>1, <2>2, <2>3, GotoKeeps, Zenon
<1>4. CASE import[j].pc = "fail" /\ Failable(j) /\ job' = [job EXCEPT ![j] = "failed"]
  <2>1. JobFine("failed", operations[j], reader[j], "lost",
                import[j].document, import[j].allowlist, import[j].unsure,
                import[j].answer)
    BY <1>1, <1>4 DEF ImportLost, Failable, JobFine, Open, NoRow, Gone
  <2>2. "failed" \in JobRows /\ operations[j] \in Rows /\ "lost" \in Labels
    BY <1>1 DEF JobRows, JobStatuses, Labels
  <2>3. /\ Goto(j, "lost")
        /\ job' = [job EXCEPT ![j] = "failed"]
        /\ operations' = [operations EXCEPT ![j] = operations[j]]
        /\ UNCHANGED <<upstream, edit, reader>>
    BY <1>1, <1>4 DEF ImportLost
  <2>4. QED
    BY <2>1, <2>2, <2>3, GotoKeeps, Zenon
<1>5. QED
  BY <1>2, <1>3, <1>4 DEF ImportLost

\* A document is read for a new job, or refused.
LEMMA ReadDocumentKeeps ==
    ASSUME Parts, NEW j \in Jobs, ReadDocument(j)
    PROVE  Parts'
<1>1. /\ job[j] \in JobRows /\ operations[j] \in Rows /\ reader[j] \in Readers
      /\ JobFine(job[j], operations[j], reader[j], import[j].pc,
                 import[j].document, import[j].allowlist,
                 import[j].unsure, import[j].answer)
      /\ job = [job EXCEPT ![j] = job[j]]
      /\ operations = [operations EXCEPT ![j] = operations[j]]
      /\ reader = [reader EXCEPT ![j] = reader[j]]
  BY JobFacts
<1>2. ASSUME NEW u \in Upstreams, NEW d \in Documents, NEW a \in Allowlists,
             import' = [import EXCEPT ![j] =
                [NoImport EXCEPT !.pc = "insert", !.upstream = u,
                                 !.document = d, !.allowlist = a]]
      PROVE  Parts'
  <2> DEFINE im == [NoImport EXCEPT !.pc = "insert", !.upstream = u,
                                    !.document = d, !.allowlist = a]
  <2>1. /\ im \in Imports /\ im.pc = "insert" /\ im.document = d
        /\ im.allowlist = a /\ im.answer = "none"
    BY DEF NoImport, Imports, Labels, Answers
  <2> HIDE DEF im
  <2>2. JobFine(job[j], operations[j], reader[j], im.pc, im.document,
                im.allowlist, im.unsure, im.answer)
    <3>1. ASSUME NEW f
          PROVE  JobFine(job[j], operations[j], reader[j], "insert", d, a, f,
                         "none")
      BY <1>1 DEF ReadDocument, JobFine, Open, NoRow, Gone
    <3>2. QED
      BY <2>1, <3>1, Zenon
  <2>3. /\ job' = [job EXCEPT ![j] = job[j]]
        /\ operations' = [operations EXCEPT ![j] = operations[j]]
        /\ reader' = [reader EXCEPT ![j] = reader[j]]
        /\ UNCHANGED <<upstream, edit>>
    BY <1>1 DEF ReadDocument
  <2>4. import' = [import EXCEPT ![j] = im]
    BY <1>2 DEF im
  <2>5. QED
    BY <1>1, <2>1, <2>2, <2>3, <2>4, JobMove, Zenon
<1>3. CASE Answer(j, "refused")
  <2>1. JobFine(job[j], operations[j], reader[j], "done",
                import[j].document, import[j].allowlist, import[j].unsure,
                "refused")
    BY <1>1 DEF ReadDocument, JobFine, Open, NoRow, Gone
  <2>2. "refused" \in Answers
    BY DEF Answers
  <2>3. /\ job' = [job EXCEPT ![j] = job[j]]
        /\ operations' = [operations EXCEPT ![j] = operations[j]]
        /\ UNCHANGED <<upstream, edit, reader>>
    BY <1>1 DEF ReadDocument
  <2>4. QED
    BY <1>1, <1>3, <2>1, <2>2, <2>3, AnswerKeeps, Zenon
<1>4. QED
  BY <1>2, <1>3 DEF ReadDocument

\* A transaction that the try block catches fails, its commit taken effect or
\* not.
LEMMA TransactionFailsKeeps ==
    ASSUME Parts, NEW j \in Jobs, TransactionFails(j)
    PROVE  Parts'
<1> DEFINE Made(f) == [import[j] EXCEPT !.pc = "fail", !.unsure = f]
<1>1. /\ job[j] \in JobRows /\ operations[j] \in Rows /\ reader[j] \in Readers
      /\ import[j] \in Imports
      /\ JobFine(job[j], operations[j], reader[j], import[j].pc,
                 import[j].document, import[j].allowlist,
                 import[j].unsure, import[j].answer)
      /\ job = [job EXCEPT ![j] = job[j]]
      /\ operations = [operations EXCEPT ![j] = operations[j]]
      /\ reader = [reader EXCEPT ![j] = reader[j]]
  BY JobFacts
<1>2. \A f \in BOOLEAN :
         /\ Made(f) \in Imports /\ Made(f).pc = "fail"
         /\ Made(f).document = import[j].document
         /\ Made(f).allowlist = import[j].allowlist
         /\ Made(f).unsure = f /\ Made(f).answer = import[j].answer
  BY <1>1 DEF Imports, Labels
<1>3. import' = [import EXCEPT ![j] = Made(TRUE)]
  BY DEF TransactionFails
<1> HIDE DEF Made
<1>4. /\ Made(TRUE) \in Imports /\ Made(TRUE).pc = "fail"
      /\ Made(TRUE).document = import[j].document
      /\ Made(TRUE).allowlist = import[j].allowlist
      /\ Made(TRUE).unsure /\ Made(TRUE).answer = import[j].answer
  BY <1>2, Zenon
<1>5. ASSUME NEW row \in JobRows, NEW ops \in Rows,
             \A f : f => JobFine(row, ops, reader[j], "fail",
                                 import[j].document, import[j].allowlist, f,
                                 import[j].answer),
             job' = [job EXCEPT ![j] = row],
             operations' = [operations EXCEPT ![j] = ops]
      PROVE  Parts'
  <2>1. JobFine(row, ops, reader[j], Made(TRUE).pc, Made(TRUE).document,
                Made(TRUE).allowlist, Made(TRUE).unsure, Made(TRUE).answer)
    BY <1>4, <1>5, Zenon
  <2>2. reader' = [reader EXCEPT ![j] = reader[j]]
           /\ UNCHANGED <<upstream, edit>>
    BY <1>1 DEF TransactionFails
  <2>3. QED
    BY <1>1, <1>3, <1>4, <1>5, <2>1, <2>2, JobMove, Zenon
<1>6. CASE import[j].pc \in {"mark", "complete"} /\ UNCHANGED <<job, operations>>
  <2>1. ASSUME NEW f, f
        PROVE  JobFine(job[j], operations[j], reader[j], "fail",
                       import[j].document, import[j].allowlist, f,
                       import[j].answer)
    BY <1>1, <1>6, <2>1 DEF JobFine, Open, NoRow, Gone
  <2>2. /\ job' = [job EXCEPT ![j] = job[j]]
        /\ operations' = [operations EXCEPT ![j] = operations[j]]
    BY <1>1, <1>6
  <2>3. QED
    BY <1>1, <1>5, <2>1, <2>2, Zenon
<1>7. CASE /\ import[j].pc = "mark" /\ job[j] = "validating"
           /\ job' = [job EXCEPT ![j] = "parsing"] /\ UNCHANGED operations
  <2> DEFINE row == "parsing"
  <2>1. ASSUME NEW f, f
        PROVE  JobFine(row, operations[j], reader[j], "fail",
                       import[j].document, import[j].allowlist, f,
                       import[j].answer)
    BY <1>1, <1>7, <2>1 DEF JobFine, Open, NoRow, Gone
  <2>2. /\ job' = [job EXCEPT ![j] = row] /\ row \in JobRows
        /\ operations' = [operations EXCEPT ![j] = operations[j]]
    BY <1>1, <1>7 DEF JobRows, JobStatuses
  <2> HIDE DEF row
  <2>3. QED
    BY <1>1, <1>5, <2>1, <2>2, Zenon
<1>8. CASE import[j].pc = "complete" /\ job[j] = "parsing" /\ Completes(j)
  <2> DEFINE row == "completed"
  <2>1. ASSUME NEW f, f
        PROVE  JobFine(row, Operations(j), reader[j], "fail",
                       import[j].document, import[j].allowlist, f,
                       import[j].answer)
    BY <1>1, <1>8, <2>1 DEF JobFine, Open, NoRow, Gone, Operations
  <2>2. Operations(j) \in Rows
    BY <1>1 DEF Imports, Rows, Operations
  <2>3. /\ job' = [job EXCEPT ![j] = row] /\ row \in JobRows
        /\ operations' = [operations EXCEPT ![j] = Operations(j)]
    BY <1>8 DEF JobRows, JobStatuses, Completes
  <2> HIDE DEF row
  <2>4. QED
    BY <1>5, <2>1, <2>2, <2>3, Zenon
<1>9. QED
  BY <1>6, <1>7, <1>8 DEF TransactionFails

\* A statement of a reader.
LEMMA ReadKeeps ==
    ASSUME Parts, NEW j \in Jobs, Read(j)
    PROVE  Parts'
<1>1. /\ job[j] \in JobRows /\ operations[j] \in Rows /\ reader[j] \in Readers
      /\ import[j] \in Imports
      /\ JobFine(job[j], operations[j], reader[j], import[j].pc,
                 import[j].document, import[j].allowlist,
                 import[j].unsure, import[j].answer)
      /\ job = [job EXCEPT ![j] = job[j]]
      /\ operations = [operations EXCEPT ![j] = operations[j]]
      /\ import = [import EXCEPT ![j] = import[j]]
  BY JobFacts
<1>2. /\ job' = [job EXCEPT ![j] = job[j]]
      /\ operations' = [operations EXCEPT ![j] = operations[j]]
      /\ import' = [import EXCEPT ![j] = import[j]]
      /\ UNCHANGED <<upstream, edit>>
  BY <1>1 DEF Read
<1>3. ASSUME NEW rd \in Readers,
             reader' = [reader EXCEPT ![j] = rd],
             rd.statement = 3 /\ rd.status = "completed" =>
                 \/ rd.operations = [document |-> import[j].document,
                                     allowlist |-> import[j].allowlist]
                 \/ job[j] = Gone,
             rd.status = "completed" => job[j] \in {"completed", Gone}
      PROVE  Parts'
  <2>1. JobFine(job[j], operations[j], rd, import[j].pc, import[j].document,
                import[j].allowlist, import[j].unsure, import[j].answer)
    BY <1>1, <1>3, Zenon DEF JobFine
  <2>2. QED
    BY <1>1, <1>2, <1>3, <2>1, JobMove, Zenon
<1>4. reader[j].statement \in {1, 2} /\ reader \in [Jobs -> Readers]
  <2>1. Len(Statements) = 2
    BY DEF Statements
  <2>2. reader[j].statement \in 1..3
    BY <1>1 DEF Readers
  <2>3. QED
    BY <2>1, <2>2 DEF Read, Parts
<1>5. /\ Statements[1] = "job" /\ Statements[2] = "operations"
  BY DEF Statements
<1>6. CASE reader[j].statement = 2
  <2> DEFINE next == reader[j].statement + 1
             rd == [reader[j] EXCEPT !.statement = next,
                                     !.operations = operations[j]]
  <2>1. reader' = [reader EXCEPT ![j] = rd]
    <3>1. Statements[reader[j].statement] = "operations"
      BY <1>5, <1>6
    <3>2. QED
      BY <3>1, Zenon DEF Read
  <2>2. /\ rd \in Readers /\ rd.status = reader[j].status
        /\ rd.operations = operations[j]
    <3>1. reader[j] \in Readers /\ operations[j] \in Rows
      BY <1>1
    <3>2. next \in 1..3
      BY <1>6
    <3> HIDE DEF next
    <3>3. QED
      BY <3>1, <3>2 DEF Readers
  <2> HIDE DEF rd
  <2>3. /\ reader[j].status = "completed" => job[j] \in {"completed", Gone}
        /\ job[j] = "completed" =>
              operations[j] = [document |-> import[j].document,
                               allowlist |-> import[j].allowlist]
    BY <1>1 DEF JobFine
  <2>4. /\ rd.status = "completed" =>
              \/ rd.operations = [document |-> import[j].document,
                                  allowlist |-> import[j].allowlist]
              \/ job[j] = Gone
        /\ rd.status = "completed" => job[j] \in {"completed", Gone}
    BY <2>2, <2>3
  <2>5. QED
    BY <1>3, <2>1, <2>2, <2>4, Zenon
<1>7. CASE reader[j].statement = 1 /\ job[j] \in JobStatuses
  <2> DEFINE next == reader[j].statement + 1
             rd == [reader[j] EXCEPT !.statement = next, !.status = job[j]]
  <2>1. reader' = [reader EXCEPT ![j] = rd]
    <3>1. Statements[reader[j].statement] # "operations"
      BY <1>5, <1>7
    <3>2. QED
      BY <3>1, <1>7, Zenon DEF Read
  <2>2. next \in 1..3 /\ next # 3
    BY <1>7
  <2>3. rd \in Readers /\ rd.statement = next /\ rd.status = job[j]
    <3>1. reader[j] \in Readers /\ job[j] \in JobStatuses
      BY <1>1, <1>7
    <3> HIDE DEF next
    <3>2. QED
      BY <3>1, <2>2 DEF Readers
  <2> HIDE DEF rd
  <2>4. /\ ~(rd.statement = 3)
        /\ rd.status = "completed" => job[j] \in {"completed", Gone}
    BY <2>2, <2>3
  <2>5. QED
    BY <1>3, <2>1, <2>3, <2>4
<1>8. CASE reader[j].statement = 1 /\ job[j] \notin JobStatuses
  <2> DEFINE rd == NotFound
  <2>1. reader' = [reader EXCEPT ![j] = rd]
    BY <1>5, <1>8 DEF Read
  <2>2. rd \in Readers /\ rd.status # "completed"
    <3>1. NoOperations \in Rows
      BY DEF NoOperations, Rows
    <3>2. QED
      BY <3>1 DEF NotFound, NoRead, Readers, NoRow
  <2> HIDE DEF rd
  <2>3. QED
    BY <1>3, <2>1, <2>2
<1>9. QED
  BY <1>4, <1>6, <1>7, <1>8

-----------------------------------------------------------------------------
(***************************************************************************)
(* Upstreams and the reset                                                 *)
(***************************************************************************)
\* A step that reserves no id keeps the invariant when it leaves the ids that
\* are reserved without a row.
LEMMA UpstreamMove ==
    ASSUME Parts, UNCHANGED <<job, operations, import, reader>>,
           upstream' \in [Upstreams -> UpstreamRows],
           edit' \in [Admins -> Edits],
           \A b \in Admins : edit'[b].kind = "register" =>
              /\ edit[b].kind = "register"
              /\ edit'[b].upstream = edit[b].upstream
              /\ upstream'[edit[b].upstream].status = NoRow
    PROVE  Parts'
<1>1. /\ job' \in [Jobs -> JobRows] /\ operations' \in [Jobs -> Rows]
      /\ import' \in [Jobs -> Imports] /\ reader' \in [Jobs -> Readers]
  BY DEF Parts
<1>2. \A j \in Jobs : JobIsFine(j)'
  <2>1. \A j \in Jobs : JobIsFine(j)
    BY DEF Parts
  <2>2. QED
    BY <2>1, Zenon DEF JobIsFine
<1>3. IdReserved'
  BY DEF Parts, IdReserved
<1>4. QED
  BY <1>1, <1>2, <1>3 DEF Parts

\* A handler that has ended has no id, and an edit no other than its own
\* changes.
LEMMA EditEndsTyped ==
    ASSUME Parts, NEW a \in Admins, EditEnds(a)
    PROVE  /\ edit' \in [Admins -> Edits]
           /\ edit'[a].kind = "none"
           /\ \A b \in Admins : b # a => edit'[b] = edit[b]
<1> DEFINE e == [NoEdit EXCEPT !.pc = "done"]
<1>1. e \in Edits /\ e.kind = "none"
  BY DEF NoEdit, Edits
<1>2. edit' = [edit EXCEPT ![a] = e]
  BY DEF EditEnds
<1> HIDE DEF e
<1>3. QED
  BY <1>1, <1>2 DEF Parts

\* A handler that ends without a write.
LEMMA EditEndsKeeps ==
    ASSUME Parts, NEW a \in Admins, EditEnds(a),
           UNCHANGED <<upstream, job, operations, import, reader>>
    PROVE  Parts'
<1>1. /\ edit' \in [Admins -> Edits]
      /\ edit'[a].kind = "none"
      /\ \A b \in Admins : b # a => edit'[b] = edit[b]
  BY EditEndsTyped
<1>2. \A b \in Admins : edit'[b].kind = "register" =>
         edit[b].kind = "register" /\ edit'[b].upstream = edit[b].upstream
  BY <1>1
<1>3. /\ upstream' \in [Upstreams -> UpstreamRows]
      /\ \A b \in Admins : edit'[b].kind = "register" =>
            upstream'[edit[b].upstream].status = NoRow
  BY <1>2 DEF Parts, IdReserved
<1>4. QED
  BY <1>1, <1>2, <1>3, UpstreamMove

\* An edit that goes on with what it has.
LEMMA EditGoesOnKeeps ==
    ASSUME Parts, NEW a \in Admins,
           NEW label \in {"none", "policy", "lookup", "write", "done"},
           edit' = [edit EXCEPT ![a].pc = label],
           UNCHANGED <<upstream, job, operations, import, reader>>
    PROVE  Parts'
<1>1. edit' \in [Admins -> Edits]
  BY DEF Parts, Edits
<1>2. \A b \in Admins : edit'[b].kind = edit[b].kind
                           /\ edit'[b].upstream = edit[b].upstream
  BY DEF Parts, Edits
<1>3. /\ upstream' \in [Upstreams -> UpstreamRows]
      /\ \A b \in Admins : edit'[b].kind = "register" =>
            upstream'[edit[b].upstream].status = NoRow
  BY <1>2 DEF Parts, IdReserved
<1>4. QED
  BY <1>1, <1>2, <1>3, UpstreamMove

\* A registration takes an id that no row and no other registration has.
LEMMA RegisterUpstreamKeeps ==
    ASSUME Parts, NEW a \in Admins, RegisterUpstream(a)
    PROVE  Parts'
<1>1. PICK u \in Upstreams, name \in Names, endpoint \in Requested :
         /\ upstream[u].status = NoRow
         /\ \A b \in Admins : edit[b].upstream # u \/ edit[b].kind = "update"
         /\ edit' = [edit EXCEPT ![a] =
               [NoEdit EXCEPT !.pc = "policy", !.kind = "register",
                   !.upstream = u, !.name = name, !.endpoint = endpoint]]
  BY DEF RegisterUpstream
<1> DEFINE e == [NoEdit EXCEPT !.pc = "policy", !.kind = "register",
                    !.upstream = u, !.name = name, !.endpoint = endpoint]
<1>2. e \in Edits /\ e.kind = "register" /\ e.upstream = u
  BY DEF NoEdit, Edits
<1>3. edit' = [edit EXCEPT ![a] = e]
  BY <1>1
<1> HIDE DEF e
<1>4. /\ edit' \in [Admins -> Edits]
      /\ edit'[a].kind = "register" /\ edit'[a].upstream = u
      /\ \A b \in Admins : b # a => edit'[b] = edit[b]
  BY <1>2, <1>3 DEF Parts
<1>5. \A b \in Admins : edit[b].kind = "register" => edit[b].upstream # u
  BY <1>1
<1>6. IdReserved'
  BY <1>1, <1>4, <1>5 DEF Parts, IdReserved, RegisterUpstream
<1>7. /\ job' \in [Jobs -> JobRows] /\ operations' \in [Jobs -> Rows]
      /\ import' \in [Jobs -> Imports] /\ reader' \in [Jobs -> Readers]
      /\ upstream' \in [Upstreams -> UpstreamRows]
  BY DEF Parts, RegisterUpstream
<1>8. \A j \in Jobs : JobIsFine(j)'
  <2>1. \A j \in Jobs : JobIsFine(j)
    BY DEF Parts
  <2>2. UNCHANGED <<job, operations, import, reader>>
    BY DEF RegisterUpstream
  <2>3. QED
    BY <2>1, <2>2, Zenon DEF JobIsFine
<1>9. QED
  BY <1>4, <1>6, <1>7, <1>8 DEF Parts

\* An update that found its row, or not.
LEMMA UpdateUpstreamKeeps ==
    ASSUME Parts, NEW a \in Admins, UpdateUpstream(a)
    PROVE  Parts'
<1>1. PICK u \in Upstreams, endpoint \in Requested :
          IF Exists(u)
          THEN edit' = [edit EXCEPT ![a] =
                  [NoEdit EXCEPT !.pc = "policy", !.kind = "update",
                      !.upstream = u, !.endpoint = endpoint,
                      !.observed = upstream[u].status]]
          ELSE EditEnds(a)
  BY DEF UpdateUpstream
<1>2. UNCHANGED <<upstream, job, operations, import, reader>>
  BY DEF UpdateUpstream
<1>3. CASE ~Exists(u)
  BY <1>1, <1>2, <1>3, EditEndsKeeps
<1>4. CASE Exists(u)
  <2> DEFINE e == [NoEdit EXCEPT !.pc = "policy", !.kind = "update",
                      !.upstream = u, !.endpoint = endpoint,
                      !.observed = upstream[u].status]
  <2>1. e \in Edits /\ e.kind = "update"
    BY <1>4 DEF NoEdit, Edits, Exists
  <2>2. edit' = [edit EXCEPT ![a] = e]
    BY <1>1, <1>4
  <2> HIDE DEF e
  <2>3. /\ edit' \in [Admins -> Edits]
        /\ edit'[a].kind = "update"
        /\ \A b \in Admins : b # a => edit'[b] = edit[b]
    BY <2>1, <2>2 DEF Parts
  <2>4. \A b \in Admins : edit'[b].kind = "register" =>
           edit[b].kind = "register" /\ edit'[b].upstream = edit[b].upstream
    BY <2>3
  <2>5. /\ upstream' \in [Upstreams -> UpstreamRows]
        /\ \A b \in Admins : edit'[b].kind = "register" =>
              upstream'[edit[b].upstream].status = NoRow
    BY <1>2, <2>4 DEF Parts, IdReserved
  <2>6. QED
    BY <1>2, <2>3, <2>4, <2>5, UpstreamMove
<1>5. QED
  BY <1>3, <1>4

\* The endpoint policy, and the first look at the name.
LEMMA CheckEndpointKeeps ==
    ASSUME Parts, NEW a \in Admins, CheckEndpoint(a) \/ Lookup(a)
    PROVE  Parts'
<1>1. \/ EditEnds(a)
      \/ \E label \in {"none", "policy", "lookup", "write", "done"} :
            edit' = [edit EXCEPT ![a].pc = label]
  BY DEF CheckEndpoint, Lookup
<1>2. UNCHANGED <<upstream, job, operations, import, reader>>
  BY DEF CheckEndpoint, Lookup
<1>3. QED
  BY <1>1, <1>2, EditEndsKeeps, EditGoesOnKeeps

\* The insert of an upstream uses its own id, which goes with the handler.
LEMMA InsertKeeps ==
    ASSUME Parts, NEW a \in Admins, Insert(a)
    PROVE  /\ Parts'
           /\ \A u \in Upstreams :
                 upstream[u].status # NoRow => upstream'[u] = upstream[u]
<1> DEFINE u == edit[a].upstream
           row == [status |-> "active", name |-> edit[a].name,
                   endpoint |-> edit[a].endpoint]
<1>1. /\ EditEnds(a) /\ UNCHANGED <<job, operations, import, reader>>
      /\ edit[a].kind = "register"
      /\ upstream' = [upstream EXCEPT ![u] = row] \/ upstream' = upstream
  BY DEF Insert
<1>2. /\ edit' \in [Admins -> Edits]
      /\ edit'[a].kind = "none"
      /\ \A b \in Admins : b # a => edit'[b] = edit[b]
  BY <1>1, EditEndsTyped
<1>3. edit[a] \in Edits /\ u \in Upstreams /\ upstream[u].status = NoRow
  BY <1>1 DEF Parts, IdReserved
<1>4. row \in UpstreamRows
  BY <1>3 DEF Edits, UpstreamRows, UpstreamStatuses
<1>5. \A b \in Admins : edit'[b].kind = "register" =>
         /\ edit[b].kind = "register" /\ edit'[b].upstream = edit[b].upstream
         /\ edit[b].upstream # u /\ edit[b].upstream \in Upstreams
         /\ upstream[edit[b].upstream].status = NoRow
  BY <1>1, <1>2 DEF Parts, IdReserved
<1> HIDE DEF row, u
<1>6. /\ upstream' \in [Upstreams -> UpstreamRows]
      /\ \A v \in Upstreams : v # u => upstream'[v] = upstream[v]
  BY <1>1, <1>4 DEF Parts
<1>7. \A b \in Admins : edit'[b].kind = "register" =>
         upstream'[edit[b].upstream].status = NoRow
  BY <1>5, <1>6
<1>8. Parts'
  BY <1>1, <1>2, <1>5, <1>6, <1>7, UpstreamMove
<1>9. QED
  BY <1>3, <1>6, <1>8

\* An update saves the row as it is now, and its status with it.
LEMMA SaveKeeps ==
    ASSUME Parts, NEW a \in Admins, Save(a)
    PROVE  /\ Parts'
           /\ \A u \in Upstreams : upstream'[u].status = upstream[u].status
<1>1. /\ EditEnds(a) /\ UNCHANGED <<job, operations, import, reader>>
      /\ upstream' =
            IF Exists(edit[a].upstream)
            THEN [upstream EXCEPT ![edit[a].upstream] =
                     [@ EXCEPT !.endpoint = edit[a].endpoint]]
            ELSE upstream
  BY DEF Save, Updated
<1>2. /\ edit' \in [Admins -> Edits]
      /\ edit'[a].kind = "none"
      /\ \A b \in Admins : b # a => edit'[b] = edit[b]
  BY <1>1, EditEndsTyped
<1>3. edit[a] \in Edits /\ upstream \in [Upstreams -> UpstreamRows]
  BY DEF Parts
<1>4. edit[a].endpoint \in Requested \union {NoEndpoint}
  BY <1>3 DEF Edits
<1>5. /\ upstream' \in [Upstreams -> UpstreamRows]
      /\ \A u \in Upstreams : upstream'[u].status = upstream[u].status
  BY <1>1, <1>3, <1>4 DEF UpstreamRows
<1>6. \A b \in Admins : edit'[b].kind = "register" =>
         /\ edit[b].kind = "register" /\ edit'[b].upstream = edit[b].upstream
         /\ edit[b].upstream \in Upstreams
         /\ upstream[edit[b].upstream].status = NoRow
  BY <1>2 DEF Parts, IdReserved
<1>7. Parts'
  BY <1>1, <1>2, <1>5, <1>6, UpstreamMove
<1>8. QED
  BY <1>5, <1>7

\* An upstream that exists is disabled.
LEMMA DisableUpstreamKeeps ==
    ASSUME Parts, NEW u \in Upstreams, DisableUpstream(u)
    PROVE  /\ Parts'
           /\ upstream'[u].status = "disabled"
           /\ \A v \in Upstreams : v # u => upstream'[v] = upstream[v]
<1>1. /\ UNCHANGED <<job, operations, import, edit, reader>>
      /\ upstream[u].status \in UpstreamStatuses
      /\ upstream' = [upstream EXCEPT ![u] = [@ EXCEPT !.status = "disabled"]]
  BY DEF DisableUpstream, Exists, Disabled
<1>2. edit \in [Admins -> Edits] /\ upstream \in [Upstreams -> UpstreamRows]
  BY DEF Parts
<1>3. /\ upstream' \in [Upstreams -> UpstreamRows]
      /\ upstream'[u].status = "disabled"
      /\ \A v \in Upstreams : v # u => upstream'[v] = upstream[v]
  BY <1>1, <1>2 DEF UpstreamRows, UpstreamStatuses
<1>4. upstream[u].status # NoRow
  BY <1>1 DEF UpstreamStatuses, NoRow
<1>5. \A b \in Admins : edit[b].kind = "register" =>
         /\ edit[b].upstream \in Upstreams
         /\ upstream[edit[b].upstream].status = NoRow
  BY DEF Parts, IdReserved
<1>6. \A b \in Admins : edit'[b].kind = "register" =>
         /\ edit[b].kind = "register" /\ edit'[b].upstream = edit[b].upstream
         /\ upstream'[edit[b].upstream].status = NoRow
  BY <1>1, <1>3, <1>4, <1>5
<1>7. Parts'
  BY <1>1, <1>2, <1>3, <1>6, UpstreamMove
<1>8. QED
  BY <1>3, <1>7

\* The reset: a job without a row still has none, and any other is gone with
\* its operations.
LEMMA ResetKeeps ==
    ASSUME Parts, Reset
    PROVE  /\ Parts'
           /\ \A u \in Upstreams :
                 upstream[u].status # NoRow => upstream'[u].status = Gone
<1>1. /\ job' \in [Jobs -> JobRows] /\ operations' \in [Jobs -> Rows]
      /\ import' \in [Jobs -> Imports] /\ reader' \in [Jobs -> Readers]
  <2>1. NoOperations \in Rows
    BY DEF NoOperations, Rows
  <2>2. QED
    BY <2>1 DEF Parts, Reset, JobRows
<1>2. ASSUME NEW j \in Jobs
      PROVE  JobIsFine(j)'
  <2>1. JobFine(job[j], operations[j], reader[j], import[j].pc,
                import[j].document, import[j].allowlist, import[j].unsure,
                import[j].answer)
    BY Zenon DEF Parts, JobIsFine
  <2>2. /\ job'[j] = IF job[j] = NoRow THEN NoRow ELSE Gone
        /\ operations'[j] = NoOperations
        /\ import'[j] = import[j] /\ reader'[j] = reader[j]
    BY DEF Reset
  <2>3. JobFine(job'[j], operations'[j], reader[j], import[j].pc,
                import[j].document, import[j].allowlist, import[j].unsure,
                import[j].answer)
    BY <2>1, <2>2 DEF JobFine, Open, NoRow, Gone
  <2>4. QED
    BY <2>2, <2>3, Zenon DEF JobIsFine
<1>3. /\ upstream' \in [Upstreams -> UpstreamRows]
      /\ \A u \in Upstreams :
            /\ upstream[u].status = NoRow => upstream'[u].status = NoRow
            /\ upstream[u].status # NoRow => upstream'[u].status = Gone
  <2> DEFINE gone == [NoUpstream EXCEPT !.status = Gone]
  <2>1. /\ NoUpstream \in UpstreamRows /\ NoUpstream.status = NoRow
        /\ gone \in UpstreamRows /\ gone.status = Gone
    BY DEF NoUpstream, UpstreamRows
  <2>2. upstream' = [u \in Upstreams |->
                       IF upstream[u].status = NoRow THEN NoUpstream ELSE gone]
    BY DEF Reset
  <2> HIDE DEF gone
  <2>3. QED
    BY <2>1, <2>2
<1>4. edit' = edit /\ edit' \in [Admins -> Edits]
  BY DEF Reset, Parts
<1>5. IdReserved'
  BY <1>3, <1>4 DEF Parts, IdReserved
<1>6. QED
  BY <1>1, <1>2, <1>3, <1>4, <1>5 DEF Parts

-----------------------------------------------------------------------------
(***************************************************************************)
(* The theorems                                                            *)
(***************************************************************************)
\* Nothing has been asked for in the beginning.
LEMMA InitParts == Init => Parts
<1> SUFFICES ASSUME Init PROVE Parts
  OBVIOUS
<1>1. NoOperations \in Rows
  BY DEF NoOperations, Rows
<1>2. NoImport \in Imports /\ NoImport.pc = "none" /\ NoImport.answer = "none"
  BY DEF NoImport, Imports, Labels, Answers
<1>3. NoRead \in Readers /\ NoRead.status = NoRow
  BY <1>1 DEF NoRead, Readers
<1>4. NoUpstream \in UpstreamRows
  BY DEF NoUpstream, UpstreamRows
<1>5. NoEdit \in Edits /\ NoEdit.kind = "none"
  BY DEF NoEdit, Edits
<1>6. \A j \in Jobs : JobIsFine(j)
  <2>1. ASSUME NEW doc, NEW al, NEW unsure
        PROVE  JobFine(NoRow, NoOperations, NoRead, "none", doc, al, unsure,
                       "none")
    BY <1>3 DEF JobFine, NoRow, Gone, Open
  <2>2. ASSUME NEW j \in Jobs
        PROVE  /\ job[j] = NoRow /\ operations[j] = NoOperations
               /\ import[j] = NoImport /\ reader[j] = NoRead
    BY DEF Init
  <2>3. QED
    BY <1>2, <2>1, <2>2, Zenon DEF JobIsFine
<1>7. /\ job \in [Jobs -> JobRows] /\ operations \in [Jobs -> Rows]
      /\ import \in [Jobs -> Imports] /\ reader \in [Jobs -> Readers]
      /\ upstream \in [Upstreams -> UpstreamRows] /\ edit \in [Admins -> Edits]
  BY <1>1, <1>2, <1>3, <1>4, <1>5 DEF Init, JobRows
<1>8. IdReserved
  BY <1>5 DEF Init, IdReserved
<1>9. QED
  BY <1>6, <1>7, <1>8 DEF Parts

\* Every step keeps the invariant.
LEMMA NextParts == Parts /\ [Next]_vars => Parts'
<1> SUFFICES ASSUME Parts, [Next]_vars PROVE Parts'
  OBVIOUS
<1>1. ASSUME NEW a \in Admins, EditStep(a)
      PROVE  Parts'
  BY <1>1, RegisterUpstreamKeeps, UpdateUpstreamKeeps, CheckEndpointKeeps,
     InsertKeeps, SaveKeeps DEF EditStep
<1>2. ASSUME NEW u \in Upstreams, DisableUpstream(u)
      PROVE  Parts'
  BY <1>2, DisableUpstreamKeeps
<1>3. ASSUME NEW j \in Jobs, ImportStep(j)
      PROVE  Parts'
  BY <1>3, InsertJobKeeps, MarkParsingKeeps, ParseKeeps, CompleteJobKeeps,
     FailJobKeeps DEF ImportStep
<1>4. ASSUME NEW j \in Jobs,
             ReadDocument(j) \/ TransactionFails(j) \/ ImportLost(j) \/ Read(j)
      PROVE  Parts'
  BY <1>4, ReadDocumentKeeps, TransactionFailsKeeps, ImportLostKeeps, ReadKeeps
<1>5. CASE Reset
  BY <1>5, ResetKeeps
<1>6. CASE UNCHANGED vars
  <2>1. UNCHANGED <<upstream, job, operations, import, edit, reader>>
    BY <1>6 DEF vars
  <2>2. \A j \in Jobs : JobIsFine(j)'
    <3>1. \A j \in Jobs : JobIsFine(j)
      BY DEF Parts
    <3>2. QED
      BY <2>1, <3>1, Zenon DEF JobIsFine
  <2>3. QED
    BY <2>1, <2>2 DEF Parts, IdReserved
<1>7. QED
  BY <1>1, <1>2, <1>3, <1>4, <1>5, <1>6 DEF Next

\* The parser and the endpoint policy keep their promises in every state of
\* the invariant.
LEMMA PartsAreSafe == Parts => AcceptedIsSafe
<1> SUFFICES ASSUME Parts PROVE AcceptedIsSafe
  OBVIOUS
<1>1. ConflictFreeNamesUnique
  <2>1. SUFFICES ASSUME NEW j \in Jobs,
                        NEW m \in DOMAIN ImportedOperations(operations[j]),
                        NEW n \in DOMAIN ImportedOperations(operations[j]),
                        ImportedOperations(operations[j])[m].conflict = "none",
                        m # n
                 PROVE  ImportedOperations(operations[j])[m].name
                           # ImportedOperations(operations[j])[n].name
    BY DEF ConflictFreeNamesUnique
  <2>2. CASE operations[j] = NoOperations
    BY <2>1, <2>2 DEF ImportedOperations
  <2>3. CASE operations[j] # NoOperations
    <3> DEFINE document == Content[operations[j].document]
               allowlist == operations[j].allowlist
    <3>1. operations[j].document \in Documents
      <4>1. JobFine(job[j], operations[j], reader[j], import[j].pc,
                    import[j].document, import[j].allowlist,
                    import[j].unsure, import[j].answer)
        BY JobFacts
      <4>2. /\ job[j] = "completed"
            /\ operations[j] = [document |-> import[j].document,
                                allowlist |-> import[j].allowlist]
            /\ import[j].document \in Documents
        BY <2>3, <4>1 DEF JobFine, NoRow
      <4>3. QED
        BY <4>2
    <3>2. IsFiniteSet(DOMAIN document.operations)
      BY <3>1, ContentAssumption
    <3>3. ImportedOperations(operations[j]) = parse(document, allowlist)
      BY <2>3 DEF ImportedOperations
    <3> HIDE DEF document, allowlist
    <3>4. QED
      BY <2>1, <3>2, <3>3, ParsedNames
  <2>4. QED
    BY <2>2, <2>3
<1>2. ASSUME NEW j \in Jobs, import[j].pc = "complete"
      PROVE  /\ import[j].document \in Documents
             /\ WellFormed(Content[import[j].document], import[j].allowlist)
  <2>1. JobFine(job[j], operations[j], reader[j], import[j].pc,
                import[j].document, import[j].allowlist, import[j].unsure,
                import[j].answer)
    BY JobFacts
  <2>2. QED
    BY <1>2, <2>1 DEF JobFine, NoRow, Gone
<1>3. ArgumentsApart
  <2>1. SUFFICES ASSUME NEW j \in Jobs, import[j].pc = "complete",
                        NEW i \in DOMAIN Content[import[j].document].operations,
                        Plain(Content[import[j].document].operations[i])
                 PROVE  IsInjective(Arguments(
                           Content[import[j].document].operations[i]))
    BY DEF ArgumentsApart
  <2> DEFINE o == Content[import[j].document].operations[i]
  <2>2. /\ o.path_parameters \in Seq(Parameters)
        /\ o.parameters \in Seq(Parameters)
    BY <1>2, <2>1, ContentAssumption
  <2>3. Plain(o)
    BY <2>1
  <2> HIDE DEF o
  <2>4. IsInjective(Arguments(o))
    BY <2>2, <2>3, ArgumentsInjective
  <2>5. QED
    BY <2>4 DEF o
<1>4. ReferencesEnd
  <2>1. SUFFICES ASSUME NEW j \in Jobs, import[j].pc = "complete",
                        NEW i \in Allowed(Content[import[j].document],
                                          import[j].allowlist)
                 PROVE  NestsWithin(MaxRefDepth + 1,
                            Content[import[j].document].components,
                            Content[import[j].document].operations[i])
    BY DEF ReferencesEnd
  <2> DEFINE document == Content[import[j].document]
  <2>2. Resolves(document.operations[i], MaxRefDepth + 1,
                 resolve_node(document.components))
    BY <1>2, <2>1 DEF WellFormed
  <2>3. import[j].document \in Documents /\ i \in DOMAIN document.operations
    BY <1>2, <2>1 DEF Allowed
  <2>4. /\ \A r \in DOMAIN document.components : IsNode(document.components[r])
        /\ IsNode(document.operations[i])
    BY <2>3, ContentAssumption
  <2> HIDE DEF document
  <2>5. NestsWithin(MaxRefDepth + 1, document.components,
                    document.operations[i])
    BY <2>2, <2>4, ResolvedNests
  <2>6. QED
    BY <2>5 DEF document
<1>5. EgressDenies
  <2>1. SUFFICES ASSUME NEW endpoint, NEW resolved \in SUBSET Addresses,
                        EndpointAccepted(endpoint, resolved)
                 PROVE  LET reached == Reached(endpoint, resolved) IN
                        /\ reached # {} /\ "denied" \notin reached
                        /\ "loopback" \in reached =>
                              AllowLocalDemo /\ endpoint.host \in LocalDemoHosts
                        /\ "other" \in reached => endpoint.host \in AllowedHosts
    BY Zenon DEF EgressDenies
  <2> DEFINE reached == Reached(endpoint, resolved)
  <2>2. /\ reached # {}
        /\ \A address \in reached : AddressAccepted(address, endpoint.host)
    BY <2>1, AcceptedReaches
  <2> HIDE DEF reached
  <2>3. QED
    BY <2>2, AddressesAccepted, Zenon DEF reached
<1>6. QED
  BY <1>1, <1>3, <1>4, <1>5 DEF AcceptedIsSafe

\* Neither an ended job nor a disabled upstream comes back in any step.
LEMMA StepsAreFinal ==
    Parts /\ [Next]_vars => [EndedIsFinal /\ DisabledStays]_vars
<1> SUFFICES ASSUME Parts, Next PROVE EndedIsFinal /\ DisabledStays
  OBVIOUS
<1>1. EndedIsFinal
  <2>1. SUFFICES ASSUME NEW i \in Jobs, job[i] \in {"completed", "failed"}
                 PROVE  job'[i] \in {job[i], Gone}
    BY DEF EndedIsFinal
  <2>2. job \in [Jobs -> JobRows]
    BY DEF Parts
  <2>3. import[i].pc = "insert" => job[i] = NoRow
    BY JobFacts DEF JobFine
  <2>4. import[i].pc # "insert" /\ job[i] \notin Open
    BY <2>1, <2>3 DEF NoRow, Open
  <2>5. ASSUME NEW j \in Jobs,
               \/ ReadDocument(j) \/ ImportStep(j)
               \/ TransactionFails(j) \/ ImportLost(j) \/ Read(j)
        PROVE  job'[i] = job[i]
    <3>1. \/ job' = job
          \/ \E row : /\ job' = [job EXCEPT ![j] = row]
                      /\ import[j].pc = "insert" \/ job[j] \in Open
      <4>1. ReadDocument(j) \/ Parse(j) \/ Read(j) => job' = job
        BY DEF ReadDocument, Parse, Read
      <4>2. InsertJob(j) => job' = job \/ \E row :
               job' = [job EXCEPT ![j] = row] /\ import[j].pc = "insert"
        BY DEF InsertJob
      <4>3. MarkParsing(j) \/ CompleteJob(j) \/ FailJob(j) =>
               job' = job \/ \E row :
                  job' = [job EXCEPT ![j] = row] /\ job[j] \in Open
        BY DEF MarkParsing, CompleteJob, Completes, FailJob, Failable, Open
      <4>4. TransactionFails(j) => job' = job \/ \E row :
               job' = [job EXCEPT ![j] = row] /\ job[j] \in Open
        BY DEF TransactionFails, Completes, Open
      <4>5. ImportLost(j) => job' = job \/ \E row :
               /\ job' = [job EXCEPT ![j] = row]
               /\ import[j].pc = "insert" \/ job[j] \in Open
        BY DEF ImportLost, Failable
      <4>6. QED
        BY <2>5, <4>1, <4>2, <4>3, <4>4, <4>5, Zenon DEF ImportStep
    <3>2. QED
      BY <2>2, <2>4, <3>1
  <2>6. Reset => job'[i] \in {job[i], Gone}
    BY DEF Reset
  <2>7. (\E a \in Admins : EditStep(a))
           \/ (\E u \in Upstreams : DisableUpstream(u)) => job' = job
    BY DEF EditStep, RegisterUpstream, UpdateUpstream, CheckEndpoint, Lookup,
           Insert, Save, DisableUpstream
  <2>8. QED
    BY <2>5, <2>6, <2>7, Zenon DEF Next
<1>2. DisabledStays
  <2>1. SUFFICES ASSUME NEW u \in Upstreams, upstream[u].status = "disabled"
                 PROVE  upstream'[u].status \in {"disabled", Gone}
    BY DEF DisabledStays
  <2>2. upstream[u].status # NoRow
    BY <2>1 DEF NoRow
  <2>3. ASSUME NEW a \in Admins, EditStep(a)
        PROVE  upstream'[u].status = "disabled"
    <3>1. CASE Insert(a)
      BY <3>1, <2>1, <2>2, InsertKeeps
    <3>2. CASE Save(a)
      BY <3>2, <2>1, SaveKeeps
    <3>3. CASE ~Insert(a) /\ ~Save(a)
      <4>1. upstream' = upstream
        BY <2>3, <3>3 DEF EditStep, RegisterUpstream, UpdateUpstream,
                          CheckEndpoint, Lookup
      <4>2. QED
        BY <2>1, <4>1
    <3>4. QED
      BY <3>1, <3>2, <3>3
  <2>4. ASSUME NEW v \in Upstreams, DisableUpstream(v)
        PROVE  upstream'[u].status = "disabled"
    BY <2>1, <2>4, DisableUpstreamKeeps
  <2>5. ASSUME NEW j \in Jobs,
               \/ ReadDocument(j) \/ ImportStep(j)
               \/ TransactionFails(j) \/ ImportLost(j) \/ Read(j)
        PROVE  upstream' = upstream
    BY <2>5 DEF ReadDocument, ImportStep, TransactionFails, ImportLost, Read,
                InsertJob, MarkParsing, Parse, CompleteJob, FailJob
  <2>6. CASE Reset
    BY <2>2, <2>6, ResetKeeps
  <2>7. QED
    BY <2>1, <2>3, <2>4, <2>5, <2>6 DEF Next
<1>3. QED
  BY <1>1, <1>2

\* The inductive invariant of imports and upstreams holds throughout.
THEOREM ImportsInvariant == Spec => []IInv
<1>1. Spec => []Parts
  BY InitParts, NextParts, PTL DEF Spec
<1>2. QED
  BY <1>1, PartsAreIInv, PTL

\* Every row, handler and reader has its type.
THEOREM ImportsTyped == Spec => []TypeOK
<1>1. IInv => TypeOK
  BY DEF IInv
<1>2. QED
  BY <1>1, ImportsInvariant, PTL

\* Row, operations, answer and what a reader sees of an import agree, for any
\* number of imports, whatever fails and whenever the reset comes.
THEOREM ImportsAreTruthful == Spec => []ImportsTellTruth
<1>1. IInv => ImportsTellTruth
  BY DEF IInv
<1>2. QED
  BY <1>1, ImportsInvariant, PTL

\* For any documents and any endpoints: names without a conflict are unique,
\* arguments are apart, references end, and no endpoint that is accepted
\* reaches a forbidden address.
THEOREM AcceptedStaysSafe == Spec => []AcceptedIsSafe
<1>1. Spec => []Parts
  BY InitParts, NextParts, PTL DEF Spec
<1>2. QED
  BY <1>1, PartsAreSafe, PTL

\* An ended job is final and a disabled upstream stays disabled, until the
\* reset, whatever a handler saw before it wrote.
THEOREM EndedStaysEnded == Spec => NothingComesBack
<1>1. Spec => []Parts
  BY InitParts, NextParts, PTL DEF Spec
<1>2. QED
  BY <1>1, StepsAreFinal, PTL DEF Spec, NothingComesBack
=============================================================================
