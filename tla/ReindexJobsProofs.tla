------------------------- MODULE ReindexJobsProofs -------------------------
(***************************************************************************)
(* For any number of jobs, command-line runs and versions, and any batch   *)
(* sizes: a success is true, nothing waits in a circle, no job is left     *)
(* without a task, and an ended job stays as it is.                        *)
(***************************************************************************)
EXTENDS ReindexJobs, FiniteSetTheorems, SequenceTheorems,
        WellFoundedInduction, TLAPS

-----------------------------------------------------------------------------
(***************************************************************************)
(* Numbers, lists and batches                                              *)
(***************************************************************************)
\* Any versions there are have a last one.
LEMMA LastVersion ==
    ASSUME NEW S \in SUBSET Versions, S # {}
    PROVE  \E v \in S : \A w \in S : w <= v
<1> DEFINE T == {n \in Nat : NumVersions - n \in S}
           R == {ss \in Nat \X Nat : ss[1] < ss[2]}
<1>1. IsWellFoundedOn(R, Nat)
  BY NatLessThanWellFounded, Zenon DEF OpToRel
<1>2. T \subseteq Nat /\ T # {}
  <2>1. PICK v \in S : TRUE
    OBVIOUS
  <2>2. v \in Nat /\ NumVersions \in Nat /\ v <= NumVersions
    BY BoundAssumption DEF Versions
  <2>3. NumVersions - v \in Nat /\ NumVersions - (NumVersions - v) = v
    BY <2>2
  <2>4. QED
    BY <2>3
<1>3. PICK n \in T : \A m \in T : ~(<<m, n>> \in R)
  <2> HIDE DEF T, R
  <2> QED
    BY <1>1, <1>2, WFMin, Zenon
<1>4. n \in Nat /\ \A m \in T : n <= m
  <2>1. n \in Nat /\ \A m \in T : m \in Nat
    BY <1>2
  <2>2. ASSUME NEW m \in T, m < n
        PROVE  FALSE
    <3>1. <<m, n>> \in R
      BY <2>1, <2>2
    <3>2. QED
      BY <1>3, <3>1
  <2>3. QED
    BY <2>1, <2>2
<1>5. ASSUME NEW w \in S
      PROVE  w <= NumVersions - n
  <2>1. w \in Nat /\ NumVersions \in Nat /\ w <= NumVersions
    BY BoundAssumption DEF Versions
  <2>2. NumVersions - w \in Nat /\ NumVersions - (NumVersions - w) = w
    BY <2>1
  <2>3. NumVersions - w \in T
    BY <2>2
  <2>4. n <= NumVersions - w /\ n \in Nat
    BY <1>4, <2>3
  <2>5. QED
    BY <2>1, <2>4
<1>6. NumVersions - n \in S
  OBVIOUS
<1>7. QED
  BY <1>5, <1>6

\* Full batches and one that is not empty are as many batches as the size
\* asks for.
LEMMA LastBatch ==
    ASSUME NEW b \in 1..64, NEW k \in Nat, NEW n \in 1..b
    PROVE  Batches(k * b + n, b) = k + 1
<1>1. k * b + n + b - 1 = (k + 1) * b + (n - 1)
  OBVIOUS
<1>2. n - 1 \in 0..(b - 1)
  OBVIOUS
<1>3. QED
  BY <1>1, <1>2 DEF Batches

\* Nothing is no batch at all.
LEMMA NoBatch ==
    ASSUME NEW b \in 1..64
    PROVE  Batches(0, b) = 0
BY DEF Batches

\* A list in the order of the names has every version once.
LEMMA IncreasingCounts ==
    ASSUME NEW q \in Seq(Versions), Increasing(q)
    PROVE  /\ ToSet(q) \subseteq Versions
           /\ IsFiniteSet(ToSet(q))
           /\ Cardinality(ToSet(q)) = Len(q)
<1>1. /\ q \in [1..Len(q) -> ToSet(q)] /\ Len(q) \in Nat
      /\ \A v \in ToSet(q) : \E i \in 1..Len(q) : q[i] = v
  BY DEF ToSet
<1>2. \A i \in 1..Len(q) : q[i] \in Versions /\ q[i] \in Int
  <2>1. \A v \in Versions : v \in Int
    BY BoundAssumption DEF Versions
  <2>2. \A i \in 1..Len(q) : q[i] \in Versions
    OBVIOUS
  <2>3. QED
    BY <2>1, <2>2
<1>3. \A a, b \in 1..Len(q) : q[a] = q[b] => a = b
  BY <1>1, <1>2 DEF Increasing
<1>4. q \in Bijection(1..Len(q), ToSet(q))
  BY <1>1, <1>3 DEF Bijection, Injection, Surjection, IsInjective
<1>5. ExistsBijection(1..Len(q), ToSet(q))
  BY <1>4 DEF ExistsBijection
<1>6. Cardinality(ToSet(q)) = Len(q) /\ IsFiniteSet(ToSet(q))
  BY <1>1, <1>5, FS_CountingElements, FS_NatBijection
<1>7. QED
  BY <1>1, <1>2, <1>6

\* Sorting some versions makes a list of them, in order.
LEMMA SortedIs ==
    ASSUME NEW S \in SUBSET Versions, NEW q \in Sorted(S)
    PROVE  /\ q \in Seq(Versions) /\ Increasing(q)
           /\ ToSet(q) = S /\ Len(q) = Cardinality(S)
<1>1. IsFiniteSet(S) /\ Cardinality(S) \in Nat
  <2>1. IsFiniteSet(Versions)
    BY BoundAssumption, FS_Interval DEF Versions
  <2>2. QED
    BY <2>1, FS_Subset, FS_CardinalityType
<1>2. /\ q \in [1..Cardinality(S) -> S]
      /\ \A a, b \in 1..Cardinality(S) : a < b => q[a] < q[b]
  BY DEF Sorted
<1>3. q \in Seq(Versions) /\ Len(q) = Cardinality(S)
  BY <1>1, <1>2
<1>4. Increasing(q)
  BY <1>2, <1>3 DEF Increasing
<1>5. ToSet(q) \in SUBSET S
  BY <1>2 DEF ToSet
<1>6. Cardinality(ToSet(q)) = Cardinality(S)
  BY <1>3, <1>4, IncreasingCounts
<1>7. ToSet(q) = S
  BY <1>1, <1>5, <1>6, FS_Subset
<1>8. QED
  BY <1>3, <1>4, <1>7

\* A filter keeps the order of the names.
LEMMA FilteredIs ==
    ASSUME NEW q \in Seq(Versions), Increasing(q), NEW S, NEW p \in Filtered(q, S)
    PROVE  p \in Sorted(S)
<1>1. ASSUME NEW a \in 1..Cardinality(S), NEW b \in 1..Cardinality(S), a < b
      PROVE  p[a] < p[b]
  <2>1. PICK i \in 1..Len(q), k \in 1..Len(q) :
           i < k /\ q[i] = p[a] /\ q[k] = p[b]
    BY <1>1 DEF Filtered
  <2>2. q[i] < q[k]
    BY <2>1 DEF Increasing
  <2>3. QED
    BY <2>1, <2>2
<1>2. p \in [1..Cardinality(S) -> S]
  BY DEF Filtered
<1>3. QED
  BY <1>1, <1>2 DEF Sorted

\* A batch is the beginning of the list, and the rest what follows it.
LEMMA BatchIs ==
    ASSUME NEW r, run[r].todo \in Seq(Versions), run[r].batch_size \in Nat
    PROVE  /\ Batch(r) \in Seq(Versions)
           /\ Len(Batch(r)) = IF run[r].batch_size < Len(run[r].todo)
                              THEN run[r].batch_size ELSE Len(run[r].todo)
           /\ \A i \in 1..Len(Batch(r)) : Batch(r)[i] = run[r].todo[i]
           /\ Rest(r) \in Seq(Versions)
           /\ Len(Rest(r)) = Len(run[r].todo) - Len(Batch(r))
           /\ \A i \in 1..Len(Rest(r)) :
                 Rest(r)[i] = run[r].todo[run[r].batch_size + i]
           /\ ToSet(run[r].todo) = ToSet(Batch(r)) \union ToSet(Rest(r))
           /\ Increasing(run[r].todo) => Increasing(Rest(r))
<1> DEFINE q == run[r].todo
           b == run[r].batch_size
           n == IF b < Len(q) THEN b ELSE Len(q)
<1>0. /\ q \in Seq(Versions) /\ b \in Nat /\ Len(q) \in Nat /\ n \in Nat
      /\ n <= Len(q) /\ n <= b
      /\ Batch(r) = SubSeq(q, 1, n) /\ Rest(r) = SubSeq(q, b + 1, Len(q))
  BY DEF Batch, Rest
<1> HIDE DEF q, b
<1>n. /\ b \in Nat /\ Len(q) \in Nat /\ n \in Nat /\ n <= Len(q) /\ n <= b
      /\ n = b \/ n = Len(q)
  BY <1>0
<1>1. /\ SubSeq(q, 1, n) \in Seq(Versions) /\ Len(SubSeq(q, 1, n)) = n
      /\ \A i \in 1..n : SubSeq(q, 1, n)[i] = q[i]
  <2>1. \A i \in 1..n : q[i] \in Versions
    BY <1>0
  <2>2. QED
    BY <1>0, <2>1, SubSeqProperties
<1>2. /\ SubSeq(q, b + 1, Len(q)) \in Seq(Versions)
      /\ Len(SubSeq(q, b + 1, Len(q))) = Len(q) - n
      /\ \A i \in 1..(Len(q) - n) : SubSeq(q, b + 1, Len(q))[i] = q[b + i]
  <2>1. \A i \in (b + 1)..Len(q) : q[i] \in Versions
    BY <1>0
  <2> DEFINE t == SubSeq(q, b + 1, Len(q))
  <2>2. /\ t \in Seq(Versions)
        /\ Len(t) = IF b + 1 <= Len(q) THEN Len(q) - (b + 1) + 1 ELSE 0
        /\ \A i \in 1..(Len(q) - (b + 1) + 1) : t[i] = q[(b + 1) + i - 1]
    <3>1. b + 1 \in Int /\ Len(q) \in Int
      BY <1>0
    <3>2. QED
      BY <2>1, <3>1, SubSeqProperties
  <2>3. \A i \in 1..(Len(q) - n) : i \in 1..(Len(q) - (b + 1) + 1) /\ (b + 1) + i - 1 = b + i
    BY <1>0
  <2> HIDE DEF t
  <2>4. Len(t) = Len(q) - n
    <3> HIDE DEF n
    <3>1. Len(t) = IF b + 1 <= Len(q) THEN Len(q) - (b + 1) + 1 ELSE 0
      BY <2>2
    <3>2. QED
      BY <1>n, <3>1
  <2>5. \A i \in 1..(Len(q) - n) : t[i] = q[b + i]
    BY <2>2, <2>3
  <2>6. QED
    BY <2>2, <2>4, <2>5 DEF t
<1> DEFINE B == SubSeq(q, 1, n)
           T == SubSeq(q, b + 1, Len(q))
<1>3. ToSet(q) = ToSet(B) \union ToSet(T)
  <2>a. /\ B \in Seq(Versions) /\ Len(B) = n
        /\ \A i \in 1..n : B[i] = q[i]
    BY <1>1
  <2>b. /\ T \in Seq(Versions) /\ Len(T) = Len(q) - n
        /\ \A i \in 1..(Len(q) - n) : T[i] = q[b + i]
    BY <1>2
  <2>c. n # b => Len(q) - n = 0
    BY <1>0
  <2> HIDE DEF B, T, n
  <2>1. ASSUME NEW i \in 1..Len(q)
        PROVE  q[i] \in ToSet(B) \union ToSet(T)
    <3>1. CASE i <= n
      <4>1. i \in 1..n /\ i \in DOMAIN B /\ B[i] = q[i]
        BY <1>n, <2>a, <3>1
      <4>2. QED
        BY <4>1 DEF ToSet
    <3>2. CASE i > n
      <4>1. n = b
        BY <1>0, <2>c, <3>2
      <4>2. i - b \in 1..(Len(q) - n) /\ b + (i - b) = i
        BY <1>0, <3>2, <4>1
      <4>3. T[i - b] = q[i] /\ i - b \in 1..Len(T)
        BY <2>b, <4>2
      <4>4. QED
        BY <2>b, <4>3 DEF ToSet
    <3>3. QED
      BY <1>0, <3>1, <3>2
  <2>2. ToSet(B) \subseteq ToSet(q)
    BY <1>0, <2>a DEF ToSet
  <2>3. ASSUME NEW i \in 1..Len(T)
        PROVE  T[i] \in ToSet(q)
    <3>1. n = b /\ b + i \in 1..Len(q)
      BY <1>0, <2>b, <2>c
    <3>2. T[i] = q[b + i]
      BY <1>0, <2>b, <3>1
    <3>3. QED
      BY <1>0, <3>1, <3>2 DEF ToSet
  <2>4. ToSet(T) \subseteq ToSet(q)
    BY <2>b, <2>3 DEF ToSet
  <2>5. ToSet(q) \subseteq ToSet(B) \union ToSet(T)
    BY <1>0, <2>1 DEF ToSet
  <2>6. QED
    BY <2>2, <2>4, <2>5
<1>4. ASSUME Increasing(q)
      PROVE  Increasing(T)
  <2>b. /\ T \in Seq(Versions) /\ Len(T) = Len(q) - n
        /\ \A i \in 1..(Len(q) - n) : T[i] = q[b + i]
    BY <1>2
  <2>c. n # b => Len(q) - n = 0
    BY <1>0
  <2> HIDE DEF n, T
  <2>1. SUFFICES ASSUME NEW x \in 1..Len(T), NEW y \in 1..Len(T), x < y
                 PROVE  T[x] < T[y]
    BY DEF Increasing
  <2>2. n = b /\ b + x \in 1..Len(q) /\ b + y \in 1..Len(q) /\ b + x < b + y
    <3>1. Len(T) = Len(q) - n /\ Len(T) >= 1 /\ x \in Nat /\ y \in Nat
      BY <1>n, <2>b
    <3>2. n = b
      BY <1>n, <3>1, <2>c
    <3>3. QED
      BY <1>n, <2>1, <3>1, <3>2
  <2>3. T[x] = q[b + x] /\ T[y] = q[b + y]
    BY <2>b
  <2>4. QED
    BY <1>4, <2>2, <2>3 DEF Increasing
<1>5. QED
  BY <1>0, <1>1, <1>2, <1>3, <1>4 DEF q, b

-----------------------------------------------------------------------------
(***************************************************************************)
(* Upserts do not wait in a circle                                         *)
(***************************************************************************)
\* The types the steps below use of a run and of a row.
LEMMA LocalTypes ==
    ASSUME NEW l \in Locals
    PROVE  /\ l.pc \in Labels /\ l.force \in BOOLEAN /\ l.dry_run \in BOOLEAN
           /\ l.batch_size \in Nat /\ l.batch_size \in BatchSizes \union {0}
           /\ l.docs \in Seq(Versions) /\ l.todo \in Seq(Versions)
           /\ Len(l.docs) \in Nat /\ Len(l.todo) \in Nat
           /\ l.rows \in Nat /\ l.current \in Nat /\ l.pending \in Nat
           /\ l.embedded \in Nat /\ l.batches \in Nat
<1>1. /\ l.batch_size \in BatchSizes \union {0}
      /\ l.docs \in Seq(Versions) /\ l.todo \in Seq(Versions)
      /\ l.pc \in Labels
      /\ l.rows \in Nat /\ l.current \in Nat /\ l.pending \in Nat
      /\ l.embedded \in Nat /\ l.batches \in Nat
  BY DEF Locals
<1>2. l.batch_size \in Nat
  <2>1. \A b \in BatchSizes : b \in Nat
    BY BatchAssumption
  <2>2. l.batch_size \in BatchSizes \/ l.batch_size = 0
    BY <1>1
  <2>3. QED
    BY <2>1, <2>2
<1>3. Len(l.docs) \in Nat /\ Len(l.todo) \in Nat
  BY <1>1
<1>4. l.force \in BOOLEAN /\ l.dry_run \in BOOLEAN
  BY Zenon DEF Locals
<1>5. QED
  BY <1>1, <1>2, <1>3, <1>4

\* A runner that waits for another comes to a version before the one the other
\* comes to.
LEMMA WaitsInOrder ==
    ASSUME IInv, NEW r \in Runners, NEW s \in Runners, NEW t \in Runners,
           WaitsFor(r, s), WaitsFor(s, t)
    PROVE  /\ Batch(r)[run[r].rows + 1] \in Versions
           /\ Batch(r)[run[r].rows + 1] < Batch(s)[run[s].rows + 1]
<1>1. /\ run[r] \in Locals /\ run[s] \in Locals
      /\ LocalInv(run[s]) /\ LockInv
  BY DEF IInv, TypeOK
<1>2. /\ Batch(r) \in Seq(Versions) /\ Batch(s) \in Seq(Versions)
      /\ \A i \in 1..Len(Batch(s)) : Batch(s)[i] = run[s].todo[i]
      /\ Len(Batch(s)) <= Len(run[s].todo)
  <2>1. /\ run[r].todo \in Seq(Versions) /\ run[r].batch_size \in Nat
        /\ run[s].todo \in Seq(Versions) /\ run[s].batch_size \in Nat
        /\ Len(run[s].todo) \in Nat
    BY <1>1, LocalTypes
  <2>2. Batch(r) \in Seq(Versions)
    BY <2>1, BatchIs
  <2>3. /\ Batch(s) \in Seq(Versions)
        /\ \A i \in 1..Len(Batch(s)) : Batch(s)[i] = run[s].todo[i]
        /\ Len(Batch(s)) = IF run[s].batch_size < Len(run[s].todo)
                           THEN run[s].batch_size ELSE Len(run[s].todo)
    BY <2>1, BatchIs
  <2>4. QED
    BY <2>1, <2>2, <2>3
<1>3. /\ run[r].rows + 1 \in 1..Len(Batch(r))
      /\ run[s].rows + 1 \in 1..Len(Batch(s))
      /\ lock[Batch(r)[run[r].rows + 1]] = s /\ s # None
  BY <1>1, <1>2, LocalTypes DEF WaitsFor
<1> DEFINE v == Batch(r)[run[r].rows + 1]
           w == Batch(s)[run[s].rows + 1]
<1>4. v \in Versions
  BY <1>2, <1>3
<1>5. PICK i \in 1..run[s].rows : run[s].todo[i] = v
  BY <1>1, <1>3, <1>4 DEF LockInv
<1>6. run[s].todo[run[s].rows + 1] = w
  BY <1>2, <1>3
<1>7. /\ i \in 1..Len(run[s].todo) /\ run[s].rows + 1 \in 1..Len(run[s].todo)
      /\ i < run[s].rows + 1
  BY <1>1, <1>2, <1>3, LocalTypes
<1>8. v < w
  BY <1>1, <1>5, <1>6, <1>7 DEF LocalInv, Increasing
<1>9. QED
  BY <1>4, <1>8

\* The last of the versions that are waited for has a runner that waits for
\* nobody.
LEMMA NoCircle ==
    ASSUME IInv
    PROVE  UpsertsDoNotDeadlock
<1>1. SUFFICES ASSUME NEW S \in SUBSET Runners, S # {},
                      \A r \in S : \E s \in S : WaitsFor(r, s)
               PROVE  FALSE
  BY DEF UpsertsDoNotDeadlock
<1> DEFINE Next1(r) == Batch(r)[run[r].rows + 1]
           V == {Next1(r) : r \in S}
<1>2. ASSUME NEW r \in S
      PROVE  Next1(r) \in Versions /\ \E s \in S : Next1(r) < Next1(s)
  <2>1. PICK s \in S : WaitsFor(r, s)
    BY <1>1
  <2>2. PICK t \in S : WaitsFor(s, t)
    BY <1>1
  <2>3. QED
    BY <2>1, <2>2, WaitsInOrder
<1>3. V \in SUBSET Versions /\ V # {}
  BY <1>1, <1>2
<1>4. PICK v \in V : \A w \in V : w <= v
  <2> HIDE DEF V
  <2> QED
    BY <1>3, LastVersion
<1>5. PICK r \in S : v = Next1(r)
  OBVIOUS
<1>6. PICK s \in S : Next1(r) < Next1(s)
  BY <1>2
<1>7. Next1(s) <= Next1(r) /\ Next1(s) \in Nat /\ Next1(r) \in Nat
  <2>1. Next1(s) \in Versions /\ Next1(r) \in Versions
    BY <1>2
  <2>2. \A x \in Versions : x \in Nat
    BY BoundAssumption DEF Versions
  <2>3. QED
    BY <1>4, <1>5, <2>1, <2>2
<1>8. QED
  BY <1>6, <1>7

-----------------------------------------------------------------------------
(***************************************************************************)
(* What a step leaves as it was                                            *)
(***************************************************************************)
\* The local variables of a run that ended, and of one that has not started.
LEMMA EndedIs ==
    ASSUME NEW label \in {"none", "done", "lost"}
    PROVE  /\ Ended(label) \in Locals /\ Ended(label).pc = label
           /\ Ended(label).dry_run = FALSE
           /\ LocalInv(Ended(label))
           /\ Waiting = Ended("none")
<1> DEFINE l == Ended(label)
<1>1. /\ l.pc = label /\ l.docs = <<>> /\ l.todo = <<>> /\ l.rows = 0
      /\ l.batch_size = 0 /\ l.embedded = 0 /\ l.batches = 0
  BY DEF Ended, Waiting
<1>2. l.dry_run = FALSE
  BY DEF Ended, Waiting
<1>3. l \in Locals
  <2> DEFINE Cleared(f, d) ==
               [[pc |-> "none", force |-> f, batch_size |-> 0, dry_run |-> d,
                 docs |-> <<>>, todo |-> <<>>, rows |-> 0, current |-> 0,
                 pending |-> 0, embedded |-> 0, batches |-> 0]
                    EXCEPT !.pc = label]
  <2>1. \A f, d \in BOOLEAN : Cleared(f, d) \in Locals
    <3>1. <<>> \in Seq(Versions) /\ label \in Labels
      BY DEF Labels
    <3>2. QED
      BY <3>1 DEF Locals
  <2>2. l = Cleared(FALSE, FALSE)
    BY DEF Ended, Waiting
  <2> HIDE DEF Cleared, l
  <2>3. QED
    BY <2>1, <2>2, Zenon
<1>4. Waiting = Ended("none")
  BY DEF Ended, Waiting
<1>5. LocalInv(l)
  <2> HIDE DEF l
  <2>1. Increasing(<<>>) /\ Len(<<>>) = 0
    BY DEF Increasing
  <2>2. QED
    BY <1>1, <2>1 DEF LocalInv, Working
<1>6. QED
  BY <1>1, <1>2, <1>3, <1>4, <1>5

\* A step of one runner changes its local variables only, and they stay as the
\* invariant wants them.
LEMMA BecomesIs ==
    ASSUME IInv, NEW r \in Runners, NEW l \in Locals, Becomes(r, l),
           l.pc \in {"done", "lost"} \/ LocalInv(l)
    PROVE  /\ run' \in [Runners -> Locals]
           /\ \A x \in Runners : LocalInv(run'[x])
           /\ \A x \in Runners \ {r} : run'[x] = run[x]
           /\ l.pc \notin {"done", "lost"} => run'[r] = l
           /\ l.pc \in {"done", "lost"} => run'[r] = Ended(l.pc)
           /\ run'[r].pc = l.pc
<1> DEFINE new == IF l.pc \in {"done", "lost"} THEN Ended(l.pc) ELSE l
<1>1. new \in Locals /\ LocalInv(new) /\ new.pc = l.pc
  BY EndedIs
<1>2. run \in [Runners -> Locals] /\ \A x \in Runners : LocalInv(run[x])
  BY DEF IInv, TypeOK
<1>3. run' = [run EXCEPT ![r] = new]
  BY DEF Becomes
<1>4. run'[r] = new /\ \A x \in Runners \ {r} : run'[x] = run[x]
  BY <1>2, <1>3
<1>5. run' \in [Runners -> Locals]
  BY <1>1, <1>2, <1>3
<1>6. \A x \in Runners : LocalInv(run'[x])
  <2> HIDE DEF new
  <2> QED
    BY <1>1, <1>2, <1>4
<1>7. QED
  BY <1>1, <1>4, <1>5, <1>6

\* A job nothing happens to, while the index grows or stays.
LEMMA OtherJob ==
    ASSUME NEW j \in Jobs, TaskInv(j), JobInv(j), index \subseteq index',
           jobs'[j] = jobs[j], run'[j] = run[j], up' = up
    PROVE  TaskInv(j)' /\ JobInv(j)'
<1>1. TaskInv(j)'
  BY DEF TaskInv
<1>2. JobInv(j)'
  BY DEF JobInv
<1>3. QED
  BY <1>1, <1>2

\* A runner outside of an upsert holds no row, so that its steps leave the
\* locks to their holders.
LEMMA LocksKept ==
    ASSUME IInv, NEW r \in Runners, run[r].pc # "upsert", lock' = lock,
           \A x \in Runners \ {r} : run'[x] = run[x]
    PROVE  LockInv'
<1>1. ASSUME NEW v \in Versions, lock[v] # None
      PROVE  lock[v] \in Runners \ {r} /\ run'[lock[v]] = run[lock[v]]
  BY <1>1 DEF IInv, TypeOK, LockInv
<1>2. QED
  BY <1>1 DEF IInv, LockInv

\* The successes that are on record stay true while the index grows.
LEMMA SuccessKept ==
    ASSUME SuccessIsTrue, index \subseteq index',
           \A j \in Jobs :
               jobs'[j].status = "succeeded" =>
                   jobs'[j] = jobs[j] /\ covered'[j] = covered[j]
    PROVE  SuccessIsTrue'
<1>1. SucceededIsIndexed'
  BY DEF SuccessIsTrue, SucceededIsIndexed
<1>2. SummaryAddsUp'
  BY DEF SuccessIsTrue, SummaryAddsUp
<1>3. QED
  BY <1>1, <1>2 DEF SuccessIsTrue

\* A step of a run inside ReindexTools.execute.
LEMMA RunnerMove ==
    ASSUME IInv, NEW r \in Runners, NEW l \in Locals, Becomes(r, l),
           l.pc \in {"done", "lost"} \/ LocalInv(l),
           r \in Jobs =>
              /\ run[r].pc \in Working /\ l.pc \in Working
              /\ l.dry_run = run[r].dry_run /\ l.batch_size = run[r].batch_size
              /\ (/\ jobs[r].status = "running"
                  /\ l.pc \in {"embed", "upsert", "succeed"}) =>
                    ToSet(l.docs) \subseteq index' \union ToSet(l.todo),
           UNCHANGED <<catalog, jobs, up, covered>>,
           index \subseteq index', index' \subseteq Versions,
           lock' \in [Versions -> Runners \union {None}], LockInv'
    PROVE  IInv'
<1>1. /\ run' \in [Runners -> Locals]
      /\ \A x \in Runners : LocalInv(run'[x])
      /\ \A x \in Runners \ {r} : run'[x] = run[x]
      /\ l.pc \notin {"done", "lost"} => run'[r] = l
  BY BecomesIs
<1>2. TypeOK'
  BY <1>1 DEF IInv, TypeOK
<1>3. SuccessIsTrue'
  BY SuccessKept DEF IInv
<1>4. ASSUME NEW j \in Jobs, j # r
      PROVE  TaskInv(j)' /\ JobInv(j)'
  <2>1. j \in Runners \ {r}
    BY <1>4 DEF Runners
  <2>2. QED
    BY <1>1, <2>1, OtherJob DEF IInv
<1>5. ASSUME r \in Jobs
      PROVE  TaskInv(r)' /\ JobInv(r)'
  <2>1. run'[r] = l /\ run[r].pc \in Working /\ l.pc \in Working
    BY <1>1, <1>5 DEF Working
  <2>2. TaskInv(r) /\ JobInv(r)
    BY <1>5 DEF IInv
  <2>3. TaskInv(r)'
    BY <2>1, <2>2 DEF TaskInv, Working, Terminal, Active
  <2>4. JobInv(r)'
    BY <1>5, <2>1, <2>2 DEF JobInv
  <2>5. QED
    BY <2>3, <2>4
<1>6. QED
  BY <1>1, <1>2, <1>3, <1>4, <1>5 DEF IInv

\* A step that writes the row of a job and moves its task.
LEMMA JobMove ==
    ASSUME IInv, NEW j \in Jobs, NEW row \in JobRows, NEW l \in Locals,
           Becomes(j, l), l.pc \in {"done", "lost"} \/ LocalInv(l),
           run[j].pc # "upsert",
           jobs' = [jobs EXCEPT ![j] = row],
           covered' \in [Jobs -> SUBSET Versions], SuccessIsTrue',
           UNCHANGED <<catalog, index, lock, up>>,
           TaskInv(j)', JobInv(j)'
    PROVE  IInv'
<1>1. /\ run' \in [Runners -> Locals]
      /\ \A x \in Runners : LocalInv(run'[x])
      /\ \A x \in Runners \ {j} : run'[x] = run[x]
      /\ j \in Runners
  BY BecomesIs DEF Runners
<1>2. jobs' \in [Jobs -> JobRows] /\ \A i \in Jobs \ {j} : jobs'[i] = jobs[i]
  BY DEF IInv, TypeOK
<1>3. TypeOK'
  BY <1>1, <1>2 DEF IInv, TypeOK
<1>4. LockInv'
  BY <1>1, LocksKept
<1>5. ASSUME NEW i \in Jobs, i # j
      PROVE  TaskInv(i)' /\ JobInv(i)'
  <2>1. run'[i] = run[i] /\ jobs'[i] = jobs[i]
    BY <1>1, <1>2, <1>5 DEF Runners
  <2>2. QED
    BY <2>1, OtherJob DEF IInv
<1>6. QED
  BY <1>1, <1>3, <1>4, <1>5 DEF IInv

-----------------------------------------------------------------------------
(***************************************************************************)
(* The steps of ReindexTools.execute                                       *)
(***************************************************************************)
\* The invariant of the runner at hand.
LEMMA RunnerIs ==
    ASSUME IInv, NEW r \in Runners
    PROVE  /\ run[r] \in Locals /\ LocalInv(run[r])
           /\ catalog \in [Versions -> CatalogStatuses] /\ index \subseteq Versions
           /\ lock \in [Versions -> Runners \union {None}] /\ LockInv
           /\ r \in Jobs => TaskInv(r) /\ JobInv(r)
BY DEF IInv, TypeOK

\* A run whose program counter moves.
LEMMA GotoIs ==
    ASSUME NEW l \in Locals, NEW label \in Labels
    PROVE  LET k == [l EXCEPT !.pc = label]
           IN  /\ k \in Locals /\ k.pc = label
               /\ k.docs = l.docs /\ k.todo = l.todo /\ k.rows = l.rows
               /\ k.batch_size = l.batch_size /\ k.dry_run = l.dry_run
               /\ k.current = l.current /\ k.pending = l.pending
               /\ k.embedded = l.embedded /\ k.batches = l.batches
<1> DEFINE k == [l EXCEPT !.pc = label]
<1>1. k \in Locals
  BY DEF Locals
<1>2. /\ k.pc = label
      /\ k.docs = l.docs /\ k.todo = l.todo /\ k.rows = l.rows
      /\ k.batch_size = l.batch_size
      /\ k.current = l.current /\ k.pending = l.pending
      /\ k.embedded = l.embedded /\ k.batches = l.batches
  BY DEF Locals
<1>3. k.dry_run = l.dry_run
  BY DEF Locals
<1>4. QED
  BY <1>1, <1>2, <1>3

\* Listing the published versions.
LEMMA ListPublishedKeeps ==
    ASSUME IInv, NEW r \in Runners, ListPublished(r)
    PROVE  IInv'
<1>1. /\ run[r] \in Locals /\ LocalInv(run[r]) /\ run[r].pc = "list"
      /\ UNCHANGED <<catalog, index, jobs, lock, up, covered>>
  BY RunnerIs DEF ListPublished
<1>2. PICK docs \in Sorted(Published) :
         Becomes(r, [run[r] EXCEPT !.pc = "load", !.docs = docs])
  BY DEF ListPublished
<1>3. docs \in Seq(Versions) /\ Increasing(docs)
  BY <1>2, SortedIs DEF Published
<1> DEFINE l == [run[r] EXCEPT !.pc = "load", !.docs = docs]
<1>4. l \in Locals
  BY <1>1, <1>3 DEF Locals, Labels
<1>5. /\ l.pc = "load" /\ l.docs = docs /\ l.todo = run[r].todo
      /\ l.rows = run[r].rows /\ l.batch_size = run[r].batch_size
      /\ l.embedded = run[r].embedded /\ l.batches = run[r].batches
  BY <1>1 DEF Locals
<1>6. l.dry_run = run[r].dry_run
  BY <1>1 DEF Locals
<1> HIDE DEF l
<1>7. LocalInv(l)
  BY <1>1, <1>3, <1>5 DEF LocalInv, Working
<1>8. Becomes(r, l)
  BY <1>2 DEF l
<1>9. \A x \in Runners \ {r} : run'[x] = run[x]
  BY <1>4, <1>7, <1>8, BecomesIs
<1>10. LockInv'
  BY <1>1, <1>9, LocksKept
<1>11. QED
  BY <1>1, <1>4, <1>5, <1>6, <1>7, <1>8, <1>10, RunnerMove, RunnerIs DEF Working

\* Loading the embeddings there are: the list of what is to be embedded.
LEMMA LoadExistingKeeps ==
    ASSUME IInv, NEW r \in Runners, LoadExisting(r)
    PROVE  IInv'
<1>1. /\ run[r] \in Locals /\ LocalInv(run[r]) /\ run[r].pc = "load"
      /\ UNCHANGED <<catalog, index, jobs, lock, up, covered>>
      /\ r \in Jobs => JobInv(r)
  BY RunnerIs DEF LoadExisting
<1>2. /\ run[r].docs \in Seq(Versions) /\ run[r].batch_size \in BatchSizes
      /\ run[r].embedded = 0 /\ run[r].batches = 0 /\ run[r].rows = 0
      /\ Increasing(run[r].docs) /\ Len(run[r].docs) \in Nat
      /\ run[r].batch_size \in Nat
  BY <1>1, LocalTypes DEF LocalInv, Working
<1> DEFINE S == {v \in ToSet(run[r].docs) : run[r].force \/ v \notin index}
           label(q) == IF run[r].dry_run \/ q = <<>> THEN Returned(r) ELSE "embed"
           L(q) == [run[r] EXCEPT !.pc = label(q), !.todo = q,
                                  !.current = CurrentCount(run[r].docs, q),
                                  !.pending = Len(q)]
<1>3. PICK q \in Filtered(run[r].docs, S) : Becomes(r, L(q))
  BY DEF LoadExisting
<1>4. S \in SUBSET ToSet(run[r].docs) /\ S \in SUBSET Versions
  BY <1>2, IncreasingCounts
<1>5. /\ q \in Seq(Versions) /\ Increasing(q) /\ ToSet(q) = S
      /\ Len(q) = Cardinality(S) /\ Len(q) \in Nat
  <2> HIDE DEF S
  <2>1. q \in Sorted(S)
    BY <1>2, <1>3, FilteredIs
  <2>2. /\ q \in Seq(Versions) /\ Increasing(q) /\ ToSet(q) = S
        /\ Len(q) = Cardinality(S)
    BY <1>4, <2>1, SortedIs
  <2>3. QED
    BY <2>2
<1>6. Len(q) <= Len(run[r].docs)
  <2> HIDE DEF S
  <2>1. /\ IsFiniteSet(ToSet(run[r].docs))
        /\ Cardinality(ToSet(run[r].docs)) = Len(run[r].docs)
    BY <1>2, IncreasingCounts
  <2>2. QED
    BY <1>4, <1>5, <2>1, FS_Subset
<1>7. ToSet(run[r].docs) \subseteq index \union ToSet(q)
  BY <1>5
<1> HIDE DEF S
<1>8. label(q) \in {"embed", "succeed", "done"}
  BY DEF Returned
<1>9. /\ label(q) = "embed" => q # <<>>
      /\ label(q) = "succeed" => run[r].dry_run \/ q = <<>>
      /\ r \in Jobs => label(q) # "done"
  BY DEF Returned
<1>10. /\ CurrentCount(run[r].docs, q) \in Nat
       /\ CurrentCount(run[r].docs, q) + Len(q) = Len(run[r].docs)
  BY <1>2, <1>5, <1>6 DEF CurrentCount
<1> DEFINE l == L(q)
<1> HIDE DEF label
<1>11. l \in Locals
  BY <1>1, <1>5, <1>8, <1>10 DEF Locals, Labels
<1>12. /\ l.pc = label(q) /\ l.docs = run[r].docs /\ l.todo = q
       /\ l.rows = run[r].rows /\ l.batch_size = run[r].batch_size
       /\ l.embedded = run[r].embedded /\ l.batches = run[r].batches
       /\ l.current = CurrentCount(run[r].docs, q) /\ l.pending = Len(q)
  BY <1>1 DEF Locals
<1>13. l.dry_run = run[r].dry_run
  BY <1>1 DEF Locals
<1>14. Becomes(r, l)
  BY <1>3
<1> HIDE DEF l, L
<1>15. ASSUME l.pc # "done"
       PROVE  LocalInv(l)
  <2>1. /\ Increasing(l.docs) /\ Increasing(l.todo)
        /\ l.batch_size \in BatchSizes /\ l.embedded = 0 /\ l.batches = 0
        /\ l.rows = 0 /\ l.rows <= l.batch_size /\ l.rows <= Len(l.todo)
        /\ l.current + l.pending = Len(l.docs)
        /\ l.embedded + Len(l.todo) = l.pending
    BY <1>2, <1>5, <1>10, <1>12
  <2>2. l.embedded = l.batches * l.batch_size
    BY <1>2, <1>12
  <2>3. Batches(l.embedded, l.batch_size) = 0
    BY <2>1, BatchAssumption, NoBatch
  <2>4. QED
    BY <1>8, <1>9, <1>12, <1>13, <1>15, <2>1, <2>2, <2>3 DEF LocalInv, Working
<1>16. l.pc \in {"done", "lost"} \/ LocalInv(l)
  BY <1>15
<1>17. \A x \in Runners \ {r} : run'[x] = run[x]
  BY <1>11, <1>14, <1>16, BecomesIs
<1>18. LockInv'
  BY <1>1, <1>17, LocksKept
<1>19. r \in Jobs =>
          /\ run[r].pc \in Working /\ l.pc \in Working
          /\ l.dry_run = run[r].dry_run /\ l.batch_size = run[r].batch_size
          /\ ToSet(l.docs) \subseteq index' \union ToSet(l.todo)
  BY <1>1, <1>7, <1>8, <1>9, <1>12, <1>13 DEF Working
<1>20. QED
  BY <1>1, <1>11, <1>14, <1>16, <1>18, <1>19, RunnerMove, RunnerIs

\* A call of the provider.
LEMMA EmbedKeeps ==
    ASSUME IInv, NEW r \in Runners, Embed(r)
    PROVE  IInv'
<1>1. /\ run[r] \in Locals /\ LocalInv(run[r]) /\ run[r].pc = "embed"
      /\ UNCHANGED <<catalog, index, jobs, lock, up, covered>>
      /\ r \in Jobs => TaskInv(r) /\ JobInv(r)
  BY RunnerIs DEF Embed
<1> DEFINE label == IF Len(Batch(r)) > MaxBatchSize THEN Raised(r) ELSE "upsert"
           l == [run[r] EXCEPT !.pc = label]
<1>2. Becomes(r, l)
  BY DEF Embed, Goto
<1>3. /\ label \in {"upsert", "fail", "done"} /\ label \in Labels
      /\ r \in Jobs => label # "done"
  BY DEF Raised, Labels
<1> HIDE DEF label
<1>4. /\ l \in Locals /\ l.pc = label
      /\ l.docs = run[r].docs /\ l.todo = run[r].todo /\ l.rows = run[r].rows
      /\ l.batch_size = run[r].batch_size /\ l.dry_run = run[r].dry_run
      /\ l.current = run[r].current /\ l.pending = run[r].pending
      /\ l.embedded = run[r].embedded /\ l.batches = run[r].batches
  BY <1>1, <1>3, GotoIs
<1> HIDE DEF l
<1>5. l.pc \in {"done", "lost"} \/ LocalInv(l)
  BY <1>1, <1>3, <1>4 DEF LocalInv, Working
<1>6. \A x \in Runners \ {r} : run'[x] = run[x]
  BY <1>2, <1>4, <1>5, BecomesIs
<1>7. LockInv'
  BY <1>1, <1>6, LocksKept
<1>8. r \in Jobs =>
         /\ run[r].pc \in Working /\ l.pc \in Working
         /\ l.dry_run = run[r].dry_run /\ l.batch_size = run[r].batch_size
         /\ jobs[r].status = "running" =>
               ToSet(l.docs) \subseteq index' \union ToSet(l.todo)
  BY <1>1, <1>3, <1>4 DEF Working, JobInv
<1>9. QED
  BY <1>1, <1>2, <1>4, <1>5, <1>7, <1>8, RunnerMove, RunnerIs

\* What the batch at hand is.
LEMMA UpsertIs ==
    ASSUME IInv, NEW r \in Runners, run[r].pc = "upsert"
    PROVE  /\ Batch(r) \in Seq(Versions) /\ Len(Batch(r)) \in Nat
           /\ Len(Batch(r)) = IF run[r].batch_size < Len(run[r].todo)
                              THEN run[r].batch_size ELSE Len(run[r].todo)
           /\ \A i \in 1..Len(Batch(r)) : Batch(r)[i] = run[r].todo[i]
           /\ Rest(r) \in Seq(Versions) /\ Increasing(Rest(r))
           /\ Len(Rest(r)) = Len(run[r].todo) - Len(Batch(r))
           /\ ToSet(run[r].todo) = ToSet(Batch(r)) \union ToSet(Rest(r))
           /\ ToSet(Batch(r)) \subseteq Versions
<1>1. /\ run[r].todo \in Seq(Versions) /\ run[r].batch_size \in Nat
      /\ Increasing(run[r].todo) /\ Len(run[r].todo) \in Nat
  BY RunnerIs, LocalTypes DEF LocalInv
<1>2. /\ Batch(r) \in Seq(Versions)
      /\ Len(Batch(r)) = IF run[r].batch_size < Len(run[r].todo)
                         THEN run[r].batch_size ELSE Len(run[r].todo)
      /\ \A i \in 1..Len(Batch(r)) : Batch(r)[i] = run[r].todo[i]
      /\ Rest(r) \in Seq(Versions)
      /\ Len(Rest(r)) = Len(run[r].todo) - Len(Batch(r))
      /\ ToSet(run[r].todo) = ToSet(Batch(r)) \union ToSet(Rest(r))
      /\ Increasing(run[r].todo) => Increasing(Rest(r))
  BY <1>1, BatchIs
<1>3. Len(Batch(r)) \in Nat
  BY <1>2
<1>4. ToSet(Batch(r)) \subseteq Versions
  <2>1. ToSet(run[r].todo) \subseteq Versions
    BY <1>1, IncreasingCounts
  <2>2. QED
    BY <1>2, <2>1
<1>5. QED
  BY <1>1, <1>2, <1>3, <1>4

\* An upsert comes to its next row and takes it, nobody else having it.
LEMMA UpsertRowKeeps ==
    ASSUME IInv, NEW r \in Runners, UpsertRow(r)
    PROVE  IInv'
<1>1. /\ run[r] \in Locals /\ LocalInv(run[r]) /\ run[r].pc = "upsert"
      /\ run[r].rows < Len(Batch(r))
      /\ UNCHANGED <<catalog, index, jobs, up, covered>>
      /\ r \in Jobs => TaskInv(r) /\ JobInv(r)
      /\ lock \in [Versions -> Runners \union {None}] /\ LockInv
      /\ index \subseteq Versions
  BY RunnerIs DEF UpsertRow
<1> DEFINE l == [run[r] EXCEPT !.rows = @ + 1]
           v == Batch(r)[run[r].rows + 1]
<1>2. Becomes(r, l) /\ lock' = [lock EXCEPT ![v] = r]
  BY DEF UpsertRow
<1>3. /\ run[r].rows \in Nat /\ run[r].batch_size \in Nat
      /\ Len(run[r].todo) \in Nat
  BY <1>1, LocalTypes
<1>4. l \in Locals
  <2>1. run[r].rows + 1 \in Nat
    BY <1>3
  <2>2. QED
    BY <1>1, <2>1 DEF Locals
<1>5. /\ l.pc = "upsert" /\ l.rows = run[r].rows + 1
      /\ l.docs = run[r].docs /\ l.todo = run[r].todo
      /\ l.batch_size = run[r].batch_size
      /\ l.current = run[r].current /\ l.pending = run[r].pending
      /\ l.embedded = run[r].embedded /\ l.batches = run[r].batches
  BY <1>1 DEF Locals
<1>6. l.dry_run = run[r].dry_run
  BY <1>1 DEF Locals
<1> HIDE DEF l
<1>7. /\ Len(Batch(r)) \in Nat /\ Len(Batch(r)) <= run[r].batch_size
      /\ Len(Batch(r)) <= Len(run[r].todo)
      /\ Batch(r) \in Seq(Versions)
      /\ \A i \in 1..Len(Batch(r)) : Batch(r)[i] = run[r].todo[i]
  <2>1. Len(Batch(r)) = IF run[r].batch_size < Len(run[r].todo)
                        THEN run[r].batch_size ELSE Len(run[r].todo)
    BY <1>1, UpsertIs
  <2>2. QED
    BY <1>1, <1>3, <2>1, UpsertIs
<1>8. /\ run[r].rows + 1 \in 1..Len(Batch(r)) /\ v \in Versions
      /\ v = run[r].todo[run[r].rows + 1]
  BY <1>1, <1>3, <1>7
<1> HIDE DEF v
<1>9. LocalInv(l)
  BY <1>1, <1>3, <1>5, <1>7, <1>8 DEF LocalInv, Working
<1>10. /\ \A x \in Runners \ {r} : run'[x] = run[x]
       /\ run'[r] = l
  BY <1>2, <1>4, <1>5, <1>9, BecomesIs
<1>11. lock' \in [Versions -> Runners \union {None}]
  BY <1>1, <1>2
<1>12. ASSUME NEW w \in Versions, lock'[w] # None
       PROVE  /\ run'[lock'[w]].pc = "upsert"
              /\ \E i \in 1..run'[lock'[w]].rows : run'[lock'[w]].todo[i] = w
  <2>1. CASE w = v
    <3>1. lock'[w] = r
      BY <1>1, <1>2, <1>8, <2>1
    <3>2. run[r].rows + 1 \in 1..l.rows /\ l.todo[run[r].rows + 1] = w
      BY <1>3, <1>5, <1>8, <2>1
    <3>3. QED
      BY <1>5, <1>10, <3>1, <3>2
  <2>2. CASE w # v
    <3>1. lock'[w] = lock[w] /\ lock[w] \in Runners
      BY <1>1, <1>2, <1>12, <2>2
    <3>2. /\ run[lock[w]].pc = "upsert"
          /\ \E i \in 1..run[lock[w]].rows : run[lock[w]].todo[i] = w
      BY <1>1, <1>12, <3>1 DEF LockInv
    <3>3. CASE lock[w] = r
      <4>1. PICK i \in 1..run[r].rows : run[r].todo[i] = w
        BY <3>2, <3>3
      <4>2. i \in 1..l.rows /\ l.todo[i] = w
        BY <1>3, <1>5, <4>1
      <4>3. QED
        BY <1>5, <1>10, <3>1, <3>3, <4>2
    <3>4. CASE lock[w] # r
      BY <1>10, <3>1, <3>2, <3>4
    <3>5. QED
      BY <3>3, <3>4
  <2>3. QED
    BY <2>1, <2>2
<1>13. LockInv'
  BY <1>12 DEF LockInv
<1>14. r \in Jobs =>
          /\ run[r].pc \in Working /\ l.pc \in Working
          /\ l.dry_run = run[r].dry_run /\ l.batch_size = run[r].batch_size
          /\ jobs[r].status = "running" =>
                ToSet(l.docs) \subseteq index' \union ToSet(l.todo)
  BY <1>1, <1>5, <1>6 DEF Working, JobInv
<1>15. QED
  BY <1>1, <1>2, <1>4, <1>9, <1>11, <1>13, <1>14, RunnerMove

\* The end of a transaction releases the rows of its runner, and no others.
LEMMA UnlockedIs ==
    ASSUME IInv, NEW r \in Runners, lock' = Unlocked(r),
           \A x \in Runners \ {r} : run'[x] = run[x]
    PROVE  lock' \in [Versions -> Runners \union {None}] /\ LockInv'
<1>1. lock \in [Versions -> Runners \union {None}] /\ LockInv
  BY RunnerIs
<1>2. lock' \in [Versions -> Runners \union {None}]
  BY <1>1 DEF Unlocked
<1>3. ASSUME NEW v \in Versions, lock'[v] # None
      PROVE  lock'[v] = lock[v] /\ lock[v] \in Runners \ {r}
  BY <1>1, <1>3 DEF Unlocked
<1>4. LockInv'
  BY <1>1, <1>3 DEF LockInv
<1>5. QED
  BY <1>2, <1>4

\* An exception inside the use case, whatever was committed before it.
LEMMA FailedKeeps ==
    ASSUME IInv, NEW r \in Runners,
           run[r].pc \in {"list", "load", "embed", "upsert"},
           Becomes(r, [run[r] EXCEPT !.pc = Raised(r), !.rows = 0]),
           lock' = Unlocked(r), UNCHANGED <<catalog, jobs, up, covered>>,
           index \subseteq index', index' \subseteq Versions
    PROVE  IInv'
<1> DEFINE l == [run[r] EXCEPT !.pc = Raised(r), !.rows = 0]
<1>1. run[r] \in Locals /\ LocalInv(run[r])
  BY RunnerIs
<1>2. /\ Raised(r) \in {"fail", "done"} /\ Raised(r) \in Labels
      /\ r \in Jobs => Raised(r) = "fail"
  BY DEF Raised, Labels
<1>3. l \in Locals
  BY <1>1, <1>2 DEF Locals
<1>4. /\ l.pc = Raised(r) /\ l.rows = 0
      /\ l.docs = run[r].docs /\ l.todo = run[r].todo
      /\ l.batch_size = run[r].batch_size
  BY <1>1 DEF Locals
<1>5. l.dry_run = run[r].dry_run
  BY <1>1 DEF Locals
<1>6. Becomes(r, l)
  OBVIOUS
<1> HIDE DEF l
<1>7. l.pc \in {"done", "lost"} \/ LocalInv(l)
  <2>1. l.batch_size \in Nat /\ Len(l.todo) \in Nat
    BY <1>3, LocalTypes
  <2>2. 0 <= l.batch_size /\ 0 <= Len(l.todo)
    BY <2>1
  <2>3. QED
    BY <1>1, <1>2, <1>4, <2>2 DEF LocalInv, Working
<1>8. \A x \in Runners \ {r} : run'[x] = run[x]
  BY <1>3, <1>6, <1>7, BecomesIs
<1>9. lock' \in [Versions -> Runners \union {None}] /\ LockInv'
  BY <1>8, UnlockedIs
<1>10. r \in Jobs =>
          /\ run[r].pc \in Working /\ l.pc \in Working
          /\ l.dry_run = run[r].dry_run /\ l.batch_size = run[r].batch_size
          /\ l.pc \notin {"embed", "upsert", "succeed"}
  BY <1>2, <1>4, <1>5 DEF Working
<1>11. QED
  BY <1>3, <1>6, <1>7, <1>9, <1>10, RunnerMove

\* A batch is committed, and its versions are in the index; or the foreign key
\* fails it.
LEMMA UpsertCommitKeeps ==
    ASSUME IInv, NEW r \in Runners, UpsertCommit(r)
    PROVE  IInv'
<1>1. /\ run[r] \in Locals /\ LocalInv(run[r]) /\ run[r].pc = "upsert"
      /\ run[r].rows = Len(Batch(r)) /\ lock' = Unlocked(r)
      /\ UNCHANGED <<catalog, jobs, up, covered>>
      /\ r \in Jobs => TaskInv(r) /\ JobInv(r)
      /\ index \subseteq Versions
  BY RunnerIs DEF UpsertCommit
<1>2. /\ run[r].rows \in Nat /\ run[r].batch_size \in BatchSizes
      /\ run[r].batch_size \in 1..64
      /\ Len(run[r].todo) \in Nat /\ run[r].embedded \in Nat
      /\ run[r].batches \in Nat /\ run[r].pending \in Nat
      /\ run[r].todo \in Seq(Versions)
  <2>1. run[r].batch_size \in BatchSizes
    BY <1>1 DEF LocalInv, Working
  <2>2. run[r].batch_size \in 1..64
    BY <2>1, BatchAssumption
  <2>3. QED
    BY <1>1, <2>1, <2>2, LocalTypes
<1>3. /\ Len(Batch(r)) \in Nat /\ Rest(r) \in Seq(Versions)
      /\ Len(Batch(r)) = IF run[r].batch_size < Len(run[r].todo)
                         THEN run[r].batch_size ELSE Len(run[r].todo)
      /\ Increasing(Rest(r)) /\ Len(Rest(r)) = Len(run[r].todo) - Len(Batch(r))
      /\ ToSet(run[r].todo) = ToSet(Batch(r)) \union ToSet(Rest(r))
      /\ ToSet(Batch(r)) \subseteq Versions
  BY <1>1, UpsertIs
<1>n. /\ Len(run[r].todo) \in Nat /\ run[r].embedded \in Nat
      /\ Len(Batch(r)) \in Nat /\ run[r].batch_size \in Nat
      /\ run[r].batches \in Nat /\ run[r].pending \in Nat
      /\ Len(Batch(r)) = run[r].batch_size \/ Len(Batch(r)) = Len(run[r].todo)
      /\ Len(Batch(r)) <= run[r].batch_size
      /\ Len(Rest(r)) = Len(run[r].todo) - Len(Batch(r))
      /\ 0 <= run[r].batch_size
  <2>1. run[r].batch_size \in Nat /\ 0 <= run[r].batch_size
    <3>1. run[r].batch_size \in 1..64
      BY <1>2
    <3>2. QED
      BY <3>1
  <2>2. /\ Len(Batch(r)) = run[r].batch_size \/ Len(Batch(r)) = Len(run[r].todo)
        /\ Len(Batch(r)) <= run[r].batch_size
    <3>1. Len(Batch(r)) = IF run[r].batch_size < Len(run[r].todo)
                          THEN run[r].batch_size ELSE Len(run[r].todo)
      BY <1>3
    <3>2. Len(run[r].todo) \in Nat
      BY <1>2
    <3>3. QED
      BY <2>1, <3>1, <3>2
  <2>3. QED
    BY <1>2, <1>3, <2>1, <2>2
<1>4. CASE VersionsExist(r)
  <2> DEFINE label == IF Rest(r) = <<>> THEN Returned(r) ELSE "embed"
             l == [run[r] EXCEPT !.pc = label, !.todo = Rest(r), !.rows = 0,
                                 !.embedded = Embedded(r), !.batches = @ + 1]
  <2>1. Becomes(r, l) /\ index' = Indexed(r)
    BY <1>4 DEF UpsertCommit
  <2>2. /\ label \in {"embed", "succeed", "done"} /\ label \in Labels
        /\ label = "embed" <=> Rest(r) # <<>>
        /\ r \in Jobs => label # "done"
    BY DEF Returned, Labels
  <2> HIDE DEF label
  <2>3. Embedded(r) = run[r].embedded + Len(Batch(r)) /\ Embedded(r) \in Nat
    BY <1>2, <1>3 DEF Embedded
  <2>4. l \in Locals
    <3>1. run[r].batches + 1 \in Nat /\ Rest(r) \in Seq(Versions)
      BY <1>2, <1>3
    <3>2. QED
      BY <1>1, <2>2, <2>3, <3>1 DEF Locals
  <2>5. /\ l.pc = label /\ l.docs = run[r].docs /\ l.todo = Rest(r)
        /\ l.rows = 0 /\ l.batch_size = run[r].batch_size
        /\ l.current = run[r].current /\ l.pending = run[r].pending
        /\ l.embedded = Embedded(r) /\ l.batches = run[r].batches + 1
    BY <1>1 DEF Locals
  <2>6. l.dry_run = run[r].dry_run
    BY <1>1 DEF Locals
  <2> HIDE DEF l
  <2>7. /\ l.current + l.pending = Len(l.docs)
        /\ l.embedded + Len(l.todo) = l.pending
    <3>1. /\ run[r].current + run[r].pending = Len(run[r].docs)
          /\ run[r].embedded + Len(run[r].todo) = run[r].pending
      BY <1>1 DEF LocalInv
    <3>2. QED
      BY <1>n, <2>3, <2>5, <3>1
  <2>8. run[r].embedded = run[r].batches * run[r].batch_size /\ run[r].todo # <<>>
    BY <1>1 DEF LocalInv
  <2>9. Len(run[r].todo) >= 1
    BY <1>2, <2>8
  <2>10. ASSUME Rest(r) # <<>>
         PROVE  l.embedded = l.batches * l.batch_size
    <3>1. Len(Rest(r)) >= 1
      BY <1>3, <2>10
    <3>2. Len(Batch(r)) = run[r].batch_size
      BY <1>n, <3>1
    <3>3. l.embedded = run[r].batches * run[r].batch_size + run[r].batch_size
      BY <2>3, <2>5, <2>8, <3>2
    <3>4. \A k, b \in Nat : k * b + b = (k + 1) * b
      OBVIOUS
    <3>5. QED
      BY <1>n, <2>5, <3>3, <3>4
  <2>11. ASSUME Rest(r) = <<>>
         PROVE  l.batches = Batches(l.embedded, l.batch_size)
    <3>1. Len(Rest(r)) = 0
      BY <2>11
    <3>2. Len(Batch(r)) = Len(run[r].todo) /\ Len(Batch(r)) \in 1..run[r].batch_size
      BY <1>n, <2>9, <3>1
    <3>3. l.embedded = run[r].batches * run[r].batch_size + Len(Batch(r))
      BY <2>3, <2>5, <2>8
    <3>4. QED
      BY <1>2, <2>5, <3>2, <3>3, LastBatch
  <2>12. ASSUME l.pc # "done"
         PROVE  LocalInv(l)
    <3>1. Increasing(l.docs) /\ Increasing(l.todo) /\ Len(l.todo) \in Nat
      BY <1>1, <1>3, <2>5 DEF LocalInv
    <3>2. 0 <= l.batch_size /\ l.batch_size \in BatchSizes
      <4>1. 0 <= run[r].batch_size /\ run[r].batch_size \in BatchSizes
        BY <1>2, <1>n
      <4>2. QED
        BY <2>5, <4>1
    <3>3. QED
      BY <2>2, <2>5, <2>7, <2>10, <2>11, <2>12, <3>1, <3>2
         DEF LocalInv, Working
  <2>13. l.pc \in {"done", "lost"} \/ LocalInv(l)
    BY <2>12
  <2>14. \A x \in Runners \ {r} : run'[x] = run[x]
    BY <2>1, <2>4, <2>13, BecomesIs
  <2>15. lock' \in [Versions -> Runners \union {None}] /\ LockInv'
    BY <1>1, <2>14, UnlockedIs
  <2>16. index \subseteq index' /\ index' \subseteq Versions
    BY <1>1, <1>3, <2>1 DEF Indexed
  <2>17. r \in Jobs =>
            /\ run[r].pc \in Working /\ l.pc \in Working
            /\ l.dry_run = run[r].dry_run /\ l.batch_size = run[r].batch_size
            /\ jobs[r].status = "running" =>
                  ToSet(l.docs) \subseteq index' \union ToSet(l.todo)
    <3>1. ASSUME r \in Jobs, jobs[r].status = "running"
          PROVE  ToSet(l.docs) \subseteq index' \union ToSet(l.todo)
      <4>1. ToSet(run[r].docs) \subseteq index \union ToSet(run[r].todo)
        BY <1>1, <3>1 DEF JobInv
      <4>2. QED
        BY <1>3, <2>1, <2>5, <4>1 DEF Indexed
    <3>2. QED
      BY <1>1, <2>2, <2>5, <2>6, <3>1 DEF Working
  <2>18. QED
    BY <1>1, <2>1, <2>4, <2>13, <2>15, <2>16, <2>17, RunnerMove
<1>5. CASE ~VersionsExist(r)
  <2> DEFINE l == [run[r] EXCEPT !.pc = Raised(r), !.rows = 0]
  <2>1. Becomes(r, l) /\ index' = index
    BY <1>5 DEF UpsertCommit
  <2>2. QED
    BY <1>1, <2>1, FailedKeeps
<1>6. QED
  BY <1>4, <1>5

\* A failing read, provider or upsert.
LEMMA ReindexFailsKeeps ==
    ASSUME IInv, NEW r \in Runners, ReindexFails(r)
    PROVE  IInv'
<1>1. /\ run[r].pc \in {"list", "load", "embed", "upsert"}
      /\ Becomes(r, [run[r] EXCEPT !.pc = Raised(r), !.rows = 0])
      /\ lock' = Unlocked(r) /\ UNCHANGED <<catalog, jobs, up, covered>>
  BY DEF ReindexFails
<1>2. index \subseteq Versions
  BY RunnerIs
<1>3. index \subseteq index' /\ index' \subseteq Versions
  <2>1. CASE index' = index
    BY <1>2, <2>1
  <2>2. CASE run[r].pc = "upsert" /\ index' = Indexed(r)
    BY <1>2, <2>2, UpsertIs DEF Indexed
  <2>3. QED
    BY <2>1, <2>2 DEF ReindexFails
<1>4. QED
  BY <1>1, <1>3, FailedKeeps

\* The command line starts.
LEMMA StartCliKeeps ==
    ASSUME IInv, NEW c \in Clis, StartCli(c)
    PROVE  IInv'
<1>1. c \in Runners /\ c \notin Jobs
  BY RunnerAssumption DEF Runners
<1>2. /\ run[c] \in Locals /\ LocalInv(run[c]) /\ run[c].pc = "none"
      /\ UNCHANGED <<catalog, index, jobs, lock, up, covered>>
      /\ index \subseteq Versions
      /\ lock \in [Versions -> Runners \union {None}]
  BY <1>1, RunnerIs DEF StartCli
<1>3. PICK force \in BOOLEAN, dry_run \in BOOLEAN, size \in BatchSizes :
         Becomes(c, [run[c] EXCEPT !.pc = "list", !.force = force,
                                   !.dry_run = dry_run, !.batch_size = size])
  BY DEF StartCli
<1> DEFINE l == [run[c] EXCEPT !.pc = "list", !.force = force,
                               !.dry_run = dry_run, !.batch_size = size]
<1>4. l \in Locals
  BY <1>2 DEF Locals, Labels
<1>5. /\ l.pc = "list" /\ l.batch_size = size /\ l.rows = run[c].rows
      /\ l.docs = run[c].docs /\ l.todo = run[c].todo
      /\ l.embedded = run[c].embedded /\ l.batches = run[c].batches
  BY <1>2 DEF Locals
<1>6. Becomes(c, l)
  BY <1>3
<1> HIDE DEF l
<1>7. LocalInv(l)
  <2>1. l.batch_size \in Nat /\ Len(l.todo) \in Nat
    BY <1>4, LocalTypes
  <2>2. 0 <= l.batch_size /\ 0 <= Len(l.todo)
    BY <2>1
  <2>3. QED
    BY <1>2, <1>5, <2>2 DEF LocalInv, Working
<1>8. \A x \in Runners \ {c} : run'[x] = run[x]
  BY <1>1, <1>4, <1>6, <1>7, BecomesIs
<1>9. LockInv'
  BY <1>1, <1>2, <1>8, LocksKept
<1>10. QED
  BY <1>1, <1>2, <1>4, <1>6, <1>7, <1>9, RunnerMove

-----------------------------------------------------------------------------
(***************************************************************************)
(* The steps of a job outside of the use case                              *)
(***************************************************************************)
\* The types of a row.
LEMMA RowTypes ==
    ASSUME IInv, NEW j \in Jobs
    PROVE  /\ jobs[j] \in JobRows /\ jobs = [jobs EXCEPT ![j] = jobs[j]]
           /\ jobs[j].status \in {"none", "gone", "pending", "running",
                                  "succeeded", "failed"}
           /\ covered \in [Jobs -> SUBSET Versions] /\ SuccessIsTrue
<1>1. jobs \in [Jobs -> JobRows]
  BY DEF IInv, TypeOK
<1>2. jobs = [jobs EXCEPT ![j] = jobs[j]]
  BY <1>1
<1>3. jobs[j].status \in {"none", "gone", "pending", "running", "succeeded",
                          "failed"}
  BY <1>1 DEF JobRows, Active, Terminal
<1>4. QED
  BY <1>1, <1>2, <1>3 DEF IInv, TypeOK

\* A row whose status changes.
LEMMA StatusIs ==
    ASSUME NEW row \in JobRows, NEW s \in Active \union Terminal
    PROVE  LET new == [row EXCEPT !.status = s]
           IN  new \in JobRows /\ new.status = s /\ new.batch_size = row.batch_size
BY DEF JobRows

\* A new row.
LEMMA PendingIs ==
    ASSUME NEW force \in BOOLEAN, NEW size \in BatchSizes
    PROVE  /\ PendingJob(force, size) \in JobRows
           /\ PendingJob(force, size).status = "pending"
           /\ PendingJob(force, size).batch_size = size
<1> DEFINE Made(f) ==
             [[status |-> "none", force |-> f, batch_size |-> 0, published |-> 0,
               current |-> 0, pending |-> 0, embedded |-> 0, batches |-> 0]
                 EXCEPT !.status = "pending", !.force = force, !.batch_size = size]
<1>1. \A f \in BOOLEAN : Made(f) \in JobRows
  BY DEF JobRows, Active
<1>2. \A f \in BOOLEAN : Made(f).status = "pending" /\ Made(f).batch_size = size
  OBVIOUS
<1>3. PendingJob(force, size) = Made(FALSE)
  BY DEF PendingJob, NoJob
<1> HIDE DEF Made
<1>4. Made(FALSE) \in JobRows
  BY <1>1, Zenon
<1>5. Made(FALSE).status = "pending" /\ Made(FALSE).batch_size = size
  BY <1>2, Zenon
<1>6. QED
  BY <1>3, <1>4, <1>5

\* A task at work has a process, and its row is as the task left it or gone.
LEMMA AtWork ==
    ASSUME IInv, NEW j \in Jobs
    PROVE  /\ j \in Runners
           /\ run[j].pc \notin {"none", "done"} => up
           /\ run[j].pc = "claim" => jobs[j].status \in {"pending", "gone"}
           /\ run[j].pc \in Working => jobs[j].status \in {"running", "gone"}
           /\ jobs[j].status = "none" => run[j].pc = "none"
<1>1. TaskInv(j)
  BY DEF IInv
<1>2. QED
  BY <1>1, RowTypes DEF TaskInv, Working, Terminal, Runners

\* A step with which a task ends.
LEMMA TaskEnds ==
    ASSUME IInv, NEW j \in Jobs, NEW row \in JobRows,
           NEW label \in {"done", "lost"}, Goto(j, label), up,
           run[j].pc # "upsert", jobs' = [jobs EXCEPT ![j] = row],
           row.status # "none", row.status \in Terminal => label = "done",
           row.status \in Active => label = "lost" /\ row.batch_size \in BatchSizes,
           covered' \in [Jobs -> SUBSET Versions], SuccessIsTrue',
           UNCHANGED <<catalog, index, lock, up>>
    PROVE  IInv'
<1> DEFINE l == [run[j] EXCEPT !.pc = label]
<1>1. j \in Runners /\ run[j] \in Locals
  BY RunnerIs DEF Runners
<1>2. l \in Locals /\ l.pc = label
  BY <1>1 DEF Locals, Labels
<1>3. Becomes(j, l)
  BY DEF Goto
<1> HIDE DEF l
<1>4. run'[j] = Ended(label)
  BY <1>1, <1>2, <1>3, BecomesIs
<1>5. run'[j].pc = label /\ run'[j].dry_run = FALSE
  BY <1>4, EndedIs
<1>6. jobs'[j] = row
  BY RowTypes DEF IInv, TypeOK
<1>7. TaskInv(j)'
  BY <1>5, <1>6 DEF TaskInv, Working, Active, Terminal
<1>8. JobInv(j)'
  BY <1>5, <1>6 DEF JobInv, Working
<1>9. QED
  BY <1>2, <1>3, <1>7, <1>8, JobMove

\* A step that leaves the successes there are.
LEMMA NoSuccess ==
    ASSUME IInv, NEW j \in Jobs, NEW row, jobs' = [jobs EXCEPT ![j] = row],
           row.status # "succeeded", index' = index, covered' = covered
    PROVE  SuccessIsTrue' /\ covered' \in [Jobs -> SUBSET Versions]
<1>1. jobs'[j] = row /\ \A i \in Jobs \ {j} : jobs'[i] = jobs[i]
  BY DEF IInv, TypeOK
<1>2. SuccessIsTrue'
  BY <1>1, RowTypes, SuccessKept
<1>3. QED
  BY <1>2, RowTypes

\* A job is created, with its task.
LEMMA CreateJobKeeps ==
    ASSUME IInv, NEW j \in Jobs, CreateJob(j)
    PROVE  IInv'
<1>1. /\ up /\ jobs[j].status = "none" /\ Goto(j, "claim")
      /\ UNCHANGED <<catalog, index, lock, up, covered>>
  BY DEF CreateJob
<1>2. PICK force \in BOOLEAN, size \in BatchSizes :
         jobs' = [jobs EXCEPT ![j] = PendingJob(force, size)]
  BY DEF CreateJob
<1> DEFINE row == PendingJob(force, size)
           l == [run[j] EXCEPT !.pc = "claim"]
<1>3. row \in JobRows /\ row.status = "pending" /\ row.batch_size = size
  BY PendingIs
<1>4. /\ j \in Runners /\ run[j] \in Locals /\ LocalInv(run[j])
      /\ run[j].pc = "none" /\ JobInv(j)
  BY <1>1, AtWork, RunnerIs
<1>5. /\ l \in Locals /\ l.pc = "claim"
      /\ l.docs = run[j].docs /\ l.todo = run[j].todo /\ l.rows = run[j].rows
      /\ l.batch_size = run[j].batch_size /\ l.dry_run = run[j].dry_run
      /\ l.embedded = run[j].embedded /\ l.batches = run[j].batches
  BY <1>4, GotoIs DEF Labels
<1>6. Becomes(j, l)
  BY <1>1 DEF Goto
<1> HIDE DEF l, row
<1>7. LocalInv(l)
  BY <1>4, <1>5 DEF LocalInv, Working
<1>8. run'[j] = l
  BY <1>4, <1>5, <1>6, <1>7, BecomesIs
<1>9. jobs'[j] = row
  BY <1>2 DEF row, IInv, TypeOK
<1>10. TaskInv(j)'
  BY <1>1, <1>3, <1>5, <1>8, <1>9 DEF TaskInv, Working, Active, Terminal
<1>11. JobInv(j)'
  BY <1>3, <1>4, <1>5, <1>8, <1>9 DEF JobInv, Working
<1>12. jobs' = [jobs EXCEPT ![j] = row]
  BY <1>2 DEF row
<1>13. SuccessIsTrue' /\ covered' \in [Jobs -> SUBSET Versions]
  BY <1>1, <1>3, <1>12, NoSuccess
<1>14. run[j].pc # "upsert"
  BY <1>4
<1>15. QED
  BY <1>1, <1>3, <1>5, <1>6, <1>7, <1>10, <1>11, <1>12, <1>13, <1>14, JobMove

\* A job is created and its task is not.
LEMMA CreateUnansweredKeeps ==
    ASSUME IInv, NEW j \in Jobs, CreateUnanswered(j)
    PROVE  IInv'
<1>1. /\ up /\ jobs[j].status = "none" /\ Goto(j, "lost")
      /\ UNCHANGED <<catalog, index, lock, up, covered>>
  BY DEF CreateUnanswered
<1>2. PICK force \in BOOLEAN, size \in BatchSizes :
         jobs' = [jobs EXCEPT ![j] = PendingJob(force, size)]
  BY DEF CreateUnanswered
<1> DEFINE row == PendingJob(force, size)
<1>3. row \in JobRows /\ row.status = "pending" /\ row.batch_size = size
  BY PendingIs
<1>4. run[j].pc # "upsert"
  BY <1>1, AtWork
<1>5. jobs' = [jobs EXCEPT ![j] = row]
  BY <1>2
<1> HIDE DEF row
<1>6. SuccessIsTrue' /\ covered' \in [Jobs -> SUBSET Versions]
  BY <1>1, <1>3, <1>5, NoSuccess
<1>7. row.status # "none" /\ row.status \notin Terminal
  BY <1>3 DEF Terminal
<1> DEFINE label == "lost"
<1>8. /\ label \in {"done", "lost"} /\ Goto(j, label) /\ label = "lost"
      /\ row.batch_size \in BatchSizes
  BY <1>1, <1>3
<1> HIDE DEF label
<1>9. QED
  BY <1>1, <1>3, <1>4, <1>5, <1>6, <1>7, <1>8, TaskEnds

\* The claim of a pending job, or of one that is gone.
LEMMA ClaimKeeps ==
    ASSUME IInv, NEW j \in Jobs, Claim(j)
    PROVE  IInv'
<1>1. /\ run[j].pc = "claim"
      /\ UNCHANGED <<catalog, index, lock, up, covered>>
  BY DEF Claim
<1>2. /\ j \in Runners /\ run[j] \in Locals /\ LocalInv(run[j]) /\ JobInv(j)
      /\ jobs[j] \in JobRows /\ up
  BY <1>1, AtWork, RunnerIs, RowTypes
<1>3. CASE jobs[j].status = "pending"
  <2> DEFINE Local(f) == [run[j] EXCEPT !.pc = "list", !.force = f,
                                        !.batch_size = jobs[j].batch_size]
             l == Local(jobs[j].force)
             row == [jobs[j] EXCEPT !.status = "running"]
  <2>1. Becomes(j, l) /\ jobs' = [jobs EXCEPT ![j] = row]
    BY <1>3 DEF Claim
  <2>2. jobs[j].batch_size \in BatchSizes
    BY <1>2, <1>3 DEF JobInv, Active
  <2>3. row \in JobRows /\ row.status = "running" /\ row.batch_size = jobs[j].batch_size
    BY <1>2, StatusIs DEF Active
  <2>4. \A f \in BOOLEAN :
           /\ Local(f) \in Locals /\ Local(f).pc = "list"
           /\ Local(f).docs = run[j].docs /\ Local(f).todo = run[j].todo
           /\ Local(f).rows = run[j].rows
           /\ Local(f).batch_size = jobs[j].batch_size
           /\ Local(f).embedded = run[j].embedded
           /\ Local(f).batches = run[j].batches
    BY <1>2, <2>2 DEF Locals, Labels
  <2>5. \A f \in BOOLEAN : Local(f).dry_run = run[j].dry_run
    BY <1>2 DEF Locals
  <2>6. jobs[j].force \in BOOLEAN
    BY <1>2, Zenon DEF JobRows
  <2> HIDE DEF Local, row
  <2>7. /\ l \in Locals /\ l.pc = "list"
        /\ l.docs = run[j].docs /\ l.todo = run[j].todo /\ l.rows = run[j].rows
        /\ l.batch_size = jobs[j].batch_size
        /\ l.embedded = run[j].embedded /\ l.batches = run[j].batches
        /\ l.dry_run = run[j].dry_run
    BY <2>4, <2>5, <2>6, Zenon
  <2> HIDE DEF l
  <2>8. LocalInv(l)
    <3>1. l.batch_size \in Nat /\ Len(l.todo) \in Nat
      BY <2>7, LocalTypes
    <3>2. 0 <= l.batch_size /\ 0 <= Len(l.todo)
      BY <3>1
    <3>3. QED
      BY <1>1, <1>2, <2>2, <2>7, <3>2 DEF LocalInv, Working
  <2>9. run'[j] = l
    BY <1>2, <2>1, <2>7, <2>8, BecomesIs
  <2>10. jobs'[j] = row
    BY <2>1 DEF IInv, TypeOK
  <2>11. TaskInv(j)'
    BY <1>1, <1>2, <2>3, <2>7, <2>9, <2>10
       DEF TaskInv, Working, Active, Terminal
  <2>12. JobInv(j)'
    BY <1>2, <2>2, <2>3, <2>7, <2>9, <2>10 DEF JobInv, Working
  <2>13. SuccessIsTrue' /\ covered' \in [Jobs -> SUBSET Versions]
    BY <1>1, <2>1, <2>3, NoSuccess
  <2>14. run[j].pc # "upsert"
    BY <1>1
  <2>15. QED
    BY <1>1, <2>1, <2>3, <2>7, <2>8, <2>11, <2>12, <2>13, <2>14, JobMove
<1>4. CASE jobs[j].status # "pending"
  <2>1. jobs[j].status = "gone"
    BY <1>1, <1>4, AtWork
  <2> DEFINE row == jobs[j]
             label == "done"
  <2>2. /\ jobs' = [jobs EXCEPT ![j] = row] /\ Goto(j, label)
        /\ label \in {"done", "lost"} /\ label = "done"
    BY <1>4, RowTypes DEF Claim
  <2>3. row \in JobRows /\ row.status = "gone"
    BY <1>2, <2>1
  <2> HIDE DEF row, label
  <2>4. SuccessIsTrue' /\ covered' \in [Jobs -> SUBSET Versions]
    BY <1>1, <2>2, <2>3, NoSuccess
  <2>5. row.status # "none" /\ row.status \notin Active
    BY <2>3 DEF Active
  <2>6. run[j].pc # "upsert"
    BY <1>1
  <2>7. QED
    BY <1>1, <1>2, <2>2, <2>3, <2>4, <2>5, <2>6, TaskEnds
<1>5. QED
  BY <1>3, <1>4

\* A task that ends without a word on its outcome.
LEMMA LostKeeps ==
    ASSUME IInv, NEW j \in Jobs, NEW row \in JobRows, Goto(j, "lost"),
           run[j].pc \in {"claim", "succeed", "fail"},
           jobs' = [jobs EXCEPT ![j] = row],
           row.status \in {"pending", "running", "gone"},
           row.status \in Active => row.batch_size \in BatchSizes,
           UNCHANGED <<catalog, index, lock, up, covered>>
    PROVE  IInv'
<1>1. up /\ run[j].pc # "upsert"
  BY AtWork
<1>2. SuccessIsTrue' /\ covered' \in [Jobs -> SUBSET Versions]
  BY NoSuccess
<1>3. row.status # "none" /\ row.status \notin Terminal
  BY DEF Terminal
<1> DEFINE label == "lost"
<1>4. label \in {"done", "lost"} /\ Goto(j, label) /\ label = "lost"
  OBVIOUS
<1> HIDE DEF label
<1>5. QED
  BY <1>1, <1>2, <1>3, <1>4, TaskEnds

\* The claim raises.
LEMMA ClaimFailsKeeps ==
    ASSUME IInv, NEW j \in Jobs, ClaimFails(j)
    PROVE  IInv'
<1>1. /\ run[j].pc = "claim" /\ Goto(j, "lost")
      /\ UNCHANGED <<catalog, index, lock, up, covered>>
  BY DEF ClaimFails
<1>2. /\ jobs[j] \in JobRows /\ jobs = [jobs EXCEPT ![j] = jobs[j]]
      /\ jobs[j].status \in {"pending", "gone"}
      /\ jobs[j].status \in Active => jobs[j].batch_size \in BatchSizes
  BY <1>1, AtWork, RowTypes DEF IInv, JobInv
<1>3. CASE UNCHANGED jobs
  BY <1>1, <1>2, <1>3, LostKeeps
<1>4. CASE /\ jobs[j].status = "pending"
           /\ jobs' = [jobs EXCEPT ![j].status = "running"]
  <2> DEFINE row == [jobs[j] EXCEPT !.status = "running"]
  <2>1. row \in JobRows /\ row.status = "running" /\ row.batch_size = jobs[j].batch_size
    BY <1>2, StatusIs DEF Active
  <2>2. jobs' = [jobs EXCEPT ![j] = row]
    BY <1>4
  <2> HIDE DEF row
  <2>3. row.batch_size \in BatchSizes
    BY <1>2, <1>4, <2>1 DEF Active
  <2>4. QED
    BY <1>1, <2>1, <2>2, <2>3, LostKeeps
<1>5. QED
  BY <1>3, <1>4 DEF ClaimFails

\* The outcome is not written.
LEMMA OutcomeLostKeeps ==
    ASSUME IInv, NEW j \in Jobs, OutcomeLost(j)
    PROVE  IInv'
<1>1. /\ run[j].pc \in {"succeed", "fail"} /\ Goto(j, "lost")
      /\ UNCHANGED <<catalog, index, jobs, lock, up, covered>>
  BY DEF OutcomeLost
<1>2. /\ jobs[j] \in JobRows /\ jobs = [jobs EXCEPT ![j] = jobs[j]]
      /\ jobs[j].status \in {"running", "gone"}
      /\ jobs[j].status \in Active => jobs[j].batch_size \in BatchSizes
  BY <1>1, AtWork, RowTypes DEF IInv, JobInv, Working
<1>3. QED
  BY <1>1, <1>2, LostKeeps

\* A failure is recorded.
LEMMA FailKeeps ==
    ASSUME IInv, NEW j \in Jobs, Fail(j)
    PROVE  IInv'
<1>1. /\ run[j].pc = "fail" /\ Goto(j, "done")
      /\ UNCHANGED <<catalog, index, lock, up, covered>>
      /\ jobs' = IF Row(j) THEN [jobs EXCEPT ![j].status = "failed"] ELSE jobs
  BY DEF Fail
<1>2. /\ jobs[j] \in JobRows /\ jobs = [jobs EXCEPT ![j] = jobs[j]]
      /\ jobs[j].status \in {"running", "gone"} /\ up
  BY <1>1, AtWork, RowTypes DEF Working
<1> DEFINE row == IF Row(j) THEN [jobs[j] EXCEPT !.status = "failed"] ELSE jobs[j]
           label == "done"
<1>3. row \in JobRows /\ row.status \in {"failed", "gone"}
  BY <1>2, StatusIs DEF Row, Terminal
<1>4. jobs' = [jobs EXCEPT ![j] = row]
  BY <1>1, <1>2
<1>5. label \in {"done", "lost"} /\ Goto(j, label) /\ label = "done"
  BY <1>1
<1> HIDE DEF row, label
<1>6. SuccessIsTrue' /\ covered' \in [Jobs -> SUBSET Versions]
  BY <1>1, <1>3, <1>4, NoSuccess
<1>7. row.status # "none" /\ row.status \notin Active
  BY <1>3 DEF Active
<1>8. run[j].pc # "upsert"
  BY <1>1
<1>9. QED
  BY <1>1, <1>2, <1>3, <1>4, <1>5, <1>6, <1>7, <1>8, TaskEnds

\* A success is recorded, and is one.
LEMMA SucceedKeeps ==
    ASSUME IInv, NEW j \in Jobs, Succeed(j)
    PROVE  IInv'
<1>1. /\ run[j].pc = "succeed" /\ Goto(j, "done")
      /\ UNCHANGED <<catalog, index, lock, up>>
  BY DEF Succeed
<1>2. /\ jobs[j] \in JobRows /\ jobs = [jobs EXCEPT ![j] = jobs[j]]
      /\ jobs[j].status \in {"running", "gone"} /\ up
      /\ j \in Runners /\ run[j] \in Locals /\ LocalInv(run[j]) /\ JobInv(j)
      /\ covered \in [Jobs -> SUBSET Versions] /\ SuccessIsTrue
  BY <1>1, AtWork, RowTypes, RunnerIs DEF Working
<1> DEFINE label == "done"
<1>3. label \in {"done", "lost"} /\ Goto(j, label) /\ label = "done"
  BY <1>1
<1>4. run[j].pc # "upsert"
  BY <1>1
<1> HIDE DEF label
<1>5. CASE ~Row(j)
  <2> DEFINE row == jobs[j]
  <2>1. /\ jobs' = [jobs EXCEPT ![j] = row] /\ covered' = covered
        /\ row \in JobRows /\ row.status = "gone"
    BY <1>2, <1>5 DEF Succeed, Row
  <2> HIDE DEF row
  <2>2. SuccessIsTrue' /\ covered' \in [Jobs -> SUBSET Versions]
    BY <1>1, <2>1, NoSuccess
  <2>3. row.status # "none" /\ row.status \notin Active
    BY <2>1 DEF Active
  <2>4. QED
    BY <1>1, <1>2, <1>3, <1>4, <2>1, <2>2, <2>3, TaskEnds
<1>6. CASE Row(j)
  <2> DEFINE row == [jobs[j] EXCEPT !.status = "succeeded",
                                    !.published = Len(run[j].docs),
                                    !.current = run[j].current,
                                    !.pending = run[j].pending,
                                    !.embedded = run[j].embedded,
                                    !.batches = run[j].batches]
  <2>1. /\ jobs' = [jobs EXCEPT ![j] = row]
        /\ covered' = [covered EXCEPT ![j] = ToSet(run[j].docs)]
    BY <1>6 DEF Succeed
  <2>2. /\ Len(run[j].docs) \in Nat /\ run[j].current \in Nat
        /\ run[j].pending \in Nat /\ run[j].embedded \in Nat
        /\ run[j].batches \in Nat /\ run[j].docs \in Seq(Versions)
    BY <1>2, LocalTypes
  <2>3. row \in JobRows
    BY <1>2, <2>2 DEF JobRows, Terminal
  <2>4. /\ row.status = "succeeded" /\ row.published = Len(run[j].docs)
        /\ row.current = run[j].current /\ row.pending = run[j].pending
        /\ row.embedded = run[j].embedded /\ row.batches = run[j].batches
        /\ row.batch_size = jobs[j].batch_size
    BY <1>2 DEF JobRows
  <2> HIDE DEF row
  <2>5. jobs[j].status = "running"
    BY <1>2, <1>6 DEF Row
  <2>6. /\ jobs[j].batch_size = run[j].batch_size /\ ~run[j].dry_run
        /\ ToSet(run[j].docs) \subseteq index \union ToSet(run[j].todo)
    BY <1>1, <1>2, <2>5 DEF JobInv, Working
  <2>7. /\ run[j].todo = <<>> /\ Increasing(run[j].docs)
        /\ run[j].batches = Batches(run[j].embedded, run[j].batch_size)
        /\ run[j].current + run[j].pending = Len(run[j].docs)
        /\ run[j].embedded + Len(run[j].todo) = run[j].pending
    BY <1>1, <1>2, <2>6 DEF LocalInv
  <2>8. ToSet(run[j].docs) \subseteq index
    <3>1. ToSet(<<>>) = {}
      BY DEF ToSet
    <3>2. QED
      BY <2>6, <2>7, <3>1
  <2>9. run[j].embedded = run[j].pending
    <3>1. Len(run[j].todo) = 0
      BY <2>7
    <3>2. QED
      BY <2>2, <2>7, <3>1
  <2>10. /\ Cardinality(ToSet(run[j].docs)) = Len(run[j].docs)
         /\ ToSet(run[j].docs) \subseteq Versions
    BY <2>2, <2>7, IncreasingCounts
  <2>11. /\ jobs'[j] = row /\ \A i \in Jobs \ {j} : jobs'[i] = jobs[i]
         /\ covered'[j] = ToSet(run[j].docs)
         /\ \A i \in Jobs \ {j} : covered'[i] = covered[i]
         /\ covered' \in [Jobs -> SUBSET Versions]
    BY <1>2, <2>1, <2>10 DEF IInv, TypeOK
  <2>12. SucceededIsIndexed'
    BY <1>1, <1>2, <2>8, <2>11 DEF SuccessIsTrue, SucceededIsIndexed
  <2>13. SummaryAddsUp'
    <3>1. /\ row.published = Cardinality(ToSet(run[j].docs))
          /\ row.embedded = row.pending
          /\ row.current + row.embedded = row.published
          /\ row.batches = (row.embedded + row.batch_size - 1) \div row.batch_size
      BY <2>4, <2>6, <2>7, <2>9, <2>10 DEF Batches
    <3>2. QED
      BY <1>2, <2>11, <3>1 DEF SuccessIsTrue, SummaryAddsUp
  <2>14. SuccessIsTrue'
    BY <2>12, <2>13 DEF SuccessIsTrue
  <2>15. row.status # "none" /\ row.status \notin Active
    BY <2>4 DEF Active
  <2>16. QED
    BY <1>1, <1>2, <1>3, <1>4, <2>1, <2>3, <2>11, <2>14, <2>15, TaskEnds
<1>7. QED
  BY <1>5, <1>6

-----------------------------------------------------------------------------
(***************************************************************************)
(* The processes and the rest of the database                              *)
(***************************************************************************)
\* Dead processes end their runs and release their rows.
LEMMA KilledIs ==
    ASSUME IInv, NEW S \in SUBSET Runners, Killed(S)
    PROVE  /\ run' \in [Runners -> Locals]
           /\ \A r \in Runners : LocalInv(run'[r])
           /\ \A r \in Runners \ S : run'[r] = run[r]
           /\ \A r \in S : \/ run[r].pc = "none" /\ run'[r] = run[r]
                           \/ run[r].pc # "none" /\ run'[r] = Ended("done")
           /\ lock' \in [Versions -> Runners \union {None}] /\ LockInv'
<1>1. /\ run \in [Runners -> Locals] /\ \A r \in Runners : LocalInv(run[r])
      /\ lock \in [Versions -> Runners \union {None}] /\ LockInv
  BY DEF IInv, TypeOK
<1> DEFINE ended == Ended("done")
<1>2. ended \in Locals /\ LocalInv(ended)
  BY EndedIs
<1>3. /\ run' = [r \in Runners |->
                   IF r \in S /\ run[r].pc # "none" THEN ended ELSE run[r]]
      /\ lock' = [v \in Versions |-> IF lock[v] \in S THEN None ELSE lock[v]]
  BY DEF Killed
<1> HIDE DEF ended
<1>4. \A r \in Runners :
         run'[r] = IF r \in S /\ run[r].pc # "none" THEN ended ELSE run[r]
  BY <1>3
<1>5. run' \in [Runners -> Locals] /\ \A r \in Runners : LocalInv(run'[r])
  BY <1>1, <1>2, <1>3
<1>6. lock' \in [Versions -> Runners \union {None}]
  BY <1>1, <1>3
<1>7. ASSUME NEW v \in Versions, lock'[v] # None
      PROVE  lock'[v] = lock[v] /\ lock[v] \in Runners \ S
  BY <1>1, <1>3, <1>7
<1>8. LockInv'
  BY <1>1, <1>4, <1>7 DEF LockInv
<1>9. QED
  BY <1>4, <1>5, <1>6, <1>8 DEF ended

\* The web process dies.
LEMMA CrashKeeps ==
    ASSUME IInv, Crash
    PROVE  IInv'
<1>1. Killed(Jobs) /\ up' = FALSE /\ UNCHANGED <<catalog, index, jobs, covered>>
  BY DEF Crash
<1>2. Jobs \in SUBSET Runners
  BY DEF Runners
<1>3. /\ run' \in [Runners -> Locals]
      /\ \A r \in Runners : LocalInv(run'[r])
      /\ \A r \in Jobs : \/ run[r].pc = "none" /\ run'[r] = run[r]
                         \/ run[r].pc # "none" /\ run'[r] = Ended("done")
      /\ lock' \in [Versions -> Runners \union {None}] /\ LockInv'
  BY <1>1, <1>2, KilledIs
<1>4. TypeOK'
  BY <1>1, <1>3 DEF IInv, TypeOK
<1>5. SuccessIsTrue'
  BY <1>1, SuccessKept DEF IInv
<1>6. ASSUME NEW j \in Jobs
      PROVE  TaskInv(j)' /\ JobInv(j)'
  <2>1. TaskInv(j) /\ JobInv(j)
    BY DEF IInv
  <2>2. CASE run[j].pc = "none" /\ run'[j] = run[j]
    BY <1>1, <2>1, <2>2 DEF TaskInv, JobInv, Working, Terminal, Active
  <2>3. CASE run[j].pc # "none" /\ run'[j] = Ended("done")
    <3>1. run'[j].pc = "done" /\ run'[j].dry_run = FALSE
      BY <2>3, EndedIs
    <3>2. QED
      BY <1>1, <2>1, <2>3, <3>1 DEF TaskInv, JobInv, Working
  <2>4. QED
    BY <1>3, <2>2, <2>3
<1>7. QED
  BY <1>3, <1>4, <1>5, <1>6 DEF IInv

\* The process of a command line dies.
LEMMA CliDiesKeeps ==
    ASSUME IInv, NEW c \in Clis, CliDies(c)
    PROVE  IInv'
<1>1. Killed({c}) /\ UNCHANGED <<catalog, index, jobs, up, covered>>
  BY DEF CliDies
<1>2. {c} \in SUBSET Runners /\ \A j \in Jobs : j \in Runners \ {c}
  BY RunnerAssumption DEF Runners
<1>3. /\ run' \in [Runners -> Locals]
      /\ \A r \in Runners : LocalInv(run'[r])
      /\ \A r \in Runners \ {c} : run'[r] = run[r]
      /\ lock' \in [Versions -> Runners \union {None}] /\ LockInv'
  BY <1>1, <1>2, KilledIs
<1>4. TypeOK'
  BY <1>1, <1>3 DEF IInv, TypeOK
<1>5. SuccessIsTrue'
  BY <1>1, SuccessKept DEF IInv
<1>6. ASSUME NEW j \in Jobs
      PROVE  TaskInv(j)' /\ JobInv(j)'
  BY <1>1, <1>2, <1>3, OtherJob DEF IInv
<1>7. QED
  BY <1>3, <1>4, <1>5, <1>6 DEF IInv

\* What the recovery makes of a row.
LEMMA RecoveredIs ==
    ASSUME NEW row \in JobRows
    PROVE  /\ Recovered(row) \in JobRows
           /\ row.status \notin Active => Recovered(row) = row
           /\ row.status \in Active => Recovered(row).status = "failed"
BY StatusIs DEF Recovered, Terminal

\* The web process starts: no task is at work, and no row is active.
LEMMA StartKeeps ==
    ASSUME IInv, Start
    PROVE  IInv'
<1>1. /\ ~up /\ up' = TRUE /\ jobs' = [j \in Jobs |-> Recovered(jobs[j])]
      /\ UNCHANGED <<catalog, index, lock, run, covered>>
  BY DEF Start
<1>2. ASSUME NEW j \in Jobs
      PROVE  /\ jobs'[j] = Recovered(jobs[j]) /\ Recovered(jobs[j]) \in JobRows
             /\ jobs[j].status \notin Active => Recovered(jobs[j]) = jobs[j]
             /\ jobs[j].status \in Active => Recovered(jobs[j]).status = "failed"
  BY <1>1, RowTypes, RecoveredIs
<1>3. jobs' \in [Jobs -> JobRows]
  BY <1>1, <1>2
<1>4. TypeOK'
  BY <1>1, <1>3 DEF IInv, TypeOK
<1>5. LockInv'
  BY <1>1 DEF IInv, LockInv
<1>6. SuccessIsTrue'
  <2>1. ASSUME NEW j \in Jobs, jobs'[j].status = "succeeded"
        PROVE  jobs'[j] = jobs[j] /\ covered'[j] = covered[j]
    BY <1>1, <1>2, <2>1
  <2>2. QED
    BY <1>1, <2>1, SuccessKept DEF IInv
<1>7. ASSUME NEW j \in Jobs
      PROVE  TaskInv(j)' /\ JobInv(j)'
  <2>1. TaskInv(j) /\ JobInv(j) /\ run[j].pc \in {"none", "done"}
    BY <1>1 DEF IInv, TaskInv
  <2>2. CASE jobs[j].status \in Active
    <3>1. jobs'[j].status = "failed" /\ run[j].pc = "done"
      BY <1>2, <2>1, <2>2 DEF TaskInv, Active
    <3>2. QED
      BY <1>1, <2>1, <3>1 DEF TaskInv, JobInv, Working, Active, Terminal
  <2>3. CASE jobs[j].status \notin Active
    <3>1. jobs'[j] = jobs[j]
      BY <1>2, <2>3
    <3>2. QED
      BY <1>1, <2>1, <2>3, <3>1 DEF TaskInv, JobInv, Working, Active, Terminal
  <2>4. QED
    BY <2>2, <2>3
<1>8. QED
  BY <1>1, <1>4, <1>5, <1>6, <1>7 DEF IInv

\* A publication.
LEMMA PublishKeeps ==
    ASSUME IInv, Publish
    PROVE  IInv'
<1>1. UNCHANGED <<index, jobs, lock, up, run, covered>>
  BY DEF Publish
<1>2. catalog' \in [Versions -> CatalogStatuses]
  BY DEF Publish, IInv, TypeOK, CatalogStatuses
<1>3. TypeOK'
  BY <1>1, <1>2 DEF IInv, TypeOK
<1>4. ASSUME NEW j \in Jobs
      PROVE  TaskInv(j)' /\ JobInv(j)'
  BY <1>1, OtherJob DEF IInv
<1>5. LockInv' /\ SuccessIsTrue'
  BY <1>1, SuccessKept DEF IInv, LockInv
<1>6. QED
  BY <1>1, <1>3, <1>4, <1>5 DEF IInv

\* The row that stands for none.
LEMMA NoJobIs ==
    /\ NoJob \in JobRows /\ NoJob.status = "none"
    /\ [NoJob EXCEPT !.status = "gone"] \in JobRows
    /\ [NoJob EXCEPT !.status = "gone"].status = "gone"
<1> DEFINE Made(f) ==
             [status |-> "none", force |-> f, batch_size |-> 0, published |-> 0,
              current |-> 0, pending |-> 0, embedded |-> 0, batches |-> 0]
<1>1. \A f \in BOOLEAN : Made(f) \in JobRows /\ Made(f).status = "none"
  BY DEF JobRows
<1>2. NoJob = Made(FALSE)
  BY DEF NoJob
<1> HIDE DEF Made
<1>3. NoJob \in JobRows /\ NoJob.status = "none"
  BY <1>1, <1>2, Zenon
<1>4. QED
  BY <1>3 DEF JobRows

\* The reset: no transaction is open, and every row goes.
LEMMA ResetKeeps ==
    ASSUME IInv, Reset
    PROVE  IInv'
<1>1. /\ \A v \in Versions : lock[v] = None
      /\ index' = {} /\ UNCHANGED <<lock, up, run, covered>>
  BY DEF Reset
<1>2. catalog' \in [Versions -> CatalogStatuses]
  BY DEF Reset, CatalogStatuses
<1> DEFINE empty == NoJob
           gone == [NoJob EXCEPT !.status = "gone"]
<1>3. /\ empty \in JobRows /\ empty.status = "none"
      /\ gone \in JobRows /\ gone.status = "gone"
  BY NoJobIs
<1>4. jobs' = [j \in Jobs |-> IF jobs[j].status = "none" THEN empty ELSE gone]
  BY DEF Reset
<1> HIDE DEF empty, gone
<1>5. /\ jobs' \in [Jobs -> JobRows]
      /\ \A j \in Jobs : jobs'[j].status = IF jobs[j].status = "none"
                                           THEN "none" ELSE "gone"
  BY <1>3, <1>4
<1>6. TypeOK'
  BY <1>1, <1>2, <1>5 DEF IInv, TypeOK
<1>7. LockInv'
  BY <1>1 DEF LockInv
<1>8. SuccessIsTrue'
  BY <1>5 DEF SuccessIsTrue, SucceededIsIndexed, SummaryAddsUp
<1>9. ASSUME NEW j \in Jobs
      PROVE  TaskInv(j)' /\ JobInv(j)'
  <2>1. TaskInv(j) /\ JobInv(j)
    BY DEF IInv
  <2>2. QED
    BY <1>1, <1>5, <2>1 DEF TaskInv, JobInv, Active, Terminal
<1>10. QED
  BY <1>1, <1>6, <1>7, <1>8, <1>9 DEF IInv

-----------------------------------------------------------------------------
(***************************************************************************)
(* The theorems                                                            *)
(***************************************************************************)
\* The invariant holds when nothing has run.
LEMMA InitHolds ==
    ASSUME Init
    PROVE  IInv
<1> DEFINE waiting == Waiting
           empty == NoJob
<1>1. /\ waiting \in Locals /\ waiting.pc = "none" /\ waiting.dry_run = FALSE
      /\ LocalInv(waiting)
  BY EndedIs
<1>2. empty \in JobRows /\ empty.status = "none"
  BY NoJobIs
<1>3. /\ run = [r \in Runners |-> waiting] /\ jobs = [j \in Jobs |-> empty]
      /\ lock = [v \in Versions |-> None] /\ up = TRUE /\ index = {}
      /\ covered = [j \in Jobs |-> {}]
  BY DEF Init
<1>4. catalog \in [Versions -> CatalogStatuses]
  BY DEF Init, CatalogStatuses
<1> HIDE DEF waiting, empty
<1>5. TypeOK
  BY <1>1, <1>2, <1>3, <1>4 DEF TypeOK
<1>6. ASSUME NEW j \in Jobs
      PROVE  TaskInv(j) /\ JobInv(j)
  <2>1. jobs[j].status = "none" /\ run[j] = waiting
    BY <1>2, <1>3 DEF Runners
  <2>2. QED
    BY <1>1, <1>3, <2>1 DEF TaskInv, JobInv, Working, Active, Terminal
<1>7. LockInv
  BY <1>3 DEF LockInv
<1>8. SuccessIsTrue
  BY <1>2, <1>3 DEF SuccessIsTrue, SucceededIsIndexed, SummaryAddsUp
<1>9. \A r \in Runners : LocalInv(run[r])
  BY <1>1, <1>3
<1>10. QED
  BY <1>5, <1>6, <1>7, <1>8, <1>9 DEF IInv

\* A step inside the use case, a job's or the command line's.
LEMMA RunnerStepKeeps ==
    ASSUME IInv, NEW r \in Runners, RunnerStep(r)
    PROVE  IInv'
BY ListPublishedKeeps, LoadExistingKeeps, EmbedKeeps, UpsertRowKeeps,
   UpsertCommitKeeps DEF RunnerStep

\* Every step keeps the invariant.
LEMMA NextKeeps ==
    ASSUME IInv, [Next]_vars
    PROVE  IInv'
<1>1. ASSUME NEW j \in Jobs,
             \/ CreateJob(j) \/ CreateUnanswered(j) \/ TaskStep(j)
             \/ ClaimFails(j) \/ OutcomeLost(j)
      PROVE  IInv'
  <2>1. j \in Runners
    BY DEF Runners
  <2>2. CASE TaskStep(j)
    BY <2>1, <2>2, ClaimKeeps, RunnerStepKeeps, SucceedKeeps, FailKeeps
       DEF TaskStep
  <2>3. QED
    BY <1>1, <2>2, CreateJobKeeps, CreateUnansweredKeeps, ClaimFailsKeeps,
       OutcomeLostKeeps
<1>2. ASSUME NEW c \in Clis, StartCli(c) \/ RunnerStep(c) \/ CliDies(c)
      PROVE  IInv'
  <2>1. c \in Runners
    BY DEF Runners
  <2>2. QED
    BY <1>2, <2>1, StartCliKeeps, RunnerStepKeeps, CliDiesKeeps
<1>3. ASSUME NEW r \in Runners, ReindexFails(r)
      PROVE  IInv'
  BY <1>3, ReindexFailsKeeps
<1>4. CASE Crash \/ Start \/ Publish \/ Reset
  BY <1>4, CrashKeeps, StartKeeps, PublishKeeps, ResetKeeps
<1>5. CASE UNCHANGED vars
  <2>1. UNCHANGED <<catalog, index, jobs, lock, up, run, covered>>
    BY <1>5 DEF vars
  <2>2. TypeOK' /\ LockInv' /\ SuccessIsTrue'
    BY <2>1, SuccessKept DEF IInv, TypeOK, LockInv
  <2>3. \A j \in Jobs : TaskInv(j)' /\ JobInv(j)'
    BY <2>1, OtherJob DEF IInv
  <2>4. QED
    BY <2>1, <2>2, <2>3 DEF IInv
<1>6. QED
  BY <1>1, <1>2, <1>3, <1>4, <1>5 DEF Next

\* The inductive invariant holds in every behaviour.
THEOREM ReindexInvariance == Spec => []IInv
<1>1. Init => IInv
  BY InitHolds
<1>2. IInv /\ [Next]_vars => IInv'
  BY NextKeeps
<1>3. QED
  BY <1>1, <1>2, PTL DEF Spec

\* The variables keep their types: in particular the counts a job reports
\* are never negative.
THEOREM ReindexTypeCorrect == Spec => []TypeOK
<1>1. IInv => TypeOK
  BY DEF IInv
<1>2. QED
  BY <1>1, ReindexInvariance, PTL

\* A job that says succeeded (sqlalchemy_job_store.py, succeed) has every
\* version it listed in the index, and its counts account for them, for any
\* batch size and whatever else runs, dies, publishes or resets meanwhile.
THEOREM ReindexSuccess == Spec => []SuccessIsTrue
<1>1. IInv => SuccessIsTrue
  BY DEF IInv
<1>2. QED
  BY <1>1, ReindexInvariance, PTL

\* However many upserts (sqlalchemy_repository.py, upsert_many) run at once,
\* they do not wait for one another in a circle; and the job that holds the
\* active slot has a task, or lost it to a failing database.
THEOREM ReindexNotStuck == Spec => []NoJobIsStuck
<1>1. IInv => ActiveHasTask
  <2>1. SUFFICES ASSUME IInv, up, NEW j \in ActiveJobs
                 PROVE  run[j].pc \notin {"none", "done"}
    BY DEF ActiveHasTask
  <2>2. j \in Jobs /\ jobs[j].status \in Active /\ TaskInv(j)
    BY <2>1 DEF ActiveJobs, IInv
  <2>3. QED
    BY <2>1, <2>2 DEF TaskInv, Active
<1>2. IInv => NoJobIsStuck
  BY <1>1, NoCircle DEF NoJobIsStuck
<1>3. QED
  BY <1>2, ReindexInvariance, PTL

\* An ended job has no task, and the recovery passes it by: nothing but the
\* reset ever writes its row again.
LEMMA EndedKept ==
    ASSUME IInv, [Next]_vars, NEW j \in Jobs, jobs[j].status \in Terminal
    PROVE  jobs'[j] = jobs[j] \/ jobs'[j].status = "gone"
<1>1. /\ run[j].pc = "done" /\ jobs \in [Jobs -> JobRows]
      /\ jobs[j].status \notin Active /\ jobs[j].status # "none"
  BY DEF IInv, TypeOK, TaskInv, Terminal, Active
<1>2. ASSUME NEW i \in Jobs, i = j,
             \/ CreateJob(i) \/ CreateUnanswered(i) \/ TaskStep(i)
             \/ ClaimFails(i) \/ OutcomeLost(i)
      PROVE  FALSE
  BY <1>1, <1>2 DEF CreateJob, CreateUnanswered, TaskStep, Claim, RunnerStep,
     ListPublished, LoadExisting, Embed, UpsertRow, UpsertCommit, Succeed, Fail,
     ClaimFails, OutcomeLost
<1>3. ASSUME NEW i \in Jobs,
             \/ CreateJob(i) \/ CreateUnanswered(i) \/ TaskStep(i)
             \/ ClaimFails(i) \/ OutcomeLost(i)
      PROVE  jobs'[j] = jobs[j]
  <2>1. i # j
    BY <1>2, <1>3
  <2>2. CASE CreateJob(i) \/ CreateUnanswered(i)
    BY <1>1, <2>1, <2>2 DEF CreateJob, CreateUnanswered
  <2>3. CASE Claim(i) \/ ClaimFails(i) \/ OutcomeLost(i)
    BY <1>1, <2>1, <2>3 DEF Claim, ClaimFails, OutcomeLost
  <2>4. CASE RunnerStep(i)
    BY <2>4 DEF RunnerStep, ListPublished, LoadExisting, Embed, UpsertRow,
       UpsertCommit
  <2>5. CASE Succeed(i) \/ Fail(i)
    BY <1>1, <2>1, <2>5 DEF Succeed, Fail
  <2>6. QED
    BY <1>3, <2>2, <2>3, <2>4, <2>5 DEF TaskStep
<1>4. ASSUME NEW c \in Clis, StartCli(c) \/ RunnerStep(c) \/ CliDies(c)
      PROVE  jobs' = jobs
  BY <1>4 DEF StartCli, RunnerStep, CliDies, ListPublished, LoadExisting, Embed,
     UpsertRow, UpsertCommit
<1>5. ASSUME NEW r \in Runners, ReindexFails(r)
      PROVE  jobs' = jobs
  BY <1>5 DEF ReindexFails
<1>6. CASE Crash \/ Publish \/ UNCHANGED vars
  BY <1>6 DEF Crash, Publish, vars
<1>7. CASE Start
  BY <1>1, <1>7, RecoveredIs DEF Start
<1>8. CASE Reset
  <2>1. jobs'[j] = [NoJob EXCEPT !.status = "gone"]
    BY <1>1, <1>8 DEF Reset
  <2>2. QED
    BY <2>1, NoJobIs
<1>9. QED
  BY <1>3, <1>4, <1>5, <1>6, <1>7, <1>8 DEF Next

\* An ended job stays as it ended, whatever claims, retries, crashes and
\* recoveries follow (sqlalchemy_job_store.py, recover_interrupted).
THEOREM ReindexEnded == Spec => EndedStaysEnded
<1>1. IInv /\ [Next]_vars =>
         [\A j \in Jobs :
             jobs[j].status \in Terminal =>
                 jobs'[j] = jobs[j] \/ jobs'[j].status = "gone"]_vars
  BY EndedKept
<1>2. QED
  BY <1>1, ReindexInvariance, PTL DEF Spec, EndedStaysEnded
=============================================================================
