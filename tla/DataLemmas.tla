----------------------------- MODULE DataLemmas -----------------------------
(***************************************************************************)
(* Facts about data that several proofs need.                              *)
(*                                                                         *)
(* Induction over the naturals, in a form without an operator parameter:   *)
(* what a recursive function computes can be proved with it.               *)
(*                                                                         *)
(* The ring buffers of common/thread_pool.c and common/queue.c: slots      *)
(* 0..N-1, an index where the queue starts, an index where the next item   *)
(* goes, and a count.  These lemmas say that such a ring is a sequence,    *)
(* that writing the slot behind the last one appends to it, and that       *)
(* moving the start on removes its first element.                          *)
(***************************************************************************)
EXTENDS Integers, SequencesExt, FiniteSetTheorems, WellFoundedInduction, SequenceTheorems, TLAPS

\* A set of naturals has a least element: of the initial segments up to its
\* elements, which are finite sets, one is minimal.
LEMMA Least ==
    ASSUME NEW A \in SUBSET Nat, A # {}
    PROVE  \E n \in A : \A m \in A : n <= m
<1> DEFINE T == {1..n : n \in A}
<1>1. \A n \in Nat : 1..n \in FiniteSubsetsOf(Nat)
  BY FS_Interval DEF FiniteSubsetsOf
<1>2. T \subseteq FiniteSubsetsOf(Nat) /\ T # {}
  BY <1>1
<1>3. IsWellFoundedOn(StrictSubsetOrdering(Nat), FiniteSubsetsOf(Nat))
  BY FS_StrictSubsetOrderingWellFounded
<1> HIDE DEF T
<1>4. PICK x \in T : \A y \in T : ~ (<<y, x>> \in StrictSubsetOrdering(Nat))
  BY <1>2, <1>3, WFMin
<1>5. PICK n \in A : x = 1..n
  BY DEF T
<1>6. ASSUME NEW m \in A, m < n PROVE FALSE
  <2>1. 1..m \in T
    BY DEF T
  <2>2. n \in 1..n /\ n \notin 1..m /\ 1..m \subseteq 1..n
    BY <1>6
  <2>3. 1..m # 1..n
    BY <2>2
  <2>4. <<1..m, 1..n>> \in StrictSubsetOrdering(Nat)
    BY <1>1, <2>2, <2>3 DEF StrictSubsetOrdering, FiniteSubsetsOf
  <2> QED BY <1>4, <1>5, <2>1, <2>4
<1> QED BY <1>6

\* Induction, with the property as the set of the numbers that have it.
LEMMA Induct ==
    ASSUME NEW A, 0 \in A, \A n \in Nat : n \in A => n + 1 \in A
    PROVE  Nat \subseteq A
<1> SUFFICES ASSUME ~(Nat \subseteq A) PROVE FALSE
  OBVIOUS
<1>1. PICK n \in Nat \ A : \A m \in Nat \ A : n <= m
  BY Least
<1>2. n # 0 /\ n - 1 \in Nat /\ ~(n <= n - 1) /\ (n - 1) + 1 = n
  OBVIOUS
<1> QED BY <1>1, <1>2

-----------------------------------------------------------------------------
(* Rings *)

\* The slot that number i denotes in a ring of N.
Slot(i, N) == i % N

\* n slots of f from h on, as a sequence.
RingOf(f, h, n, N) == [k \in 1..n |-> f[Slot(h + k - 1, N)]]

\* A number that is less than twice the capacity wraps around once at most.
LEMMA SlotIs ==
    ASSUME NEW N \in Nat \ {0}, NEW i \in Nat, i < N + N
    PROVE  /\ Slot(i, N) \in 0..N-1
           /\ i < N => Slot(i, N) = i
           /\ i >= N => Slot(i, N) = i - N
<1>1. i < 2 * N
  OBVIOUS
<1>2. i % N \in 0..N-1 /\ i % N = IF i < N THEN i ELSE i - N
  BY <1>1
<1> QED
  BY <1>2 DEF Slot

\* The type, the length and the elements of a ring.
LEMMA RingSeq ==
    ASSUME NEW N \in Nat \ {0}, NEW h \in 0..N-1, NEW n \in 0..N,
           NEW T, NEW f \in [0..N-1 -> T]
    PROVE  /\ RingOf(f, h, n, N) \in Seq(T)
           /\ Len(RingOf(f, h, n, N)) = n
           /\ \A k \in 1..n : RingOf(f, h, n, N)[k] = f[Slot(h + k - 1, N)]
<1> DEFINE q == RingOf(f, h, n, N)
<1>1. \A k \in 1..n : f[Slot(h + k - 1, N)] \in T
  <2> SUFFICES ASSUME NEW k \in 1..n PROVE f[Slot(h + k - 1, N)] \in T
    OBVIOUS
  <2>1. PICK m \in Nat : m = h + k - 1
    OBVIOUS
  <2>2. Slot(m, N) \in 0..N-1
    BY <2>1, SlotIs
  <2> QED
    BY <2>1, <2>2
<1>2. q \in [1..n -> T] /\ \A k \in 1..n : q[k] = f[Slot(h + k - 1, N)]
  BY <1>1 DEF RingOf
<1>3. q \in Seq(T)
  BY <1>2, SeqDef
<1>4. DOMAIN q = 1..n
  BY <1>2
<1>5. Len(q) = n
  BY <1>3, <1>4, LenProperties
<1> QED
  BY <1>2, <1>3, <1>5

\* Two steps are one step.
LEMMA SlotAdd ==
    ASSUME NEW N \in Nat \ {0}, NEW x \in Nat, NEW y \in Nat, x + y < N + N
    PROVE  Slot(Slot(x, N) + y, N) = Slot(x + y, N)
<1>1. PICK z \in Nat : z = x + y
  OBVIOUS
<1>2. z >= N => Slot(z, N) = z - N
  BY <1>1, SlotIs
<1>3. CASE x < N
  BY <1>3, SlotIs
<1>4. CASE x >= N
  <2>1. Slot(x, N) = x - N
    BY <1>4, SlotIs
  <2>2. PICK w \in Nat : w = x - N + y
    BY <1>4
  <2>3. Slot(w, N) = w
    BY <1>4, <2>2, SlotIs
  <2> QED
    BY <1>1, <1>2, <1>4, <2>1, <2>2, <2>3
<1> QED
  BY <1>3, <1>4

\* A ring is a sequence of the length that is counted, whatever it holds.
LEMMA RingElements ==
    ASSUME NEW N \in Nat \ {0}, NEW h \in 0..N-1, NEW n \in 0..N, NEW f
    PROVE  /\ RingOf(f, h, n, N) \in Seq({f[Slot(h + k - 1, N)] : k \in 1..n})
           /\ Len(RingOf(f, h, n, N)) = n
           /\ \A k \in 1..n : RingOf(f, h, n, N)[k] = f[Slot(h + k - 1, N)]
<1> DEFINE q == RingOf(f, h, n, N)
           S == {f[Slot(h + k - 1, N)] : k \in 1..n}
<1>1. q \in [1..n -> S] /\ \A k \in 1..n : q[k] = f[Slot(h + k - 1, N)]
  BY DEF RingOf
<1> HIDE DEF S, q
<1>2. q \in Seq(S)
  BY <1>1, SeqDef
<1>3. DOMAIN q = 1..n
  BY <1>1
<1>4. Len(q) = n
  BY <1>2, <1>3, LenProperties
<1> QED
  BY <1>1, <1>2, <1>4 DEF q, S

\* Writing the slot behind the last item appends to the sequence.
LEMMA RingAppend ==
    ASSUME NEW N \in Nat \ {0}, NEW h \in 0..N-1, NEW n \in 0..N-1, NEW m \in 0..N,
           NEW f, NEW g, NEW x
    PROVE  /\ m = n + 1
           /\ \A i \in 0..N-1 : g[i] = IF i = Slot(h + n, N) THEN x ELSE f[i]
           => RingOf(g, h, m, N) = Append(RingOf(f, h, n, N), x)
<1> DEFINE q == RingOf(f, h, n, N)
           r == RingOf(g, h, m, N)
           t == Slot(h + n, N)
<1>1. n \in 0..N
  OBVIOUS
<1>2. PICK S : q \in Seq(S) /\ Len(q) = n /\ \A k \in 1..n : q[k] = f[Slot(h + k - 1, N)]
  BY <1>1, RingElements
<1>3. PICK R : r \in Seq(R) /\ Len(r) = m /\ \A k \in 1..m : r[k] = g[Slot(h + k - 1, N)]
  BY RingElements
<1> HIDE DEF q, r
<1> SUFFICES ASSUME m = n + 1, \A i \in 0..N-1 : g[i] = IF i = t THEN x ELSE f[i]
             PROVE  r = Append(q, x)
  BY DEF q, r
<1>4. /\ t \in 0..N-1
      /\ h + n < N => t = h + n
      /\ h + n >= N => t = h + n - N
  <2>1. PICK a \in Nat : a = h + n
    OBVIOUS
  <2> QED
    BY <2>1, SlotIs
<1>5. \A k \in 1..n : r[k] = q[k]
  <2> SUFFICES ASSUME NEW k \in 1..n PROVE r[k] = q[k]
    OBVIOUS
  <2>1. PICK a \in Nat : a = h + k - 1
    OBVIOUS
  <2>2. /\ Slot(a, N) \in 0..N-1
        /\ a < N => Slot(a, N) = a
        /\ a >= N => Slot(a, N) = a - N
    BY <2>1, SlotIs
  <2> HIDE DEF t
  <2>3. Slot(a, N) # t
    BY <1>4, <2>1, <2>2
  <2>4. g[Slot(a, N)] = f[Slot(a, N)]
    BY <2>2, <2>3
  <2>5. k \in 1..m
    OBVIOUS
  <2> QED
    BY <1>2, <1>3, <2>1, <2>4, <2>5
<1>6. r[n + 1] = x
  <2>1. n + 1 \in 1..m /\ h + (n + 1) - 1 = h + n
    OBVIOUS
  <2> QED
    BY <1>3, <1>4, <2>1
<1> DEFINE V == S \cup R \cup {x}
<1>7. q \in Seq(V) /\ r \in Seq(V) /\ x \in V
  BY <1>2, <1>3
<1> HIDE DEF V, t
<1>8. Append(q, x) \in Seq(V) /\ Len(Append(q, x)) = n + 1
      /\ (\A k \in 1..n : Append(q, x)[k] = q[k]) /\ Append(q, x)[n + 1] = x
  BY <1>2, <1>7, AppendProperties
<1>9. \A k \in 1..n+1 : r[k] = Append(q, x)[k]
  <2>1. \A k \in 1..n+1 : k \in 1..n \/ k = n + 1
    OBVIOUS
  <2> QED
    BY <1>5, <1>6, <1>8, <2>1
<1> QED
  BY <1>3, <1>7, <1>8, <1>9, SeqEqual

\* The item at the start is the first of the sequence (RingSeq says that it is
\* one); moving the start on leaves the rest.
LEMMA RingRest ==
    ASSUME NEW N \in Nat \ {0}, NEW h \in 0..N-1, NEW n \in 0..N, n # 0,
           NEW T, NEW f \in [0..N-1 -> T],
           RingOf(f, h, n, N) \in Seq(T)
    PROVE  /\ RingOf(f, h, n, N) # <<>>
           /\ Head(RingOf(f, h, n, N)) = f[h]
           /\ RingOf(f, Slot(h + 1, N), n - 1, N) = Tail(RingOf(f, h, n, N))
<1> DEFINE q == RingOf(f, h, n, N)
           next == Slot(h + 1, N)
           r == RingOf(f, next, n - 1, N)
<1> HIDE DEF q, next, r
<1>1. next \in 0..N-1
  <2>1. PICK m \in Nat : m = h + 1
    OBVIOUS
  <2>2. Slot(m, N) \in 0..N-1
    BY <2>1, SlotIs
  <2> QED
    BY <2>1, <2>2 DEF next
<1>2. q \in Seq(T) /\ Len(q) = n /\ \A k \in 1..n : q[k] = f[Slot(h + k - 1, N)]
  <2>1. RingOf(f, h, n, N) \in Seq(T)
    OBVIOUS
  <2>2. Len(RingOf(f, h, n, N)) = n
    BY RingSeq
  <2>3. \A k \in 1..n : RingOf(f, h, n, N)[k] = f[Slot(h + k - 1, N)]
    BY RingSeq
  <2> QED
    BY <2>1, <2>2, <2>3 DEF q
<1>3. r \in Seq(T) /\ Len(r) = n - 1 /\ \A k \in 1..n-1 : r[k] = f[Slot(next + k - 1, N)]
  <2>1. PICK m \in 0..N : m = n - 1
    OBVIOUS
  <2>2. /\ RingOf(f, next, m, N) \in Seq(T) /\ Len(RingOf(f, next, m, N)) = m
        /\ \A k \in 1..m : RingOf(f, next, m, N)[k] = f[Slot(next + k - 1, N)]
    BY <1>1, RingSeq
  <2> QED
    BY <2>1, <2>2 DEF r
<1>4. q # <<>>
  BY <1>2, EmptySeq
<1>5. Head(q) = f[h]
  <2>1. Slot(h, N) = h
    BY SlotIs
  <2>2. 1 \in 1..n /\ h + 1 - 1 = h
    OBVIOUS
  <2>3. q[1] = f[h]
    BY <1>2, <2>1, <2>2
  <2> QED
    BY <2>3
<1>6. Tail(q) \in Seq(T) /\ Len(Tail(q)) = n - 1 /\ \A k \in 1..n-1 : Tail(q)[k] = q[k + 1]
  BY <1>2, <1>4, HeadTailProperties
<1>7. \A k \in 1..n-1 : r[k] = Tail(q)[k]
  <2> SUFFICES ASSUME NEW k \in 1..n-1 PROVE r[k] = Tail(q)[k]
    OBVIOUS
  <2>1. PICK x \in Nat, y \in Nat : x = h + 1 /\ y = k - 1
    OBVIOUS
  <2>2. Slot(Slot(x, N) + y, N) = Slot(x + y, N)
    BY <2>1, SlotAdd
  <2>3. next + k - 1 = next + y /\ x + y = h + (k + 1) - 1
    BY <1>1, <2>1
  <2>4. Slot(next + k - 1, N) = Slot(h + (k + 1) - 1, N)
    BY <2>1, <2>2, <2>3 DEF next
  <2>5. k + 1 \in 1..n
    OBVIOUS
  <2> QED
    BY <1>2, <1>3, <1>6, <2>4, <2>5
<1>8. r = Tail(q)
  BY <1>3, <1>6, <1>7, SeqEqual
<1> QED
  BY <1>4, <1>5, <1>8 DEF q, next, r

-----------------------------------------------------------------------------
(* Sequences of sequences, one behind the other (FlattenSeq). *)

\* f is the function that FlattenSeq defines by recursion.
Flattening(f, ss) ==
    f = [i \in 1..Len(ss) |-> IF i = 1 THEN ss[i] ELSE f[i - 1] \o ss[i]]

LEMMA FlattenIs ==
    ASSUME NEW ss, Len(ss) # 0
    PROVE  FlattenSeq(ss) = (CHOOSE f : Flattening(f, ss))[Len(ss)]
BY DEF FlattenSeq, Flattening

LEMMA FlatteningExists ==
    ASSUME NEW ss, Len(ss) \in Nat
    PROVE  \E f : Flattening(f, ss)
<1> DEFINE Step(x, i) == IF i = 1 THEN ss[i] ELSE x \o ss[i]
           UpTo(n, g) == \A i \in 1..n : g[i] = Step(g[i - 1], i)
           A == {n \in Nat : \E g : UpTo(n, g)}
<1>1. 0 \in A
  <2> HIDE DEF Step
  <2>1. 1..0 = {}
    OBVIOUS
  <2>2. UpTo(0, <<>>)
    BY <2>1
  <2> HIDE DEF UpTo
  <2> QED BY <2>2
<1>2. ASSUME NEW n \in Nat, n \in A PROVE n + 1 \in A
  <2>1. PICK g : UpTo(n, g)
    BY <1>2
  <2> DEFINE h == [i \in 0..n + 1 |-> IF i = n + 1 THEN Step(g[n], n + 1) ELSE g[i]]
  <2> HIDE DEF Step
  <2>2. ASSUME NEW i \in 1..n + 1 PROVE h[i] = Step(h[i - 1], i)
    <3>1. i \in 0..n + 1 /\ i - 1 \in 0..n + 1 /\ i - 1 # n + 1
      OBVIOUS
    <3>2. CASE i = n + 1
      <4>1. h[i] = Step(g[n], n + 1) /\ i - 1 = n /\ h[n] = g[n]
        BY <3>1, <3>2
      <4> QED BY <3>2, <4>1
    <3>3. CASE i # n + 1
      <4>1. i \in 1..n
        BY <3>3
      <4>2. h[i] = g[i] /\ h[i - 1] = g[i - 1]
        BY <3>1, <3>3
      <4> QED BY <2>1, <4>1, <4>2
    <3> QED BY <3>2, <3>3
  <2> HIDE DEF h
  <2>3. UpTo(n + 1, h)
    BY <2>2
  <2> QED BY <2>3
<1> HIDE DEF A
<1>3. Len(ss) \in A
  BY <1>1, <1>2, Induct
<1>4. PICK g : UpTo(Len(ss), g)
  BY <1>3 DEF A
<1> DEFINE f == [i \in 1..Len(ss) |-> g[i]]
<1>5. ASSUME NEW i \in 1..Len(ss)
      PROVE  g[i] = IF i = 1 THEN ss[i] ELSE f[i - 1] \o ss[i]
  <2>1. CASE i = 1
    BY <1>4, <2>1
  <2>2. CASE i # 1
    <3>1. i - 1 \in 1..Len(ss)
      BY <2>2
    <3>2. f[i - 1] = g[i - 1]
      BY <3>1
    <3> QED BY <1>4, <2>2, <3>2
  <2> QED BY <2>1, <2>2
<1>6. Flattening(f, ss)
  BY <1>5 DEF Flattening
<1> QED BY <1>6

\* Its values, one by one.
LEMMA FlattenSteps ==
    ASSUME NEW ss, Len(ss) \in Nat, Len(ss) # 0
    PROVE  \E f : /\ FlattenSeq(ss) = f[Len(ss)] /\ f[1] = ss[1]
                  /\ \A i \in Nat : i # 0 /\ i + 1 <= Len(ss) => f[i + 1] = f[i] \o ss[i + 1]
<1>1. PICK f : f = (CHOOSE g : Flattening(g, ss))
  OBVIOUS
<1>2. Flattening(f, ss)
  BY <1>1, FlatteningExists
<1>3. FlattenSeq(ss) = f[Len(ss)]
  BY <1>1, FlattenIs
<1>4. f[1] = ss[1]
  <2>1. 1 \in 1..Len(ss)
    OBVIOUS
  <2> QED BY <1>2, <2>1 DEF Flattening
<1>5. ASSUME NEW i \in Nat, i # 0, i + 1 <= Len(ss) PROVE f[i + 1] = f[i] \o ss[i + 1]
  <2>1. i + 1 \in 1..Len(ss) /\ i + 1 # 1 /\ (i + 1) - 1 = i
    BY <1>5
  <2>2. f[i + 1] = f[(i + 1) - 1] \o ss[i + 1]
    BY <1>2, <2>1 DEF Flattening
  <2> QED BY <2>1, <2>2
<1> QED BY <1>3, <1>4, <1>5

LEMMA FlattenEmpty == FlattenSeq(<<>>) = <<>>
BY EmptySeq DEF FlattenSeq

LEMMA FlattenOne ==
    ASSUME NEW S, NEW s \in Seq(S)
    PROVE  FlattenSeq(<<s>>) = s
<1>1. PICK ss : ss = <<s>>
  OBVIOUS
<1>2. Len(ss) = 1 /\ ss[1] = s
  BY <1>1
<1>3. Len(ss) \in Nat /\ Len(ss) # 0
  BY <1>2
<1>4. PICK f : /\ FlattenSeq(ss) = f[Len(ss)] /\ f[1] = ss[1]
               /\ \A i \in Nat : i # 0 /\ i + 1 <= Len(ss) => f[i + 1] = f[i] \o ss[i + 1]
  BY <1>3, FlattenSteps
<1> QED BY <1>1, <1>2, <1>4

\* The type, and one more sequence.
LEMMA FlattenType ==
    ASSUME NEW S, NEW ss \in Seq(Seq(S))
    PROVE  FlattenSeq(ss) \in Seq(S)
<1>1. Len(ss) \in Nat /\ \A i \in 1..Len(ss) : ss[i] \in Seq(S)
  BY LenProperties, ElementOfSeq
<1>2. CASE Len(ss) = 0
  <2>1. ss = <<>>
    BY <1>2, EmptySeq
  <2> QED BY <2>1, FlattenEmpty, EmptySeq
<1>3. CASE Len(ss) # 0
  <2>1. PICK f : /\ FlattenSeq(ss) = f[Len(ss)] /\ f[1] = ss[1]
                 /\ \A i \in Nat : i # 0 /\ i + 1 <= Len(ss) => f[i + 1] = f[i] \o ss[i + 1]
    BY <1>1, <1>3, FlattenSteps
  <2> DEFINE A == {n \in Nat : n # 0 /\ n <= Len(ss) => f[n] \in Seq(S)}
  <2>2. 0 \in A
    OBVIOUS
  <2>3. ASSUME NEW n \in Nat, n \in A PROVE n + 1 \in A
    <3>1. CASE n = 0
      <4>1. f[1] \in Seq(S)
        BY <1>1, <1>3, <2>1
      <4> QED BY <3>1, <4>1
    <3>2. CASE n # 0
      <4> SUFFICES ASSUME n + 1 <= Len(ss) PROVE f[n + 1] \in Seq(S)
        OBVIOUS
      <4>1. f[n] \in Seq(S)
        BY <1>1, <2>3, <3>2
      <4>2. n + 1 \in 1..Len(ss)
        BY <1>1
      <4>3. ss[n + 1] \in Seq(S)
        BY <1>1, <4>2
      <4>4. f[n + 1] = f[n] \o ss[n + 1]
        BY <2>1, <3>2
      <4> QED BY <4>1, <4>3, <4>4, ConcatProperties
    <3> QED BY <3>1, <3>2
  <2> HIDE DEF A
  <2>4. Len(ss) \in A
    BY <1>1, <2>2, <2>3, Induct
  <2> QED BY <1>3, <2>1, <2>4 DEF A
<1> QED BY <1>2, <1>3

LEMMA FlattenAppend ==
    ASSUME NEW S, NEW ss \in Seq(Seq(S)), NEW s \in Seq(S)
    PROVE  FlattenSeq(Append(ss, s)) = FlattenSeq(ss) \o s
<1>1. PICK tt \in Seq(Seq(S)) : tt = Append(ss, s)
  BY AppendProperties
<1>2. /\ Len(ss) \in Nat /\ Len(tt) = Len(ss) + 1 /\ tt[Len(ss) + 1] = s
      /\ \A i \in 1..Len(ss) : tt[i] = ss[i]
  BY <1>1, AppendProperties, LenProperties
<1>6. Len(tt) \in Nat /\ Len(tt) # 0
  BY <1>2
<1>3. PICK g : /\ FlattenSeq(tt) = g[Len(tt)] /\ g[1] = tt[1]
               /\ \A i \in Nat : i # 0 /\ i + 1 <= Len(tt) => g[i + 1] = g[i] \o tt[i + 1]
  BY <1>6, FlattenSteps
<1>4. CASE Len(ss) = 0
  <2>1. ss = <<>>
    BY <1>4, EmptySeq
  <2>2. FlattenSeq(ss) \o s = s
    BY <2>1, FlattenEmpty, ConcatEmptySeq
  <2>3. FlattenSeq(tt) = s
    BY <1>2, <1>3, <1>4
  <2> QED BY <1>1, <2>2, <2>3
<1>5. CASE Len(ss) # 0
  <2>1. PICK f : /\ FlattenSeq(ss) = f[Len(ss)] /\ f[1] = ss[1]
                 /\ \A i \in Nat : i # 0 /\ i + 1 <= Len(ss) => f[i + 1] = f[i] \o ss[i + 1]
    BY <1>2, <1>5, FlattenSteps
  <2> DEFINE A == {n \in Nat : n # 0 /\ n <= Len(ss) => f[n] = g[n]}
  <2>2. 0 \in A
    OBVIOUS
  <2>3. ASSUME NEW n \in Nat, n \in A PROVE n + 1 \in A
    <3>1. CASE n = 0
      <4>1. 1 \in 1..Len(ss)
        BY <1>2, <1>5
      <4>2. f[1] = g[1]
        BY <1>2, <1>3, <2>1, <4>1
      <4> QED BY <3>1, <4>2
    <3>2. CASE n # 0
      <4> SUFFICES ASSUME n + 1 <= Len(ss) PROVE f[n + 1] = g[n + 1]
        OBVIOUS
      <4>1. f[n] = g[n]
        BY <1>2, <2>3, <3>2
      <4>2. n + 1 \in 1..Len(ss) /\ n + 1 <= Len(tt)
        BY <1>2
      <4>3. ss[n + 1] = tt[n + 1]
        BY <1>2, <4>2
      <4>4. f[n + 1] = f[n] \o ss[n + 1] /\ g[n + 1] = g[n] \o tt[n + 1]
        BY <1>3, <2>1, <3>2, <4>2
      <4> QED BY <4>1, <4>3, <4>4
    <3> QED BY <3>1, <3>2
  <2> HIDE DEF A
  <2>4. Len(ss) \in A
    BY <1>2, <2>2, <2>3, Induct
  <2>5. f[Len(ss)] = g[Len(ss)]
    BY <1>5, <2>4 DEF A
  <2>6. g[Len(ss) + 1] = g[Len(ss)] \o tt[Len(ss) + 1]
    <3>1. PICK n \in Nat : n = Len(ss) /\ n # 0 /\ n + 1 <= Len(tt)
      BY <1>2, <1>5
    <3> QED BY <1>3, <3>1
  <2> QED BY <1>1, <1>2, <1>3, <2>1, <2>5, <2>6
<1> QED BY <1>4, <1>5

\* Two sequences of sequences, one behind the other.
LEMMA FlattenConcat ==
    ASSUME NEW S, NEW ss \in Seq(Seq(S)), NEW tt \in Seq(Seq(S))
    PROVE  FlattenSeq(ss \o tt) = FlattenSeq(ss) \o FlattenSeq(tt)
<1> DEFINE Q == Seq(S)
<1>0. ss \in Seq(Q) /\ tt \in Seq(Q) /\ \A uu \in Seq(Q) : FlattenSeq(uu) \in Seq(S)
  BY FlattenType
<1>9. /\ \A uu \in Seq(Q), s \in Q : FlattenSeq(Append(uu, s)) = FlattenSeq(uu) \o s
      /\ \A s \in Q : s \o <<>> = s
      /\ \A s, t, u \in Q : (s \o t) \o u = s \o (t \o u)
  <2>1. \A uu \in Seq(Seq(S)), s \in Seq(S) : FlattenSeq(Append(uu, s)) = FlattenSeq(uu) \o s
    BY FlattenAppend
  <2>2. \A s \in Seq(S) : s \o <<>> = s
    BY ConcatEmptySeq
  <2>3. \A s, t, u \in Seq(S) : (s \o t) \o u = s \o (t \o u)
    BY ConcatAssociative
  <2> QED BY <2>1, <2>2, <2>3
<1> HIDE DEF Q
<1> DEFINE Good(uu) == FlattenSeq(ss \o uu) = FlattenSeq(ss) \o FlattenSeq(uu)
           A == {n \in Nat : \A uu \in Seq(Q) : Len(uu) = n => Good(uu)}
<1>1. Good(<<>>)
  BY <1>0, <1>9, FlattenEmpty, ConcatEmptySeq DEF Q
<1>2. 0 \in A
  <2>1. \A uu \in Seq(Q) : Len(uu) = 0 => uu = <<>>
    BY EmptySeq
  <2> HIDE DEF Good
  <2> QED BY <1>1, <2>1
<1>3. ASSUME NEW n \in Nat, n \in A PROVE n + 1 \in A
  <2> SUFFICES ASSUME NEW uu \in Seq(Q), Len(uu) = n + 1 PROVE Good(uu)
    OBVIOUS
  <2>1. PICK vv \in Seq(Q), s \in Q : uu = Append(vv, s)
    <3>1. uu # <<>>
      BY EmptySeq
    <3> QED BY <3>1, SequenceEmptyOrAppend
  <2>2. Len(vv) = n
    BY <2>1, AppendProperties, LenProperties
  <2>3. Good(vv)
    BY <1>3, <2>2
  <2>4. ss \o vv \in Seq(Q)
    BY <1>0, ConcatProperties
  <2>5. ss \o uu = Append(ss \o vv, s)
    <3>1. Append(vv, s) = vv \o <<s>> /\ Append(ss \o vv, s) = (ss \o vv) \o <<s>>
      BY <2>4, AppendIsConcat
    <3>2. <<s>> = Append(<<>>, s) /\ Append(<<>>, s) \in Seq(Q)
      BY AppendProperties, EmptySeq
    <3>3. PICK w \in Seq(Q) : w = <<s>>
      BY <3>2
    <3>4. PICK x \in Seq(Q) : x = ss
      BY <1>0
    <3>5. (x \o vv) \o w = x \o (vv \o w)
      BY ConcatAssociative
    <3> QED BY <2>1, <3>1, <3>3, <3>4, <3>5
  <2>6. FlattenSeq(ss \o uu) = FlattenSeq(ss \o vv) \o s
    <3>1. PICK w \in Seq(Q) : w = ss \o vv
      BY <2>4
    <3>2. FlattenSeq(Append(w, s)) = FlattenSeq(w) \o s
      BY <1>9
    <3> QED BY <2>5, <3>1, <3>2
  <2>7. PICK x \in Q, y \in Q, z \in Q : /\ x = FlattenSeq(ss) /\ y = FlattenSeq(vv)
                                         /\ z = FlattenSeq(uu)
    BY <1>0 DEF Q
  <2>8. z = y \o s
    BY <1>9, <2>1, <2>7
  <2>9. (x \o y) \o s = x \o (y \o s)
    BY <1>9
  <2> QED BY <2>3, <2>6, <2>7, <2>8, <2>9
<1> HIDE DEF A
<1>4. Len(tt) \in A
  BY <1>0, <1>2, <1>3, Induct, LenProperties
<1> QED BY <1>0, <1>4 DEF A

\* The elements of s at the places in I.
Kept(s, I) == FlattenSeq([i \in DOMAIN s |-> IF i \in I THEN <<s[i]>> ELSE <<>>])

LEMMA OneSeq ==
    ASSUME NEW S, NEW x \in S
    PROVE  <<x>> \in Seq(S) /\ <<x>> = Append(<<>>, x)
<1>1. <<x>> = Append(<<>>, x) /\ Append(<<>>, x) \in Seq(S)
  BY AppendProperties, EmptySeq
<1> QED BY <1>1

LEMMA KeptAppend ==
    ASSUME NEW S, NEW s \in Seq(S), NEW x \in S, NEW I
    PROVE  Kept(Append(s, x), I) = Kept(s, I) \o (IF Len(s) + 1 \in I THEN <<x>> ELSE <<>>)
<1> DEFINE Q == Seq(S)
<1>1. PICK t \in Seq(S) : t = Append(s, x)
  BY AppendProperties
<1>2. /\ Len(s) \in Nat /\ DOMAIN s = 1..Len(s) /\ DOMAIN t = 1..Len(s) + 1
      /\ t[Len(s) + 1] = x /\ \A i \in 1..Len(s) : t[i] = s[i] /\ s[i] \in S
  BY <1>1, AppendProperties, LenProperties, ElementOfSeq
<1> DEFINE ss == [i \in DOMAIN s |-> IF i \in I THEN <<s[i]>> ELSE <<>>]
           tt == [i \in DOMAIN t |-> IF i \in I THEN <<t[i]>> ELSE <<>>]
           last == IF Len(s) + 1 \in I THEN <<x>> ELSE <<>>
<1>3. last \in Q /\ \A i \in 1..Len(s) : ss[i] \in Q
  BY <1>2, OneSeq, EmptySeq
<1>4. DOMAIN ss = 1..Len(s) /\ DOMAIN tt = 1..Len(s) + 1
  BY <1>2
<1>5. \A i \in 1..Len(s) : tt[i] = ss[i]
  BY <1>2
<1>6. tt[Len(s) + 1] = last
  <2>1. Len(s) + 1 \in DOMAIN t
    BY <1>2
  <2> QED BY <1>2, <2>1
<1>7. ss = [i \in 1..Len(s) |-> ss[i]] /\ tt = [i \in 1..Len(s) + 1 |-> tt[i]]
  BY <1>4
<1>10. Kept(s, I) = FlattenSeq(ss) /\ Kept(t, I) = FlattenSeq(tt)
  BY DEF Kept
<1> HIDE DEF ss, tt, last, Q
<1>11. ss \in Seq(Q) /\ Len(ss) = Len(s)
  BY <1>2, <1>3, <1>4, <1>7, SeqDef, LenProperties
<1>12. \A i \in 1..Len(s) + 1 : tt[i] \in Q
  BY <1>2, <1>3, <1>5, <1>6
<1>13. tt \in Seq(Q) /\ Len(tt) = Len(s) + 1
  <2>1. Len(s) + 1 \in Nat
    BY <1>2
  <2>2. tt \in [1..Len(s) + 1 -> Q]
    BY <1>7, <1>12
  <2>3. tt \in Seq(Q)
    BY <2>1, <2>2, SeqDef
  <2> QED BY <1>4, <2>1, <2>3, LenProperties
<1>14. /\ Append(ss, last) \in Seq(Q) /\ Len(Append(ss, last)) = Len(s) + 1
       /\ Append(ss, last)[Len(s) + 1] = last
       /\ \A i \in 1..Len(s) : Append(ss, last)[i] = ss[i]
  BY <1>3, <1>11, AppendProperties
<1>15. \A i \in 1..Len(s) + 1 : tt[i] = Append(ss, last)[i]
  BY <1>2, <1>5, <1>6, <1>14
<1>16. tt = Append(ss, last)
  BY <1>13, <1>14, <1>15, SeqEqual
<1>17. ss \in Seq(Seq(S)) /\ last \in Seq(S)
  BY <1>3, <1>11 DEF Q
<1>18. FlattenSeq(Append(ss, last)) = FlattenSeq(ss) \o last
  BY <1>17, FlattenAppend
<1> QED BY <1>1, <1>10, <1>16, <1>18 DEF last

\* How r keeps the elements of s at the places in I: in their order.
Embeds(r, s, I) ==
    \E e \in [1..Len(r) -> DOMAIN s] :
        /\ \A i, j \in 1..Len(r) : i < j => e[i] < e[j]
        /\ \A i \in 1..Len(r) : e[i] \in I /\ r[i] = s[e[i]]

LEMMA KeptEmbeds ==
    ASSUME NEW S, NEW s \in Seq(S), NEW I
    PROVE  Kept(s, I) \in Seq(S) /\ Embeds(Kept(s, I), s, I)
<1> DEFINE Good(t) == Kept(t, I) \in Seq(S) /\ Embeds(Kept(t, I), t, I)
           A == {n \in Nat : \A t \in Seq(S) : Len(t) = n => Good(t)}
<1>1. 0 \in A
  <2> SUFFICES ASSUME NEW t \in Seq(S), Len(t) = 0 PROVE Good(t)
    OBVIOUS
  <2>1. t = <<>> /\ DOMAIN t = {}
    BY EmptySeq, LenProperties
  <2>2. PICK ss : ss = [i \in DOMAIN t |-> IF i \in I THEN <<t[i]>> ELSE <<>>]
    OBVIOUS
  <2>3. ss = <<>>
    BY <2>1, <2>2, EmptySeq
  <2>4. Kept(t, I) = <<>>
    BY <2>2, <2>3, FlattenEmpty DEF Kept
  <2>5. Len(<<>>) = 0 /\ <<>> \in Seq(S) /\ 1..0 = {}
    BY EmptySeq
  <2>6. [i \in {} |-> i] \in [{} -> DOMAIN t]
    OBVIOUS
  <2>7. Embeds(<<>>, t, I)
    BY <2>5, <2>6 DEF Embeds
  <2> QED BY <2>4, <2>5, <2>7
<1>2. ASSUME NEW n \in Nat, n \in A PROVE n + 1 \in A
  <2> SUFFICES ASSUME NEW t \in Seq(S), Len(t) = n + 1 PROVE Good(t)
    OBVIOUS
  <2>1. PICK u \in Seq(S), x \in S : t = Append(u, x)
    <3>1. t # <<>>
      BY EmptySeq
    <3> QED BY <3>1, SequenceEmptyOrAppend
  <2>2. /\ Len(u) = n /\ DOMAIN u = 1..n /\ DOMAIN t = 1..n + 1
        /\ t[n + 1] = x /\ \A i \in 1..n : t[i] = u[i]
    BY <2>1, AppendProperties, LenProperties
  <2>3. Kept(u, I) \in Seq(S) /\ Embeds(Kept(u, I), u, I)
    BY <1>2, <2>2
  <2>4. PICK r \in Seq(S) : r = Kept(u, I)
    BY <2>3
  <2>5. PICK m \in Nat : m = Len(r)
    BY LenProperties
  <2>6. PICK e \in [1..m -> 1..n] :
            /\ \A i, j \in 1..m : i < j => e[i] < e[j]
            /\ \A i \in 1..m : e[i] \in I /\ r[i] = u[e[i]]
    BY <2>2, <2>3, <2>4, <2>5 DEF Embeds
  <2>7. Kept(t, I) = r \o (IF n + 1 \in I THEN <<x>> ELSE <<>>)
    BY <2>1, <2>2, <2>4, KeptAppend
  <2>8. CASE n + 1 \in I
    <3>1. Kept(t, I) = Append(r, x)
      BY <2>7, <2>8, AppendIsConcat
    <3>2. PICK q \in Seq(S) : q = Append(r, x)
      BY AppendProperties
    <3>3. /\ Len(q) = m + 1 /\ q[m + 1] = x
          /\ \A i \in 1..m : q[i] = r[i]
      BY <2>5, <3>2, AppendProperties
    <3> DEFINE g == [i \in 1..m + 1 |-> IF i = m + 1 THEN n + 1 ELSE e[i]]
    <3>4. g[m + 1] = n + 1 /\ \A i \in 1..m : g[i] = e[i]
      OBVIOUS
    <3>5. \A i \in 1..m + 1 : i = m + 1 \/ i \in 1..m
      OBVIOUS
    <3>6. \A i \in 1..m : e[i] \in 1..n /\ e[i] < n + 1 /\ e[i] \in 1..n + 1
      OBVIOUS
    <3>7. g \in [1..m + 1 -> 1..n + 1]
      BY <3>5, <3>6
    <3> HIDE DEF g
    <3>8. \A i, j \in 1..m + 1 : i < j => g[i] < g[j]
      <4> SUFFICES ASSUME NEW i \in 1..m + 1, NEW j \in 1..m + 1, i < j PROVE g[i] < g[j]
        OBVIOUS
      <4>1. i \in 1..m
        OBVIOUS
      <4>2. CASE j = m + 1
        BY <3>4, <3>6, <4>1, <4>2
      <4>3. CASE j \in 1..m
        BY <2>6, <3>4, <4>1, <4>3
      <4> QED BY <3>5, <4>2, <4>3
    <3>9. \A i \in 1..m + 1 : g[i] \in I /\ q[i] = t[g[i]]
      <4> SUFFICES ASSUME NEW i \in 1..m + 1 PROVE g[i] \in I /\ q[i] = t[g[i]]
        OBVIOUS
      <4>1. CASE i = m + 1
        BY <2>2, <2>8, <3>3, <3>4, <4>1
      <4>2. CASE i \in 1..m
        BY <2>2, <2>6, <3>3, <3>4, <3>6, <4>2
      <4> QED BY <3>5, <4>1, <4>2
    <3>10. Embeds(q, t, I)
      BY <2>2, <3>3, <3>7, <3>8, <3>9 DEF Embeds
    <3> QED BY <3>1, <3>2, <3>10
  <2>9. CASE n + 1 \notin I
    <3>1. Kept(t, I) = r
      BY <2>7, <2>9, ConcatEmptySeq
    <3>2. e \in [1..m -> 1..n + 1]
      OBVIOUS
    <3>3. \A i \in 1..m : e[i] \in I /\ r[i] = t[e[i]]
      BY <2>2, <2>6
    <3>4. Embeds(r, t, I)
      BY <2>2, <2>5, <2>6, <3>2, <3>3 DEF Embeds
    <3> QED BY <3>1, <3>4
  <2> QED BY <2>8, <2>9
<1> HIDE DEF A
<1>3. Len(s) \in A
  BY <1>1, <1>2, Induct, LenProperties
<1> QED BY <1>3 DEF A
\* n of the sequences of p, the first of them the one behind the first d.
Behind(p, d, n) == FlattenSeq([i \in 1..n |-> p[d + i]])
AllBehind(p, d) == Behind(p, d, Len(p) - d)
Section(p, d, n) == [i \in 1..n |-> p[d + i]]

LEMMA SectionType ==
    ASSUME NEW Q, NEW p \in Seq(Q), NEW d \in Nat, NEW n \in Nat, d + n <= Len(p)
    PROVE  /\ Section(p, d, n) \in Seq(Q) /\ Len(Section(p, d, n)) = n
           /\ \A i \in 1..n : Section(p, d, n)[i] = p[d + i]
<1>1. PICK s : s = Section(p, d, n)
  OBVIOUS
<1>2. \A i \in 1..n : d + i \in 1..Len(p)
  BY LenProperties
<1>3. \A i \in 1..n : p[d + i] \in Q
  BY <1>2, ElementOfSeq
<1>4. s \in [1..n -> Q] /\ DOMAIN s = 1..n /\ \A i \in 1..n : s[i] = p[d + i]
  BY <1>1, <1>3 DEF Section
<1>5. s \in Seq(Q)
  BY <1>4, SeqDef
<1>6. Len(s) = n
  BY <1>4, <1>5, LenProperties
<1> QED BY <1>1, <1>4, <1>5, <1>6

LEMMA BehindType ==
    ASSUME NEW S, NEW p \in Seq(Seq(S)), NEW d \in Nat, NEW n \in Nat, d + n <= Len(p)
    PROVE  Behind(p, d, n) \in Seq(S)
<1> DEFINE Q == Seq(S)
<1>1. p \in Seq(Q)
  OBVIOUS
<1> HIDE DEF Q
<1>2. PICK ss \in Seq(Q) : ss = Section(p, d, n)
  BY <1>1, SectionType
<1>3. Behind(p, d, n) = FlattenSeq(ss)
  BY <1>2 DEF Behind, Section
<1>4. ss \in Seq(Seq(S))
  BY DEF Q
<1> QED BY <1>3, <1>4, FlattenType

LEMMA BehindSplit ==
    ASSUME NEW S, NEW p \in Seq(Seq(S)), NEW d \in Nat, NEW m \in Nat, NEW n \in Nat,
           d + m + n <= Len(p)
    PROVE  Behind(p, d, m + n) = Behind(p, d, m) \o Behind(p, d + m, n)
<1> DEFINE Q == Seq(S)
<1>13. p \in Seq(Q)
  OBVIOUS
<1> HIDE DEF Q
<1>14. d + m <= Len(p)
  <2>1. Len(p) \in Nat
    BY LenProperties
  <2> QED BY <2>1
<1>15. /\ Section(p, d, m) \in Seq(Q) /\ Len(Section(p, d, m)) = m
       /\ \A i \in 1..m : Section(p, d, m)[i] = p[d + i]
  BY <1>14, <1>13, SectionType
<1>1. PICK e \in Nat, l \in Nat : /\ e = d + m /\ l = m + n
                                  /\ d + m <= Len(p) /\ e + n <= Len(p) /\ d + l <= Len(p)
  BY LenProperties
<1>2. PICK ss \in Seq(Q) : /\ ss = Section(p, d, m) /\ Len(ss) = m
                           /\ \A i \in 1..m : ss[i] = p[d + i]
  BY <1>15
<1>3. PICK tt \in Seq(Q) : /\ tt = Section(p, e, n) /\ Len(tt) = n
                           /\ \A i \in 1..n : tt[i] = p[e + i]
  BY <1>1, <1>13, SectionType
<1>4. PICK uu \in Seq(Q) : /\ uu = Section(p, d, l) /\ Len(uu) = l
                           /\ \A i \in 1..l : uu[i] = p[d + i]
  BY <1>1, <1>13, SectionType
<1>9. Len(ss) + Len(tt) = l
  BY <1>1, <1>2, <1>3
<1>10. /\ ss \o tt \in Seq(Q) /\ Len(ss \o tt) = Len(ss) + Len(tt)
       /\ \A i \in 1..Len(ss) + Len(tt) :
             (ss \o tt)[i] = IF i <= Len(ss) THEN ss[i] ELSE tt[i - Len(ss)]
  BY ConcatProperties
<1>11. PICK vv \in Seq(Q) : vv = ss \o tt
  BY <1>10
<1>12. Len(vv) = l
  BY <1>9, <1>10, <1>11
<1>5. \A i \in 1..l : vv[i] = IF i <= m THEN ss[i] ELSE tt[i - m]
  BY <1>2, <1>9, <1>10, <1>11
<1>6. ASSUME NEW i \in 1..l PROVE uu[i] = vv[i]
  <2>1. CASE i <= m
    <3>1. i \in 1..m
      BY <2>1
    <3>2. vv[i] = ss[i]
      BY <1>5, <2>1
    <3>3. ss[i] = p[d + i]
      BY <1>2, <3>1
    <3> QED BY <1>4, <3>2, <3>3
  <2>2. CASE ~(i <= m)
    <3>1. i - m \in 1..n /\ e + (i - m) = d + i
      BY <1>1, <2>2
    <3>2. vv[i] = tt[i - m]
      BY <1>5, <2>2
    <3>3. tt[i - m] = p[e + (i - m)]
      BY <1>3, <3>1
    <3>4. tt[i - m] = p[d + i]
      BY <3>1, <3>3
    <3> QED BY <1>4, <3>2, <3>4
  <2> QED BY <2>1, <2>2
<1>7. uu = vv
  BY <1>4, <1>12, <1>6, SeqEqual
<1>8. FlattenSeq(uu) = FlattenSeq(ss) \o FlattenSeq(tt)
  <2>1. ss \in Seq(Seq(S)) /\ tt \in Seq(Seq(S))
    BY DEF Q
  <2> QED BY <1>11, <1>7, <2>1, FlattenConcat
<1> QED BY <1>1, <1>2, <1>3, <1>4, <1>8 DEF Behind, Section

LEMMA BehindNone == \A p, d : Behind(p, d, 0) = <<>>
<1> SUFFICES ASSUME NEW p, NEW d PROVE Behind(p, d, 0) = <<>>
  OBVIOUS
<1>1. PICK ss : ss = [i \in 1..0 |-> p[d + i]]
  OBVIOUS
<1>2. ss = <<>>
  BY <1>1
<1> QED BY <1>1, <1>2, FlattenEmpty DEF Behind

LEMMA BehindOne ==
    ASSUME NEW S, NEW p \in Seq(Seq(S)), NEW d \in Nat, d + 1 <= Len(p)
    PROVE  Behind(p, d, 1) = p[d + 1]
<1>1. d + 1 \in Nat /\ d + 1 \in 1..Len(p)
  BY LenProperties
<1>2. PICK s \in Seq(S) : s = p[d + 1]
  BY <1>1, ElementOfSeq
<1>3. PICK ss : ss = [i \in 1..1 |-> p[d + i]]
  OBVIOUS
<1>4. PICK tt : tt = <<s>>
  OBVIOUS
<1>5. ss = tt
  <2>1. DOMAIN ss = 1..1 /\ ss[1] = s /\ ss = [i \in 1..1 |-> ss[i]]
    BY <1>2, <1>3
  <2>2. 1..1 = {1}
    OBVIOUS
  <2> QED BY <1>4, <2>1, <2>2
<1>6. FlattenSeq(tt) = s
  BY <1>4, FlattenOne
<1> QED BY <1>2, <1>3, <1>5, <1>6 DEF Behind

\* Another sequence at the end changes nothing before it.
LEMMA BehindOld ==
    ASSUME NEW S, NEW p \in Seq(Seq(S)), NEW s \in Seq(S), NEW d \in Nat, NEW n \in Nat,
           d + n <= Len(p)
    PROVE  Behind(Append(p, s), d, n) = Behind(p, d, n)
<1> DEFINE Q == Seq(S)
<1>0. p \in Seq(Q) /\ s \in Q
  OBVIOUS
<1> HIDE DEF Q
<1>1. PICK more : more = Append(p, s)
  OBVIOUS
<1>2. \A i \in 1..n : d + i \in 1..Len(p)
  BY LenProperties
<1>3. \A i \in 1..n : more[d + i] = p[d + i]
  BY <1>0, <1>1, <1>2, AppendProperties
<1>4. Section(more, d, n) = Section(p, d, n)
  BY <1>3 DEF Section
<1> QED BY <1>1, <1>4 DEF Behind, Section

LEMMA AllBehindType ==
    ASSUME NEW S, NEW p \in Seq(Seq(S)), NEW d \in Nat, d <= Len(p)
    PROVE  AllBehind(p, d) \in Seq(S)
<1>1. Len(p) - d \in Nat /\ d + (Len(p) - d) <= Len(p)
  BY LenProperties
<1>2. PICK n \in Nat : n = Len(p) - d /\ d + n <= Len(p)
  BY <1>1
<1> QED BY <1>2, BehindType DEF AllBehind

LEMMA AllBehindSplit ==
    ASSUME NEW S, NEW p \in Seq(Seq(S)), NEW d \in Nat, NEW m \in Nat, d + m <= Len(p)
    PROVE  AllBehind(p, d) = Behind(p, d, m) \o AllBehind(p, d + m)
<1>0. PICK k \in Nat : k = Len(p)
  BY LenProperties
<1>3. d + m <= k
  BY <1>0
<1>4. k - (d + m) \in Nat
  BY <1>3
<1>1. PICK n \in Nat : n = Len(p) - (d + m)
  BY <1>0, <1>4
<1>5. d + m + n <= Len(p) /\ m + n = Len(p) - d
  BY <1>0, <1>1
<1>2. Behind(p, d, m + n) = Behind(p, d, m) \o Behind(p, d + m, n)
  BY <1>5, BehindSplit
<1> QED BY <1>1, <1>2, <1>5 DEF AllBehind

LEMMA AllBehindAppend ==
    ASSUME NEW S, NEW p \in Seq(Seq(S)), NEW s \in Seq(S), NEW d \in Nat, d <= Len(p)
    PROVE  AllBehind(Append(p, s), d) = AllBehind(p, d) \o s
<1> DEFINE Q == Seq(S)
<1>10. p \in Seq(Q) /\ s \in Q
  OBVIOUS
<1> HIDE DEF Q
<1>0. PICK l \in Nat : l = Len(p)
  BY LenProperties
<1>9. l - d \in Nat /\ d + (l - d) = l
  BY <1>0
<1>1. PICK n \in Nat : n = l - d /\ d + n = l
  BY <1>9
<1>7. PICK more \in Seq(Q) : more = Append(p, s)
  BY <1>10, AppendProperties
<1>2. Len(more) = l + 1 /\ more[l + 1] = s
  BY <1>0, <1>7, <1>10, AppendProperties
<1>8. d + n <= Len(p) /\ l + 1 <= Len(more)
  BY <1>0, <1>1, <1>2
<1>11. more \in Seq(Seq(S))
  BY DEF Q
<1>3. Behind(more, d, n) = Behind(p, d, n)
  BY <1>7, <1>8, BehindOld
<1>4. Behind(more, l, 1) = s
  <2>1. Behind(more, l, 1) = more[l + 1]
    BY <1>8, <1>11, BehindOne
  <2> QED BY <1>2, <2>1
<1>5. Behind(more, d, n + 1) = Behind(more, d, n) \o Behind(more, d + n, 1)
  <2>1. d + n + 1 <= Len(more)
    BY <1>1, <1>8
  <2> QED BY <1>11, <2>1, BehindSplit
<1>6. Len(more) - d = n + 1 /\ Len(p) - d = n
  BY <1>0, <1>1, <1>2
<1> QED BY <1>1, <1>7, <1>3, <1>4, <1>5, <1>6 DEF AllBehind

-----------------------------------------------------------------------------
(* Parts of sequences. *)

LEMMA SplitSeq ==
    ASSUME NEW S, NEW s \in Seq(S), NEW n \in 0..Len(s)
    PROVE  /\ SubSeq(s, 1, n) \in Seq(S) /\ Len(SubSeq(s, 1, n)) = n
           /\ SubSeq(s, n + 1, Len(s)) \in Seq(S)
           /\ s = SubSeq(s, 1, n) \o SubSeq(s, n + 1, Len(s))
<1>1. Len(s) \in Nat /\ \A i \in 1..Len(s) : s[i] \in S
  BY LenProperties, ElementOfSeq
<1>2. PICK m \in Nat : m = Len(s)
  BY <1>1
<1>3. n \in Nat /\ n <= m
  BY <1>2
<1>4. /\ 1 \in Int /\ n \in Int /\ n + 1 \in Int /\ m \in Int
      /\ (IF 1 <= n THEN n - 1 + 1 ELSE 0) = n
      /\ \A i \in 1..n : i \in 1..m
      /\ \A i \in n + 1..m : i \in 1..m
  BY ONLY <1>3, <1>2
<1>5. SubSeq(s, 1, n) \in Seq(S) /\ Len(SubSeq(s, 1, n)) = n
  <2>1. \A i \in 1..n : s[i] \in S
    BY <1>1, <1>2, <1>4
  <2>2. Len(SubSeq(s, 1, n)) = IF 1 <= n THEN n - 1 + 1 ELSE 0
    BY <1>4, <2>1, SubSeqProperties
  <2>3. SubSeq(s, 1, n) \in Seq(S)
    BY <1>4, <2>1, SubSeqProperties
  <2> QED BY <1>4, <2>2, <2>3
<1>6. SubSeq(s, n + 1, m) \in Seq(S)
  <2>1. PICK l \in Int : l = n + 1
    BY <1>4
  <2>2. \A i \in l..m : s[i] \in S
    BY <1>1, <1>2, <1>4, <2>1
  <2>3. SubSeq(s, l, m) \in Seq(S)
    BY <1>4, <2>2, SubSeqProperties
  <2> QED BY <2>1, <2>3
<1>7. s = SubSeq(s, 1, n) \o SubSeq(s, n + 1, m)
  <2>1. 1 \in 1..Len(s) + 1 /\ n \in 1 - 1..Len(s) /\ m \in n..Len(s)
    BY <1>2, <1>3
  <2>2. SubSeq(s, 1, n) \o SubSeq(s, n + 1, m) = SubSeq(s, 1, m)
    BY <2>1, ConcatAdjacentSubSeq
  <2> QED BY <1>2, <2>2, SubSeqFull
<1> QED BY <1>2, <1>5, <1>6, <1>7

\* Two splits of a sequence: what the longer first part has more.
Cut(S, a, r, b, t) ==
    LET c == SubSeq(b, Len(a) + 1, Len(b)) IN
    c \in Seq(S) /\ b = a \o c /\ r = c \o t

LEMMA Aligned ==
    ASSUME NEW S, NEW a \in Seq(S), NEW r \in Seq(S), NEW b \in Seq(S), NEW t \in Seq(S),
           a \o r = b \o t, Len(a) <= Len(b)
    PROVE  Cut(S, a, r, b, t)
<1>1. PICK n \in Nat : n = Len(a) /\ n \in 0..Len(b)
  BY LenProperties
<1>0. /\ SubSeq(b, 1, n) \in Seq(S) /\ Len(SubSeq(b, 1, n)) = n
      /\ SubSeq(b, n + 1, Len(b)) \in Seq(S)
      /\ b = SubSeq(b, 1, n) \o SubSeq(b, n + 1, Len(b))
  BY <1>1, SplitSeq
<1>2. PICK x \in Seq(S), c \in Seq(S) :
          x = SubSeq(b, 1, n) /\ Len(x) = n /\ c = SubSeq(b, n + 1, Len(b)) /\ b = x \o c
  BY <1>0
<1>9. (x \o c) \o t = x \o (c \o t)
  <2>1. x \in Seq(S) /\ c \in Seq(S) /\ t \in Seq(S)
    OBVIOUS
  <2> QED BY ONLY <2>1, ConcatAssociative
<1>3. b \o t = x \o (c \o t)
  BY <1>2, <1>9
<1>4. PICK v \in Seq(S) : v = c \o t
  BY ConcatProperties
<1>5. ASSUME NEW i \in 1..n PROVE a[i] = x[i]
  <2>1. /\ i \in 1..Len(a) + Len(r) /\ i <= Len(a)
        /\ i \in 1..Len(x) + Len(v) /\ i <= Len(x)
    BY <1>1, <1>2, LenProperties
  <2>2. (a \o r)[i] = a[i]
    BY <2>1, ConcatProperties
  <2>3. (x \o v)[i] = x[i]
    BY <2>1, ConcatProperties
  <2> QED BY <1>3, <1>4, <2>2, <2>3
<1>6. a = x
  BY <1>1, <1>2, <1>5, SeqEqual
<1>7. a \o r = a \o v
  BY <1>3, <1>4, <1>6
<1>8. r = v
  BY <1>7, ConcatSimplifications
<1> QED BY <1>1, <1>2, <1>4, <1>6, <1>8 DEF Cut

LEMMA PrefixIs ==
    ASSUME NEW S, NEW s \in Seq(S), NEW t \in Seq(S)
    PROVE  IsPrefix(s, t) <=> \E u \in Seq(S) : t = s \o u
<1>1. PICK m \in Nat, n \in Nat : m = Len(s) /\ n = Len(t)
  BY LenProperties
<1>2. SubSeq(s, 1, m) = s
  BY <1>1, SubSeqFull
<1>3. ASSUME IsPrefix(s, t) PROVE \E u \in Seq(S) : t = s \o u
  <2>1. m \in 0..Len(t) /\ s = SubSeq(t, 1, m)
    BY <1>1, <1>2, <1>3 DEF IsPrefix
  <2>2. /\ SubSeq(t, m + 1, Len(t)) \in Seq(S)
        /\ t = SubSeq(t, 1, m) \o SubSeq(t, m + 1, Len(t))
    BY <2>1, SplitSeq
  <2> QED BY <2>1, <2>2
<1>4. ASSUME NEW u \in Seq(S), t = s \o u PROVE IsPrefix(s, t)
  <2>1. Len(t) = Len(s) + Len(u) /\ Len(u) \in Nat
    BY <1>4, ConcatProperties, LenProperties
  <2>2. m <= n /\ m \in 0..Len(t)
    BY <1>1, <2>1
  <2>8. /\ SubSeq(t, 1, m) \in Seq(S) /\ Len(SubSeq(t, 1, m)) = m
        /\ SubSeq(t, m + 1, Len(t)) \in Seq(S)
        /\ t = SubSeq(t, 1, m) \o SubSeq(t, m + 1, Len(t))
    BY <2>2, SplitSeq
  <2>3. PICK x \in Seq(S), c \in Seq(S) : x = SubSeq(t, 1, m) /\ Len(x) = m /\ t = x \o c
    BY <2>8
  <2>4. Len(s) <= Len(x) /\ Len(x) = Len(s)
    BY <1>1, <2>3
  <2>9. s \o u = x \o c
    BY <1>4, <2>3
  <2>5. x = s \o SubSeq(x, Len(s) + 1, Len(x))
    BY <2>4, <2>9, Aligned DEF Cut
  <2>6. SubSeq(x, Len(s) + 1, Len(x)) = <<>>
    <3>1. PICK l \in Int : l = Len(s) + 1 /\ Len(x) < l /\ Len(x) \in Int
      BY <1>1, <2>4
    <3> QED BY <3>1, SubSeqEmpty
  <2>7. x = s
    BY <2>5, <2>6, ConcatEmptySeq
  <2> QED BY <1>1, <1>2, <2>2, <2>3, <2>7 DEF IsPrefix
<1> QED BY <1>3, <1>4

-----------------------------------------------------------------------------
(* Folds (FoldLeft), for an operator given as a function Op on pairs. *)

\* h gives the values of the fold, element by element.
Folding(h, Op, base, seq) ==
    h[0] = base /\ \A n \in 1..Len(seq) : h[n] = Op[<<h[n - 1], seq[n]>>]

FoldOf(Op, base, seq) == (CHOOSE h : Folding(h, Op, base, seq))[Len(seq)]

LEMMA FoldingExists ==
    ASSUME NEW Op, NEW base, NEW seq, Len(seq) \in Nat
    PROVE  \E h : Folding(h, Op, base, seq)
<1> DEFINE UpTo(n, g) == g[0] = base /\ \A i \in 1..n : g[i] = Op[<<g[i - 1], seq[i]>>]
           A == {n \in Nat : \E g : UpTo(n, g)}
<1>1. 0 \in A
  <2> DEFINE g == [i \in {0} |-> base]
  <2>1. g[0] = base /\ 1..0 = {}
    OBVIOUS
  <2> HIDE DEF g
  <2>2. UpTo(0, g)
    BY <2>1
  <2> HIDE DEF UpTo
  <2> QED BY <2>2
<1>2. ASSUME NEW n \in Nat, n \in A PROVE n + 1 \in A
  <2>1. PICK g : UpTo(n, g)
    BY <1>2
  <2> DEFINE h == [i \in 0..n + 1 |-> IF i = n + 1 THEN Op[<<g[n], seq[n + 1]>>] ELSE g[i]]
  <2>2. ASSUME NEW i \in 1..n + 1 PROVE h[i] = Op[<<h[i - 1], seq[i]>>]
    <3>1. i \in 0..n + 1 /\ i - 1 \in 0..n + 1 /\ i - 1 # n + 1
      OBVIOUS
    <3>2. CASE i = n + 1
      <4>1. h[i] = Op[<<g[n], seq[n + 1]>>] /\ i - 1 = n /\ h[n] = g[n]
        BY <3>1, <3>2
      <4> QED BY <3>2, <4>1
    <3>3. CASE i # n + 1
      <4>1. i \in 1..n
        BY <3>3
      <4>2. h[i] = g[i] /\ h[i - 1] = g[i - 1]
        BY <3>1, <3>3
      <4> QED BY <2>1, <4>1, <4>2
    <3> QED BY <3>2, <3>3
  <2>3. h[0] = base
    <3>1. 0 \in 0..n + 1 /\ 0 # n + 1
      OBVIOUS
    <3> QED BY <2>1, <3>1
  <2> HIDE DEF h
  <2>4. UpTo(n + 1, h)
    BY <2>2, <2>3
  <2> QED BY <2>4
<1> HIDE DEF A
<1>3. Len(seq) \in A
  BY <1>1, <1>2, Induct
<1>4. PICK g : UpTo(Len(seq), g)
  BY <1>3 DEF A
<1> QED BY <1>4 DEF Folding

\* The values are determined by the elements so far.
LEMMA FoldingUnique ==
    ASSUME NEW Op, NEW base, NEW s, NEW t, NEW h, NEW k, NEW m \in Nat,
           Folding(h, Op, base, s), Folding(k, Op, base, t),
           Len(s) \in Nat, Len(t) \in Nat, m <= Len(s), m <= Len(t),
           \A i \in 1..m : s[i] = t[i]
    PROVE  h[m] = k[m]
<1> DEFINE A == {n \in Nat : n <= m => h[n] = k[n]}
<1>1. 0 \in A
  BY DEF Folding
<1>2. ASSUME NEW n \in Nat, n \in A PROVE n + 1 \in A
  <2> SUFFICES ASSUME n + 1 <= m PROVE h[n + 1] = k[n + 1]
    OBVIOUS
  <2>1. n + 1 \in 1..m /\ n + 1 \in 1..Len(s) /\ n + 1 \in 1..Len(t) /\ (n + 1) - 1 = n /\ n <= m
    OBVIOUS
  <2>2. h[n] = k[n] /\ s[n + 1] = t[n + 1]
    BY <1>2, <2>1
  <2>3. h[n + 1] = Op[<<h[(n + 1) - 1], s[n + 1]>>] /\ k[n + 1] = Op[<<k[(n + 1) - 1], t[n + 1]>>]
    BY <2>1 DEF Folding
  <2> QED BY <2>1, <2>2, <2>3
<1> HIDE DEF A
<1>3. m \in A
  BY <1>1, <1>2, Induct
<1> QED BY <1>3 DEF A

\* So any function that gives the values says what the fold is.
LEMMA FoldIs ==
    ASSUME NEW Op, NEW base, NEW seq, Len(seq) \in Nat, NEW h, Folding(h, Op, base, seq)
    PROVE  FoldOf(Op, base, seq) = h[Len(seq)]
<1>1. PICK k : k = CHOOSE g : Folding(g, Op, base, seq)
  OBVIOUS
<1>2. Folding(k, Op, base, seq)
  BY <1>1
<1>3. k[Len(seq)] = h[Len(seq)]
  BY <1>2, FoldingUnique
<1> QED BY <1>1, <1>3 DEF FoldOf

LEMMA FoldEmpty ==
    ASSUME NEW Op, NEW base
    PROVE  FoldOf(Op, base, <<>>) = base
<1>1. PICK s : s = <<>>
  OBVIOUS
<1>2. Len(s) = 0 /\ Len(s) \in Nat
  BY <1>1
<1>3. PICK h : Folding(h, Op, base, s)
  BY <1>2, FoldingExists
<1>4. FoldOf(Op, base, s) = h[Len(s)]
  BY <1>2, <1>3, FoldIs
<1> QED BY <1>1, <1>2, <1>3, <1>4 DEF Folding

LEMMA FoldAppend ==
    ASSUME NEW Op, NEW base, NEW E, NEW s \in Seq(E), NEW x \in E
    PROVE  FoldOf(Op, base, Append(s, x)) = Op[<<FoldOf(Op, base, s), x>>]
<1>1. PICK t \in Seq(E) : t = Append(s, x)
  BY AppendProperties
<1>2. /\ Len(s) \in Nat /\ Len(t) = Len(s) + 1 /\ t[Len(s) + 1] = x
      /\ \A i \in 1..Len(s) : t[i] = s[i]
  BY <1>1, AppendProperties, LenProperties
<1>3. Len(t) \in Nat
  BY <1>2
<1>4. PICK h : Folding(h, Op, base, t)
  BY <1>3, FoldingExists
<1>5. Folding(h, Op, base, s)
  <2>1. \A n \in 1..Len(s) : n \in 1..Len(t) /\ t[n] = s[n]
    BY <1>2
  <2> QED BY <1>4, <2>1 DEF Folding
<1>6. FoldOf(Op, base, t) = h[Len(s) + 1] /\ FoldOf(Op, base, s) = h[Len(s)]
  BY <1>2, <1>3, <1>4, <1>5, FoldIs
<1>7. h[Len(s) + 1] = Op[<<h[Len(s)], x>>]
  <2>1. Len(s) + 1 \in 1..Len(t) /\ (Len(s) + 1) - 1 = Len(s)
    BY <1>2
  <2>2. h[Len(s) + 1] = Op[<<h[(Len(s) + 1) - 1], t[Len(s) + 1]>>]
    BY <1>4, <2>1 DEF Folding
  <2> QED BY <1>2, <2>1, <2>2
<1> QED BY <1>1, <1>6, <1>7

LEMMA FoldType ==
    ASSUME NEW S, NEW E, NEW Op \in [S \X E -> S], NEW base \in S, NEW seq \in Seq(E)
    PROVE  FoldOf(Op, base, seq) \in S
<1>1. Len(seq) \in Nat /\ \A i \in 1..Len(seq) : seq[i] \in E
  BY LenProperties, ElementOfSeq
<1>2. PICK h : Folding(h, Op, base, seq)
  BY <1>1, FoldingExists
<1> DEFINE A == {n \in Nat : n <= Len(seq) => h[n] \in S}
<1>3. 0 \in A
  BY <1>2 DEF Folding
<1>4. ASSUME NEW n \in Nat, n \in A PROVE n + 1 \in A
  <2> SUFFICES ASSUME n + 1 <= Len(seq) PROVE h[n + 1] \in S
    OBVIOUS
  <2>1. n + 1 \in 1..Len(seq) /\ (n + 1) - 1 = n /\ n <= Len(seq)
    BY <1>1
  <2>2. h[n] \in S /\ seq[n + 1] \in E
    BY <1>1, <1>4, <2>1
  <2>3. h[n + 1] = Op[<<h[(n + 1) - 1], seq[n + 1]>>]
    BY <1>2, <2>1 DEF Folding
  <2> QED BY <2>1, <2>2, <2>3
<1> HIDE DEF A
<1>5. Len(seq) \in A
  BY <1>1, <1>3, <1>4, Induct
<1>6. h[Len(seq)] \in S
  BY <1>1, <1>5 DEF A
<1>7. FoldOf(Op, base, seq) = h[Len(seq)]
  BY <1>1, <1>2, FoldIs
<1> QED BY <1>6, <1>7

\* FoldLeft runs through the sets of places, taking the greatest off each: g is the
\* function it defines by recursion, for an operator that is Op.
SetFolding(g, Op, base, seq) ==
    \A t \in SUBSET DOMAIN seq :
        g[t] = IF t = {} THEN base ELSE Op[<<g[t \ {Max(t)}], seq[Max(t)]>>]

LEMMA MaxOfFirst ==
    ASSUME NEW n \in Nat, NEW t \in SUBSET (1..n + 1), n + 1 \in t
    PROVE  Max(t) = n + 1 /\ t \ {n + 1} \in SUBSET (1..n)
<1>1. \A y \in t : y \in Nat /\ y <= n + 1
  OBVIOUS
<1>2. \A y \in t : n + 1 >= y
  BY <1>1
<1>3. \A x \in t : (\A y \in t : x >= y) => x = n + 1
  <2> SUFFICES ASSUME NEW x \in t, \A y \in t : x >= y PROVE x = n + 1
    OBVIOUS
  <2>1. x \in Nat /\ x <= n + 1 /\ x >= n + 1
    BY <1>1
  <2> QED BY <2>1
<1>4. Max(t) = n + 1
  BY <1>2, <1>3 DEF Max
<1>5. \A y \in t \ {n + 1} : y \in 1..n
  <2> SUFFICES ASSUME NEW y \in t, y # n + 1 PROVE y \in 1..n
    OBVIOUS
  <2>1. y \in 1..n + 1
    OBVIOUS
  <2> QED BY <2>1
<1> QED BY <1>4, <1>5

LEMMA SetFoldingExists ==
    ASSUME NEW S, NEW E, NEW Op \in [S \X E -> S], NEW base \in S, NEW seq \in Seq(E)
    PROVE  \E g \in [SUBSET DOMAIN seq -> S] : SetFolding(g, Op, base, seq)
<1>1. Len(seq) \in Nat /\ DOMAIN seq = 1..Len(seq) /\ \A i \in 1..Len(seq) : seq[i] \in E
  BY LenProperties, ElementOfSeq
<1> DEFINE Value(g, t) == IF t = {} THEN base ELSE Op[<<g[t \ {Max(t)}], seq[Max(t)]>>]
           UpTo(n, g) == g \in [SUBSET (1..n) -> S] /\ \A t \in SUBSET (1..n) : g[t] = Value(g, t)
           A == {n \in Nat : n <= Len(seq) => \E g : UpTo(n, g)}
<1>2. 0 \in A
  <2> DEFINE g == [t \in SUBSET (1..0) |-> base]
  <2>1. 1..0 = {}
    OBVIOUS
  <2>2. \A t \in SUBSET (1..0) : t = {}
    BY <2>1
  <2>3. g \in [SUBSET (1..0) -> S] /\ \A t \in SUBSET (1..0) : g[t] = base
    OBVIOUS
  <2> HIDE DEF g
  <2>4. UpTo(0, g)
    BY <2>2, <2>3
  <2> HIDE DEF UpTo
  <2> QED BY <2>4
<1>3. ASSUME NEW n \in Nat, n \in A PROVE n + 1 \in A
  <2> HIDE DEF UpTo
  <2> SUFFICES ASSUME n + 1 <= Len(seq) PROVE \E h : UpTo(n + 1, h)
    OBVIOUS
  <2>1. n <= Len(seq) /\ n + 1 \in 1..Len(seq)
    BY <1>1
  <2>2. PICK g : UpTo(n, g)
    BY <1>3, <2>1
  <2> USE DEF UpTo
  <2>3. g \in [SUBSET (1..n) -> S] /\ \A t \in SUBSET (1..n) : g[t] = Value(g, t)
    BY <2>2
  <2> DEFINE h == [t \in SUBSET (1..n + 1) |->
                      IF n + 1 \in t THEN Op[<<g[t \ {n + 1}], seq[n + 1]>>] ELSE g[t]]
  <2>4. ASSUME NEW t \in SUBSET (1..n + 1) PROVE h[t] \in S /\ h[t] = Value(h, t)
    <3>1. CASE n + 1 \in t
      <4>1. Max(t) = n + 1 /\ t \ {n + 1} \in SUBSET (1..n)
        BY <3>1, MaxOfFirst
      <4>2. t \ {n + 1} \in SUBSET (1..n + 1) /\ n + 1 \notin t \ {n + 1} /\ t # {}
        BY <3>1
      <4>3. h[t \ {n + 1}] = g[t \ {n + 1}] /\ g[t \ {n + 1}] \in S
        BY <2>3, <4>1, <4>2
      <4>4. h[t] = Op[<<g[t \ {n + 1}], seq[n + 1]>>] /\ seq[n + 1] \in E
        BY <1>1, <2>1, <3>1
      <4>5. h[t] \in S
        BY <4>3, <4>4
      <4> HIDE DEF h
      <4> QED BY <4>1, <4>2, <4>3, <4>4, <4>5
    <3>2. CASE n + 1 \notin t
      <4>1. t \in SUBSET (1..n)
        <5>1. ASSUME NEW y \in t PROVE y \in 1..n
          <6>1. y \in 1..n + 1 /\ y # n + 1
            BY <3>2
          <6> QED BY <6>1
        <5> QED BY <5>1
      <4>2. h[t] = g[t] /\ g[t] \in S /\ g[t] = Value(g, t)
        BY <2>3, <3>2, <4>1
      <4>3. t \ {Max(t)} \in SUBSET (1..n + 1) /\ n + 1 \notin t \ {Max(t)}
        BY <3>2
      <4>4. h[t \ {Max(t)}] = g[t \ {Max(t)}]
        BY <4>3
      <4> HIDE DEF h
      <4> QED BY <4>2, <4>4
    <3> QED BY <3>1, <3>2
  <2>5. h = [t \in SUBSET (1..n + 1) |-> h[t]]
    OBVIOUS
  <2> HIDE DEF h, Value
  <2>6. h \in [SUBSET (1..n + 1) -> S]
    BY <2>4, <2>5
  <2>7. UpTo(n + 1, h)
    BY <2>4, <2>6
  <2> HIDE DEF UpTo
  <2> QED BY <2>7
<1> HIDE DEF A
<1>4. Len(seq) \in A
  BY <1>1, <1>2, <1>3, Induct
<1> HIDE DEF UpTo
<1>5. PICK g : UpTo(Len(seq), g)
  BY <1>1, <1>4 DEF A
<1> QED BY <1>1, <1>5 DEF SetFolding, UpTo

\* Of that function the values for the first places are those of the fold.
Unrolled(g, S, Op, base, seq, result) ==
    /\ g[{}] = base /\ g[1..Len(seq)] = result
    /\ \A k \in 1..Len(seq) :
          g[1..k - 1] \in S => g[1..k] = Op[<<g[1..k - 1], seq[k]>>]

LEMMA SetFoldIs ==
    ASSUME NEW S, NEW E, NEW Op \in [S \X E -> S], NEW base \in S, NEW seq \in Seq(E), NEW g,
           NEW result, Unrolled(g, S, Op, base, seq, result)
    PROVE  result = FoldOf(Op, base, seq)
<1> USE DEF Unrolled
<1>1. Len(seq) \in Nat /\ DOMAIN seq = 1..Len(seq) /\ \A i \in 1..Len(seq) : seq[i] \in E
  BY LenProperties, ElementOfSeq
<1>2. PICK h : Folding(h, Op, base, seq)
  BY <1>1, FoldingExists
<1>3. FoldOf(Op, base, seq) = h[Len(seq)]
  BY <1>1, <1>2, FoldIs
<1> DEFINE A == {n \in Nat : n <= Len(seq) => g[1..n] = h[n] /\ g[1..n] \in S}
<1>4. 0 \in A
  <2>1. 1..0 = {}
    OBVIOUS
  <2>2. g[1..0] = h[0] /\ h[0] \in S
    BY <1>2, <2>1 DEF Folding
  <2> QED BY <2>2
<1>5. ASSUME NEW n \in Nat, n \in A PROVE n + 1 \in A
  <2> SUFFICES ASSUME n + 1 <= Len(seq) PROVE g[1..n + 1] = h[n + 1] /\ g[1..n + 1] \in S
    OBVIOUS
  <2>1. n + 1 \in 1..Len(seq) /\ (n + 1) - 1 = n /\ n <= Len(seq)
    BY <1>1
  <2>2. g[1..n] = h[n] /\ g[1..n] \in S /\ seq[n + 1] \in E
    BY <1>1, <1>5, <2>1
  <2>3. g[1..(n + 1) - 1] \in S
    BY <2>1, <2>2
  <2>4. g[1..n + 1] = Op[<<g[1..(n + 1) - 1], seq[n + 1]>>]
    BY <2>1, <2>3
  <2>5. h[n + 1] = Op[<<h[(n + 1) - 1], seq[n + 1]>>]
    BY <1>2, <2>1 DEF Folding
  <2> QED BY <2>1, <2>2, <2>4, <2>5
<1> HIDE DEF A
<1>6. Len(seq) \in A
  BY <1>1, <1>4, <1>5, Induct
<1>7. g[1..Len(seq)] = h[Len(seq)]
  BY <1>1, <1>6 DEF A
<1> QED BY <1>1, <1>3, <1>7

\* The first places, as the recursion visits them.
LEMMA FirstPlaces ==
    ASSUME NEW n \in Nat, NEW k \in 1..n
    PROVE  /\ 1..k \in SUBSET (1..n) /\ 1..k # {} /\ Max(1..k) = k
           /\ (1..k) \ {k} = 1..k - 1
<1>1. \A y \in 1..k : y \in 1..n
  OBVIOUS
<1>2. k - 1 \in Nat /\ (k - 1) + 1 = k /\ k \in 1..k
  OBVIOUS
<1>3. Max(1..k) = k
  <2>1. 1..k \in SUBSET (1..(k - 1) + 1) /\ (k - 1) + 1 \in 1..k
    BY <1>2
  <2> HIDE DEF Max
  <2>2. Max(1..k) = (k - 1) + 1
    BY <1>2, <2>1, MaxOfFirst
  <2> QED BY <1>2, <2>2
<1>4. ASSUME NEW y PROVE y \in (1..k) \ {k} <=> y \in 1..k - 1
  OBVIOUS
<1> QED BY <1>1, <1>2, <1>3, <1>4

LEMMA SeqInduct ==
    ASSUME NEW S, NEW A, <<>> \in A, \A s \in Seq(S), x \in S : s \in A => Append(s, x) \in A
    PROVE  Seq(S) \subseteq A
<1> DEFINE N == {n \in Nat : \A s \in Seq(S) : Len(s) = n => s \in A}
<1>1. 0 \in N
  <2>1. \A s \in Seq(S) : Len(s) = 0 => s = <<>>
    BY EmptySeq
  <2> QED BY <2>1
<1>2. ASSUME NEW n \in Nat, n \in N PROVE n + 1 \in N
  <2> SUFFICES ASSUME NEW s \in Seq(S), Len(s) = n + 1 PROVE s \in A
    OBVIOUS
  <2>1. s # <<>>
    BY EmptySeq
  <2>2. PICK f \in Seq(S), x \in S : s = Append(f, x)
    BY <2>1, SequenceEmptyOrAppend
  <2>3. Len(f) \in Nat /\ Len(s) = Len(f) + 1
    BY <2>2, AppendProperties, LenProperties
  <2>4. Len(f) = n
    BY <2>3
  <2>5. f \in A
    BY <1>2, <2>4
  <2> QED BY <2>2, <2>5
<1> HIDE DEF N
<1>3. Nat \subseteq N
  BY <1>1, <1>2, Induct
<1>4. \A s \in Seq(S) : Len(s) \in N
  BY <1>3, LenProperties
<1> QED BY <1>4 DEF N

LEMMA FoldConcat ==
    ASSUME NEW E, NEW Op, NEW base, NEW s \in Seq(E), NEW t \in Seq(E)
    PROVE  FoldOf(Op, base, s \o t) = FoldOf(Op, FoldOf(Op, base, s), t)
<1> DEFINE b == FoldOf(Op, base, s)
           A == {u \in Seq(E) : FoldOf(Op, base, s \o u) = FoldOf(Op, b, u)}
<1> HIDE DEF b
<1>1. <<>> \in A
  <2>1. s \o <<>> = s /\ <<>> \in Seq(E)
    BY ConcatEmptySeq, EmptySeq
  <2>2. FoldOf(Op, b, <<>>) = b
    BY FoldEmpty
  <2> QED BY <2>1, <2>2 DEF b
<1>2. ASSUME NEW u \in Seq(E), NEW x \in E, u \in A PROVE Append(u, x) \in A
  <2>1. PICK v \in Seq(E) : v = s \o u
    BY ConcatProperties
  <2>2. s \o Append(u, x) = Append(v, x) /\ Append(u, x) \in Seq(E)
    <3>1. Append(u, x) \in Seq(E) /\ Append(u, x) = u \o <<x>> /\ <<x>> \in Seq(E)
      BY AppendProperties, AppendIsConcat, OneSeq
    <3>2. Append(v, x) = v \o <<x>>
      BY AppendIsConcat
    <3>3. PICK o \in Seq(E) : o = <<x>>
      BY <3>1
    <3>4. (s \o u) \o o = s \o (u \o o)
      BY ConcatAssociative
    <3> QED BY <2>1, <3>1, <3>2, <3>3, <3>4
  <2>3. /\ FoldOf(Op, base, Append(v, x)) = Op[<<FoldOf(Op, base, v), x>>]
        /\ FoldOf(Op, b, Append(u, x)) = Op[<<FoldOf(Op, b, u), x>>]
    BY FoldAppend
  <2>4. FoldOf(Op, base, v) = FoldOf(Op, b, u)
    BY <1>2, <2>1
  <2> QED BY <2>2, <2>3, <2>4
<1> HIDE DEF A
<1>3. t \in A
  BY <1>1, <1>2, SeqInduct
<1> QED BY <1>3 DEF A, b

-----------------------------------------------------------------------------
(* What each element of a sequence is made into, one behind the other. *)

FlatMap(F, s) == FlattenSeq([i \in DOMAIN s |-> F[s[i]]])

LEMMA FlatMapEmpty == \A F : FlatMap(F, <<>>) = <<>>
<1> SUFFICES ASSUME NEW F PROVE FlatMap(F, <<>>) = <<>>
  OBVIOUS
<1>1. PICK s : s = <<>>
  OBVIOUS
<1>2. PICK ss : ss = [i \in DOMAIN s |-> F[s[i]]]
  OBVIOUS
<1>3. ss = <<>>
  BY <1>1, <1>2
<1> QED BY <1>1, <1>2, <1>3, FlattenEmpty DEF FlatMap

LEMMA MapType ==
    ASSUME NEW S, NEW T, NEW F \in [S -> T], NEW s \in Seq(S)
    PROVE  /\ [i \in DOMAIN s |-> F[s[i]]] \in Seq(T)
           /\ Len([i \in DOMAIN s |-> F[s[i]]]) = Len(s)
<1>1. DOMAIN s = 1..Len(s) /\ Len(s) \in Nat /\ \A i \in 1..Len(s) : s[i] \in S
  BY LenProperties, ElementOfSeq
<1>2. PICK ss : ss = [i \in DOMAIN s |-> F[s[i]]]
  OBVIOUS
<1>3. ss \in [1..Len(s) -> T] /\ DOMAIN ss = 1..Len(s)
  BY <1>1, <1>2
<1>4. ss \in Seq(T)
  BY <1>1, <1>3, SeqDef
<1>5. Len(ss) = Len(s)
  BY <1>1, <1>3, <1>4, LenProperties
<1> QED BY <1>2, <1>4, <1>5

LEMMA MapAppend ==
    ASSUME NEW S, NEW T, NEW F \in [S -> T], NEW s \in Seq(S), NEW x \in S
    PROVE  [i \in DOMAIN Append(s, x) |-> F[Append(s, x)[i]]]
               = Append([i \in DOMAIN s |-> F[s[i]]], F[x])
<1>1. PICK t \in Seq(S) : t = Append(s, x)
  BY AppendProperties
<1>2. /\ Len(s) \in Nat /\ Len(t) = Len(s) + 1 /\ t[Len(s) + 1] = x
      /\ \A i \in 1..Len(s) : t[i] = s[i]
      /\ DOMAIN s = 1..Len(s) /\ DOMAIN t = 1..Len(t)
  BY <1>1, AppendProperties, LenProperties
<1>3. PICK n \in Nat : n = Len(s)
  BY <1>2
<1>11. /\ [i \in DOMAIN s |-> F[s[i]]] \in Seq(T)
       /\ Len([i \in DOMAIN s |-> F[s[i]]]) = Len(s)
  BY MapType
<1>12. /\ [i \in DOMAIN t |-> F[t[i]]] \in Seq(T)
       /\ Len([i \in DOMAIN t |-> F[t[i]]]) = Len(t)
  BY MapType
<1>13. PICK ss : ss = [i \in DOMAIN s |-> F[s[i]]]
  OBVIOUS
<1>14. PICK tt : tt = [i \in DOMAIN t |-> F[t[i]]]
  OBVIOUS
<1>4. ss \in Seq(T) /\ Len(ss) = n
  BY <1>3, <1>11, <1>13
<1>5. tt \in Seq(T) /\ Len(tt) = n + 1
  BY <1>2, <1>3, <1>12, <1>14
<1>6. PICK y \in T : y = F[x]
  OBVIOUS
<1>7. PICK uu \in Seq(T) : uu = Append(ss, y)
  BY <1>4, AppendProperties
<1>8. Len(uu) = n + 1 /\ uu[n + 1] = y /\ \A i \in 1..n : uu[i] = ss[i]
  BY <1>4, <1>7, AppendProperties
<1>9. ASSUME NEW i \in 1..n + 1 PROVE uu[i] = tt[i]
  <2>1. tt[i] = F[t[i]]
    BY <1>2, <1>3, <1>14
  <2>2. CASE i = n + 1
    BY <1>2, <1>3, <1>6, <1>8, <2>1, <2>2
  <2>3. CASE i # n + 1
    <3>1. i \in 1..n
      BY <2>3
    <3> QED BY <1>2, <1>3, <1>13, <1>8, <2>1, <3>1
  <2> QED BY <2>2, <2>3
<1>10. uu = tt
  BY <1>5, <1>8, <1>9, SeqEqual
<1> QED BY <1>1, <1>13, <1>14, <1>6, <1>7, <1>10

LEMMA FlatMapType ==
    ASSUME NEW S, NEW T, NEW F \in [S -> Seq(T)], NEW s \in Seq(S)
    PROVE  FlatMap(F, s) \in Seq(T)
<1>1. PICK ss \in Seq(Seq(T)) : ss = [i \in DOMAIN s |-> F[s[i]]]
  BY MapType
<1> QED BY <1>1, FlattenType DEF FlatMap

LEMMA FlatMapAppend ==
    ASSUME NEW S, NEW T, NEW F \in [S -> Seq(T)], NEW s \in Seq(S), NEW x \in S
    PROVE  FlatMap(F, Append(s, x)) = FlatMap(F, s) \o F[x]
<1>1. PICK ss \in Seq(Seq(T)) : ss = [i \in DOMAIN s |-> F[s[i]]]
  BY MapType
<1>2. F[x] \in Seq(T)
  OBVIOUS
<1>3. FlattenSeq(Append(ss, F[x])) = FlattenSeq(ss) \o F[x]
  BY <1>1, <1>2, FlattenAppend
<1>4. [i \in DOMAIN Append(s, x) |-> F[Append(s, x)[i]]] = Append(ss, F[x])
  BY <1>1, MapAppend
<1> QED BY <1>1, <1>3, <1>4 DEF FlatMap
LEMMA MaxIn ==
    ASSUME NEW n \in Nat, NEW t \in SUBSET (1..n), t # {}
    PROVE  Max(t) \in t
<1> DEFINE A == {k \in Nat : \A u \in SUBSET (1..k) : u # {} => Max(u) \in u}
<1>1. 0 \in A
  <2>1. 1..0 = {}
    OBVIOUS
  <2>2. \A u \in SUBSET (1..0) : u = {}
    BY <2>1
  <2> HIDE DEF Max
  <2> QED BY <2>2
<1>2. ASSUME NEW k \in Nat, k \in A PROVE k + 1 \in A
  <2> HIDE DEF Max
  <2> SUFFICES ASSUME NEW u \in SUBSET (1..k + 1), u # {} PROVE Max(u) \in u
    OBVIOUS
  <2>1. CASE k + 1 \in u
    BY <2>1, MaxOfFirst
  <2>2. CASE k + 1 \notin u
    <3>1. ASSUME NEW y \in u PROVE y \in 1..k
      <4>1. y \in 1..k + 1 /\ y # k + 1
        BY <2>2
      <4> QED BY <4>1
    <3> QED BY <1>2, <3>1
  <2> QED BY <2>1, <2>2
<1> HIDE DEF A, Max
<1>3. n \in A
  BY <1>1, <1>2, Induct
<1> QED BY <1>3 DEF A

-----------------------------------------------------------------------------
(* More about folds and flat maps. *)

LEMMA SeqWith ==
    ASSUME NEW S, NEW T, NEW s \in Seq(T), \A i \in 1..Len(s) : s[i] \in S
    PROVE  s \in Seq(S)
<1>1. Len(s) \in Nat /\ DOMAIN s = 1..Len(s) /\ s \in [1..Len(s) -> T]
  BY LenProperties
<1>2. s \in [1..Len(s) -> S]
  BY <1>1
<1> QED BY <1>1, <1>2, SeqDef

LEMMA FoldOne ==
    ASSUME NEW Op, NEW base, NEW E, NEW x \in E
    PROVE  FoldOf(Op, base, <<x>>) = Op[<<base, x>>]
<1>1. PICK s \in Seq(E) : s = <<>>
  BY EmptySeq
<1>2. Append(s, x) = <<x>>
  <2>1. Append(s, x) = s \o <<x>> /\ <<x>> \in Seq(E)
    BY AppendIsConcat, OneSeq
  <2>2. PICK o \in Seq(E) : o = <<x>>
    BY <2>1
  <2>3. <<>> \o o = o
    BY ConcatEmptySeq
  <2> QED BY <1>1, <2>1, <2>2, <2>3
<1>3. FoldOf(Op, base, Append(s, x)) = Op[<<FoldOf(Op, base, s), x>>]
  BY FoldAppend
<1>4. FoldOf(Op, base, <<>>) = base
  BY FoldEmpty
<1> QED BY <1>1, <1>2, <1>3, <1>4

LEMMA TwoSeq ==
    ASSUME NEW E, NEW x \in E, NEW y \in E
    PROVE  <<x, y>> \in Seq(E) /\ <<x, y>> = Append(<<x>>, y)
<1>1. PICK s : s = <<x>>
  OBVIOUS
<1>2. s \in Seq(E)
  BY <1>1, OneSeq
<1>2a. Len(s) = 1 /\ s[1] = x
  BY <1>1
<1>3. PICK t \in Seq(E) : t = Append(s, y)
  BY <1>2, AppendProperties
<1>4. Len(t) = Len(s) + 1 /\ t[Len(s) + 1] = y /\ \A i \in 1..Len(s) : t[i] = s[i]
  BY <1>2, <1>3, AppendProperties
<1>5. PICK u : u = <<x, y>>
  OBVIOUS
<1>6. u \in Seq(E) /\ Len(u) = 2 /\ u[1] = x /\ u[2] = y
  BY <1>5
<1>7. Len(t) = 2 /\ t[1] = x /\ t[2] = y
  BY <1>2a, <1>4
<1>8. \A i \in 1..2 : i = 1 \/ i = 2
  OBVIOUS
<1>9. \A i \in 1..Len(t) : t[i] = u[i]
  BY <1>6, <1>7, <1>8
<1>10. t = u
  BY <1>6, <1>7, <1>9, SeqEqual
<1> QED BY <1>1, <1>3, <1>5, <1>6, <1>10

LEMMA FoldTwo ==
    ASSUME NEW Op, NEW base, NEW E, NEW x \in E, NEW y \in E
    PROVE  FoldOf(Op, base, <<x, y>>) = Op[<<Op[<<base, x>>], y>>]
<1>1. PICK s \in Seq(E) : s = <<x>>
  BY OneSeq
<1>2. Append(s, y) = <<x, y>>
  BY <1>1, TwoSeq
<1>3. FoldOf(Op, base, Append(s, y)) = Op[<<FoldOf(Op, base, s), y>>]
  BY FoldAppend
<1>4. FoldOf(Op, base, s) = Op[<<base, x>>]
  BY <1>1, FoldOne
<1> QED BY <1>2, <1>3, <1>4

LEMMA ConcatAppend ==
    ASSUME NEW S, NEW s \in Seq(S), NEW u \in Seq(S), NEW x \in S
    PROVE  s \o Append(u, x) = Append(s \o u, x) /\ Append(u, x) \in Seq(S)
<1>0. PICK v \in Seq(S) : v = s \o u
  BY ConcatProperties
<1>1. Append(u, x) \in Seq(S) /\ Append(u, x) = u \o <<x>> /\ <<x>> \in Seq(S)
  BY AppendProperties, AppendIsConcat, OneSeq
<1>2. Append(v, x) = v \o <<x>>
  BY AppendIsConcat
<1>3. PICK o \in Seq(S) : o = <<x>>
  BY <1>1
<1>4. (s \o u) \o o = s \o (u \o o)
  BY ConcatAssociative
<1> QED BY <1>0, <1>1, <1>2, <1>3, <1>4

LEMMA FlatMapConcat ==
    ASSUME NEW S, NEW T, NEW F \in [S -> Seq(T)], NEW s \in Seq(S), NEW t \in Seq(S)
    PROVE  FlatMap(F, s \o t) = FlatMap(F, s) \o FlatMap(F, t)
<1> DEFINE A == {u \in Seq(S) : FlatMap(F, s \o u) = FlatMap(F, s) \o FlatMap(F, u)}
<1>0. PICK m \in Seq(T) : m = FlatMap(F, s)
  BY FlatMapType
<1>1. <<>> \in A
  <2>1. s \o <<>> = s /\ <<>> \in Seq(S) /\ m \o <<>> = m
    BY ConcatEmptySeq, EmptySeq
  <2> QED BY <1>0, <2>1, FlatMapEmpty
<1>2. ASSUME NEW u \in Seq(S), NEW x \in S, u \in A PROVE Append(u, x) \in A
  <2>1. PICK v \in Seq(S) : v = s \o u
    BY ConcatProperties
  <2>2. s \o Append(u, x) = Append(v, x) /\ Append(u, x) \in Seq(S)
    BY <2>1, ConcatAppend
  <2>3. /\ FlatMap(F, Append(v, x)) = FlatMap(F, v) \o F[x]
        /\ FlatMap(F, Append(u, x)) = FlatMap(F, u) \o F[x]
    BY FlatMapAppend
  <2>4. PICK mu \in Seq(T) : mu = FlatMap(F, u)
    BY FlatMapType
  <2>5. PICK y \in Seq(T) : y = F[x]
    OBVIOUS
  <2>6. FlatMap(F, v) = m \o mu
    BY <1>0, <1>2, <2>1, <2>4
  <2>7. (m \o mu) \o y = m \o (mu \o y)
    BY ConcatAssociative, SMTT(60)
  <2> QED BY <1>0, <2>2, <2>3, <2>4, <2>5, <2>6, <2>7
<1> HIDE DEF A
<1>3. t \in A
  BY <1>1, <1>2, SeqInduct
<1> QED BY <1>3 DEF A

\* A sequence as two, as a name of its own for the lemmas about it.
Together(both, s, t) == both = s \o t

LEMMA JoinedTwice ==
    ASSUME NEW S, NEW b \in Seq(S), NEW p \in Seq(S), NEW v \in Seq(S), NEW bp, NEW pv, NEW d,
           Together(bp, b, p), Together(pv, p, v), Together(d, bp, v)
    PROVE  Together(d, b, pv)
<1>1. (b \o p) \o v = b \o (p \o v)
  BY ConcatAssociative
<1> QED BY <1>1 DEF Together

LEMMA FlatMapBoth ==
    ASSUME NEW S, NEW T, NEW F \in [S -> Seq(T)], NEW s \in Seq(S), NEW t \in Seq(S),
           NEW both, Together(both, s, t)
    PROVE  Together(FlatMap(F, both), FlatMap(F, s), FlatMap(F, t))
<1>1. FlatMap(F, s \o t) = FlatMap(F, s) \o FlatMap(F, t)
  BY FlatMapConcat
<1> QED BY <1>1 DEF Together

LEMMA FlatMapOne ==
    ASSUME NEW S, NEW T, NEW F \in [S -> Seq(T)], NEW x \in S
    PROVE  FlatMap(F, <<x>>) = F[x]
<1>1. PICK s \in Seq(S) : s = <<>>
  BY EmptySeq
<1>2. Append(s, x) = <<x>>
  BY <1>1
<1>3. FlatMap(F, Append(s, x)) = FlatMap(F, s) \o F[x]
  BY FlatMapAppend
<1>4. PICK y \in Seq(T) : y = F[x]
  OBVIOUS
<1>5. <<>> \o y = y
  BY ConcatEmptySeq
<1> QED BY <1>1, <1>2, <1>3, <1>4, <1>5, FlatMapEmpty

LEMMA ToSetAppend ==
    ASSUME NEW S, NEW s \in Seq(S), NEW x \in S
    PROVE  ToSet(Append(s, x)) = ToSet(s) \cup {x}
<1>1. PICK t \in Seq(S) : t = Append(s, x)
  BY AppendProperties
<1>2. /\ Len(s) \in Nat /\ Len(t) = Len(s) + 1 /\ t[Len(s) + 1] = x
      /\ \A i \in 1..Len(s) : t[i] = s[i]
      /\ DOMAIN s = 1..Len(s) /\ DOMAIN t = 1..Len(t)
  BY <1>1, AppendProperties, LenProperties
<1>3. PICK n \in Nat : n = Len(s)
  BY <1>2
<1>4. DOMAIN s = 1..n /\ DOMAIN t = 1..n + 1 /\ t[n + 1] = x /\ \A i \in 1..n : t[i] = s[i]
  BY <1>2, <1>3
<1>5. ASSUME NEW i \in 1..n + 1 PROVE i = n + 1 \/ i \in 1..n
  OBVIOUS
<1>6. \A i \in 1..n : i \in 1..n + 1
  OBVIOUS
<1>7. n + 1 \in 1..n + 1
  OBVIOUS
<1>8. \A y : y \in ToSet(t) <=> y \in ToSet(s) \cup {x}
  BY <1>4, <1>5, <1>6, <1>7 DEF ToSet
<1> QED BY <1>1, <1>8

LEMMA ToSetNone == ToSet(<<>>) = {}
<1>1. DOMAIN <<>> = {}
  OBVIOUS
<1> QED BY <1>1 DEF ToSet

=============================================================================
