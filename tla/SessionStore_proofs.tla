------------------------ MODULE SessionStore_proofs ------------------------
(***************************************************************************)
(* Proofs about SessionStore, for any limits of histories, contexts,       *)
(* sessions and rounds, any number of messages and restarts.  The          *)
(* invariant follows the conversation through the places that hold it: the *)
(* session in memory, the context of the call, and the file.               *)
(***************************************************************************)
EXTENDS SessionStore, DataLemmas

-----------------------------------------------------------------------------
(* Sequences that end alike. *)

\* s ends with the last n elements of t, with all of them if t is shorter.
Ends(s, t, n) ==
    \A k \in 0..n-1 : k < Len(t) => k < Len(s) /\ s[Len(s) - k] = t[Len(t) - k]

LEMMA EndsAppend ==
    ASSUME NEW S, NEW s \in Seq(S), NEW t \in Seq(S), NEW u \in Seq(S), NEW n \in Nat,
           Ends(s, t, n)
    PROVE  Ends(s \o u, t \o u, n)
<1> SUFFICES ASSUME NEW k \in 0..n-1, k < Len(t \o u)
             PROVE  /\ k < Len(s \o u)
                    /\ (s \o u)[Len(s \o u) - k] = (t \o u)[Len(t \o u) - k]
  BY DEF Ends
<1>1. /\ Len(s \o u) = Len(s) + Len(u) /\ Len(t \o u) = Len(t) + Len(u)
      /\ Len(s) \in Nat /\ Len(t) \in Nat /\ Len(u) \in Nat /\ k \in Nat
  OBVIOUS
<1>2. CASE k < Len(u)
  <2>1. /\ (Len(s) + Len(u)) - k \in 1..(Len(s) + Len(u)) /\ (Len(s) + Len(u)) - k > Len(s)
        /\ (Len(t) + Len(u)) - k \in 1..(Len(t) + Len(u)) /\ (Len(t) + Len(u)) - k > Len(t)
        /\ ((Len(s) + Len(u)) - k) - Len(s) = Len(u) - k
        /\ ((Len(t) + Len(u)) - k) - Len(t) = Len(u) - k
        /\ k < Len(s) + Len(u)
    BY <1>1, <1>2
  <2>2. (s \o u)[(Len(s) + Len(u)) - k] = u[Len(u) - k]
    BY <2>1, ConcatProperties
  <2>3. (t \o u)[(Len(t) + Len(u)) - k] = u[Len(u) - k]
    BY <2>1, ConcatProperties
  <2> QED BY <1>1, <2>1, <2>2, <2>3
<1>3. CASE ~(k < Len(u))
  <2>1. /\ k - Len(u) \in 0..n-1 /\ k - Len(u) < Len(t)
    BY <1>1, <1>3
  <2>2. k - Len(u) < Len(s) /\ s[Len(s) - (k - Len(u))] = t[Len(t) - (k - Len(u))]
    BY <2>1 DEF Ends
  <2>3. /\ (Len(s) + Len(u)) - k \in 1..(Len(s) + Len(u)) /\ ~((Len(s) + Len(u)) - k > Len(s))
        /\ (Len(t) + Len(u)) - k \in 1..(Len(t) + Len(u)) /\ ~((Len(t) + Len(u)) - k > Len(t))
        /\ Len(s) - (k - Len(u)) = (Len(s) + Len(u)) - k
        /\ Len(t) - (k - Len(u)) = (Len(t) + Len(u)) - k
        /\ k < Len(s) + Len(u)
    BY <1>1, <1>3, <2>1, <2>2
  <2>4. (s \o u)[(Len(s) + Len(u)) - k] = s[(Len(s) + Len(u)) - k]
    BY <2>3, ConcatProperties
  <2>5. (t \o u)[(Len(t) + Len(u)) - k] = t[(Len(t) + Len(u)) - k]
    BY <2>3, ConcatProperties
  <2> QED BY <1>1, <2>2, <2>3, <2>4, <2>5
<1> QED BY <1>2, <1>3

\* What goes before does not matter.
LEMMA EndsBefore ==
    ASSUME NEW S, NEW s \in Seq(S), NEW t \in Seq(S), NEW u \in Seq(S), NEW n \in Nat,
           Ends(s, t, n)
    PROVE  Ends(u \o s, t, n)
<1> SUFFICES ASSUME NEW k \in 0..n-1, k < Len(t)
             PROVE  k < Len(u \o s) /\ (u \o s)[Len(u \o s) - k] = t[Len(t) - k]
  BY DEF Ends
<1>1. /\ Len(u \o s) = Len(u) + Len(s) /\ Len(s) \in Nat /\ Len(u) \in Nat /\ k \in Nat
      /\ k < Len(s) /\ s[Len(s) - k] = t[Len(t) - k]
  BY DEF Ends
<1>2. /\ (Len(u) + Len(s)) - k \in 1..(Len(u) + Len(s)) /\ ~((Len(u) + Len(s)) - k <= Len(u))
      /\ ((Len(u) + Len(s)) - k) - Len(u) = Len(s) - k /\ k < Len(u) + Len(s)
  BY <1>1
<1>3. (u \o s)[(Len(u) + Len(s)) - k] = s[Len(s) - k]
  BY <1>2, ConcatProperties
<1> QED BY <1>1, <1>2, <1>3

LEMMA LastOfIs ==
    ASSUME NEW S, NEW s \in Seq(S), NEW n \in Nat
    PROVE  /\ LastOf(s, n) \in Seq(S)
           /\ Len(LastOf(s, n)) = IF Len(s) <= n THEN Len(s) ELSE n
           /\ \A k \in 0..Len(LastOf(s, n)) - 1 :
                 LastOf(s, n)[Len(LastOf(s, n)) - k] = s[Len(s) - k]
<1>1. Len(s) \in Nat
  OBVIOUS
<1>2. CASE Len(s) <= n
  BY <1>2 DEF LastOf
<1>3. CASE ~(Len(s) <= n)
  <2>1. LastOf(s, n) = SubSeq(s, (Len(s) - n) + 1, Len(s))
    BY <1>3 DEF LastOf
  <2>2. /\ (Len(s) - n) + 1 \in Int /\ (Len(s) - n) + 1 \in 1..Len(s) + 1
        /\ (Len(s) - ((Len(s) - n) + 1)) + 1 = n
    BY <1>1, <1>3
  <2>3. \A i \in (Len(s) - n) + 1..Len(s) : s[i] \in S
    BY <2>2
  <2>4. /\ LastOf(s, n) \in Seq(S) /\ Len(LastOf(s, n)) = n
        /\ \A i \in 1..n : LastOf(s, n)[i] = s[((Len(s) - n) + 1 + i) - 1]
    BY <1>1, <1>3, <2>1, <2>2, <2>3, SubSeqProperties
  <2>5. ASSUME NEW k \in 0..n-1
        PROVE  LastOf(s, n)[n - k] = s[Len(s) - k]
    <3>1. n - k \in 1..n /\ (((Len(s) - n) + 1) + (n - k)) - 1 = Len(s) - k
      BY <1>1
    <3> QED BY <2>4, <3>1
  <2> QED BY <1>3, <2>4, <2>5
<1> QED BY <1>2, <1>3

LEMMA EndsLastOf ==
    ASSUME NEW S, NEW s \in Seq(S), NEW t \in Seq(S), NEW n \in Nat, NEW m \in Nat,
           Ends(s, t, n), n <= m
    PROVE  Ends(LastOf(s, m), t, n)
<1> SUFFICES ASSUME NEW k \in 0..n-1, k < Len(t)
             PROVE  /\ k < Len(LastOf(s, m))
                    /\ LastOf(s, m)[Len(LastOf(s, m)) - k] = t[Len(t) - k]
  BY DEF Ends
<1>1. k < Len(s) /\ s[Len(s) - k] = t[Len(t) - k]
  BY DEF Ends
<1>2. Len(LastOf(s, m)) = (IF Len(s) <= m THEN Len(s) ELSE m) /\ Len(s) \in Nat
  BY LastOfIs
<1>3. k < Len(LastOf(s, m)) /\ k \in 0..Len(LastOf(s, m)) - 1
  BY <1>1, <1>2
<1> QED BY <1>1, <1>3, LastOfIs

LEMMA EndsLess ==
    ASSUME NEW S, NEW s \in Seq(S), NEW t \in Seq(S), NEW n \in Nat, NEW m \in Nat,
           Ends(s, t, n), m <= n
    PROVE  Ends(s, t, m)
<1>1. \A k \in 0..m-1 : k \in 0..n-1
  OBVIOUS
<1> QED BY <1>1 DEF Ends

\* In the words of the community modules.
LEMMA EndsIsSuffix ==
    ASSUME NEW S, NEW s \in Seq(S), NEW t \in Seq(S), NEW n \in Nat, Ends(s, t, n)
    PROVE  IsSuffix(LastOf(t, n), s)
<1> DEFINE u == LastOf(t, n)
<1>1. /\ u \in Seq(S) /\ Len(u) \in Nat /\ Len(s) \in Nat /\ Len(t) \in Nat
      /\ Len(u) = IF Len(t) <= n THEN Len(t) ELSE n
      /\ \A k \in 0..Len(u)-1 : u[Len(u) - k] = t[Len(t) - k]
  <2>1. Len(s) \in Nat /\ Len(t) \in Nat
    OBVIOUS
  <2>2. /\ u \in Seq(S) /\ Len(u) = IF Len(t) <= n THEN Len(t) ELSE n
        /\ \A k \in 0..Len(u)-1 : u[Len(u) - k] = t[Len(t) - k]
    BY LastOfIs
  <2> HIDE DEF u
  <2> QED BY <2>1, <2>2
<1> HIDE DEF u
<1>2. \A k \in 0..Len(u)-1 : k < Len(s) /\ u[Len(u) - k] = s[Len(s) - k]
  BY <1>1 DEF Ends
<1>3. Len(u) <= Len(s)
  <2>1. CASE Len(u) = 0
    BY <1>1, <2>1
  <2>2. CASE Len(u) # 0
    <3>1. Len(u) - 1 \in 0..Len(u)-1
      BY <1>1, <2>2
    <3>2. Len(u) - 1 < Len(s)
      BY <1>2, <3>1
    <3> QED BY <1>1, <3>2
  <2> QED BY <2>1, <2>2
<1> DEFINE ru == Reverse(u)
           rs == Reverse(s)
<1>4. /\ ru \in [1..Len(u) -> S] /\ rs \in [1..Len(s) -> S]
      /\ \A i \in 1..Len(u) : ru[i] = u[(Len(u) - i) + 1]
      /\ \A i \in 1..Len(s) : rs[i] = s[(Len(s) - i) + 1]
  <2>1. \A i \in 1..Len(u) : (Len(u) - i) + 1 \in 1..Len(u)
    BY <1>1
  <2>2. \A i \in 1..Len(s) : (Len(s) - i) + 1 \in 1..Len(s)
    BY <1>1
  <2> QED BY <1>1, <2>1, <2>2 DEF Reverse
<1> HIDE DEF ru, rs
<1>5. ru \in Seq(S) /\ rs \in Seq(S) /\ Len(ru) = Len(u) /\ Len(rs) = Len(s)
  <2>1. ru \in Seq(S) /\ rs \in Seq(S)
    BY <1>1, <1>4, SeqDef
  <2>2. Len(ru) = Len(u)
    BY <1>1, <1>4, <2>1
  <2>3. Len(rs) = Len(s)
    BY <1>1, <1>4, <2>1
  <2> QED BY <2>1, <2>2, <2>3
<1>6. \A i \in 1..Len(u) : ru[i] = rs[i]
  <2> SUFFICES ASSUME NEW i \in 1..Len(u) PROVE ru[i] = rs[i]
    OBVIOUS
  <2>1. /\ i - 1 \in 0..Len(u)-1 /\ (Len(u) - i) + 1 = Len(u) - (i - 1)
        /\ i \in 1..Len(s) /\ (Len(s) - i) + 1 = Len(s) - (i - 1)
    BY <1>1, <1>3
  <2> QED BY <1>2, <1>4, <2>1
<1>7. SubSeq(ru, 1, Len(u)) = SubSeq(rs, 1, Len(u))
  <2>0. \A i \in 1..Len(u) : ru[i] \in S /\ rs[i] \in S /\ (1 + i) - 1 = i
    <3>1. \A i \in 1..Len(u) : i \in 1..Len(s) /\ (1 + i) - 1 = i
      BY <1>1, <1>3
    <3> QED BY <1>4, <3>1
  <2>1. /\ SubSeq(ru, 1, Len(u)) \in Seq(S) /\ Len(SubSeq(ru, 1, Len(u))) = Len(u)
        /\ \A i \in 1..Len(u) : SubSeq(ru, 1, Len(u))[i] = ru[i]
    BY <1>1, <1>5, <2>0
  <2>2. /\ SubSeq(rs, 1, Len(u)) \in Seq(S) /\ Len(SubSeq(rs, 1, Len(u))) = Len(u)
        /\ \A i \in 1..Len(u) : SubSeq(rs, 1, Len(u))[i] = rs[i]
    BY <1>1, <1>3, <1>5, <2>0
  <2> QED BY <1>1, <1>6, <2>1, <2>2, SeqEqual
<1> QED BY <1>3, <1>5, <1>7 DEF IsSuffix, IsPrefix, ru, rs, u
-----------------------------------------------------------------------------
(* What reading the lines of a file gives. *)

\* f is the function that Readable defines by recursion.
Reading(f, lines) ==
    f = [n \in 0..Len(lines) |->
            IF n = 0 THEN <<>>
            ELSE IF lines[n] \in Messages THEN Append(f[n - 1], lines[n])
            ELSE f[n - 1]]

LEMMA ReadableIs ==
    ASSUME NEW lines
    PROVE  Readable(lines) = (CHOOSE f : Reading(f, lines))[Len(lines)]
BY DEF Readable, Reading

\* There is such a function: it can be continued line by line.
LEMMA ReadingExists ==
    ASSUME NEW lines, Len(lines) \in Nat
    PROVE  \E f : Reading(f, lines)
<1> DEFINE Step(x, l) == IF l \in Messages THEN Append(x, l) ELSE x
           UpTo(n, g) == g[0] = <<>> /\ \A i \in 1..n : g[i] = Step(g[i - 1], lines[i])
           A == {n \in Nat : \E g : UpTo(n, g)}
<1>1. 0 \in A
  <2> HIDE DEF Step
  <2>1. [i \in {0} |-> <<>>][0] = <<>> /\ 1..0 = {}
    OBVIOUS
  <2>2. UpTo(0, [i \in {0} |-> <<>>])
    BY <2>1
  <2> HIDE DEF UpTo
  <2> QED BY <2>2
<1>2. ASSUME NEW n \in Nat, n \in A PROVE n + 1 \in A
  <2>1. PICK g : UpTo(n, g)
    BY <1>2
  <2> DEFINE h == [i \in 0..n + 1 |-> IF i = n + 1 THEN Step(g[n], lines[n + 1]) ELSE g[i]]
  <2> HIDE DEF Step
  <2>2. h[0] = <<>>
    BY <2>1
  <2>3. ASSUME NEW i \in 1..n + 1 PROVE h[i] = Step(h[i - 1], lines[i])
    <3>1. i \in 0..n + 1 /\ i - 1 \in 0..n + 1 /\ i - 1 # n + 1
      OBVIOUS
    <3>2. CASE i = n + 1
      <4>1. h[i] = Step(g[n], lines[n + 1]) /\ i - 1 = n /\ h[n] = g[n]
        BY <3>1, <3>2
      <4> QED BY <3>2, <4>1
    <3>3. CASE i # n + 1
      <4>1. i \in 1..n
        BY <3>3
      <4>2. h[i] = g[i] /\ h[i - 1] = g[i - 1]
        BY <3>1, <3>3
      <4> QED BY <2>1, <4>1, <4>2
    <3> QED BY <3>2, <3>3
  <2> HIDE DEF h
  <2>4. UpTo(n + 1, h)
    BY <2>2, <2>3
  <2> QED BY <2>4
<1> HIDE DEF A
<1>3. Len(lines) \in A
  BY <1>1, <1>2, Induct
<1>4. PICK g : UpTo(Len(lines), g)
  BY <1>3 DEF A
<1> DEFINE f == [n \in 0..Len(lines) |-> g[n]]
<1>5. \A n \in 0..Len(lines) : n # 0 => n \in 1..Len(lines) /\ n - 1 \in 0..Len(lines)
  OBVIOUS
<1>6. ASSUME NEW n \in 0..Len(lines)
      PROVE  g[n] = IF n = 0 THEN <<>>
                    ELSE IF lines[n] \in Messages THEN Append(f[n - 1], lines[n])
                    ELSE f[n - 1]
  <2>1. CASE n = 0
    BY <1>4, <2>1
  <2>2. CASE n # 0
    <3>1. n \in 1..Len(lines) /\ f[n - 1] = g[n - 1]
      BY <1>5, <2>2
    <3>2. g[n] = Step(g[n - 1], lines[n])
      BY <1>4, <3>1
    <3> QED BY <2>2, <3>1, <3>2
  <2> QED BY <2>1, <2>2
<1>7. Reading(f, lines)
  BY <1>6 DEF Reading
<1> QED BY <1>7

\* Its values, one by one.
LEMMA ReadableSteps ==
    ASSUME NEW lines, Len(lines) \in Nat
    PROVE  \E f : /\ Readable(lines) = f[Len(lines)] /\ f[0] = <<>>
                  /\ \A n \in Nat : n + 1 <= Len(lines) =>
                        f[n + 1] = IF lines[n + 1] \in Messages THEN Append(f[n], lines[n + 1])
                                   ELSE f[n]
<1>1. PICK f : f = (CHOOSE g : Reading(g, lines))
  OBVIOUS
<1>2. Reading(f, lines)
  BY <1>1, ReadingExists
<1>3. Readable(lines) = f[Len(lines)]
  BY <1>1, ReadableIs
<1>4. f[0] = <<>>
  <2>1. 0 \in 0..Len(lines)
    OBVIOUS
  <2> QED BY <1>2, <2>1 DEF Reading
<1>5. ASSUME NEW n \in Nat, n + 1 <= Len(lines)
      PROVE  f[n + 1] = IF lines[n + 1] \in Messages THEN Append(f[n], lines[n + 1])
                        ELSE f[n]
  <2>1. n + 1 \in 0..Len(lines) /\ n + 1 # 0 /\ (n + 1) - 1 = n
    BY <1>5
  <2>2. f[n + 1] = IF lines[n + 1] \in Messages THEN Append(f[(n + 1) - 1], lines[n + 1])
                   ELSE f[(n + 1) - 1]
    BY <1>2, <2>1 DEF Reading
  <2> QED BY <2>1, <2>2
<1> QED BY <1>3, <1>4, <1>5

\* Whatever the file holds, messages are read from it.
LEMMA ReadableType ==
    ASSUME NEW lines, Len(lines) \in Nat
    PROVE  Readable(lines) \in Seq(Messages)
<1>1. PICK f : /\ Readable(lines) = f[Len(lines)] /\ f[0] = <<>>
               /\ \A n \in Nat : n + 1 <= Len(lines) =>
                     f[n + 1] = IF lines[n + 1] \in Messages THEN Append(f[n], lines[n + 1])
                                ELSE f[n]
  BY ReadableSteps
<1> DEFINE A == {n \in Nat : n <= Len(lines) => f[n] \in Seq(Messages)}
<1> HIDE DEF Messages
<1>2. 0 \in A
  <2>1. f[0] \in Seq(Messages)
    BY <1>1, EmptySeq
  <2> QED BY <2>1
<1>3. ASSUME NEW n \in Nat, n \in A PROVE n + 1 \in A
  <2>1. n + 1 \in Nat /\ (n + 1 <= Len(lines) => n <= Len(lines))
    OBVIOUS
  <2>2. n + 1 <= Len(lines) => f[n] \in Seq(Messages)
    BY <1>3, <2>1
  <2>3. ASSUME n + 1 <= Len(lines) PROVE f[n + 1] \in Seq(Messages)
    <3>1. PICK s \in Seq(Messages) : s = f[n]
      BY <2>2, <2>3
    <3>2. CASE lines[n + 1] \in Messages
      <4>1. f[n + 1] = Append(s, lines[n + 1])
        BY <1>1, <2>3, <3>1, <3>2
      <4> QED BY <3>2, <4>1, AppendProperties
    <3>3. CASE lines[n + 1] \notin Messages
      <4>1. f[n + 1] = s
        BY <1>1, <2>3, <3>1, <3>3
      <4> QED BY <4>1
    <3> QED BY <3>2, <3>3
  <2> QED BY <2>1, <2>3
<1> HIDE DEF A
<1>4. Len(lines) \in A
  BY <1>2, <1>3, Induct
<1>5. Len(lines) <= Len(lines)
  OBVIOUS
<1> QED BY <1>1, <1>4, <1>5 DEF A

\* A file of messages only is read as it is.
LEMMA ReadableAll ==
    ASSUME NEW lines \in Seq(Messages)
    PROVE  Readable(lines) = lines
<1>0. Len(lines) \in Nat
  OBVIOUS
<1>1. PICK f : /\ Readable(lines) = f[Len(lines)] /\ f[0] = <<>>
               /\ \A n \in Nat : n + 1 <= Len(lines) =>
                     f[n + 1] = IF lines[n + 1] \in Messages THEN Append(f[n], lines[n + 1])
                                ELSE f[n]
  BY <1>0, ReadableSteps
<1> HIDE DEF Messages
<1> DEFINE Is(n) == /\ f[n] \in Seq(Messages) /\ Len(f[n]) = n
                    /\ \A i \in 1..n : f[n][i] = lines[i]
           A == {n \in Nat : n <= Len(lines) => Is(n)}
<1>2. 0 \in A
  <2>1. f[0] \in Seq(Messages) /\ Len(f[0]) = 0 /\ 1..0 = {}
    BY <1>1, EmptySeq
  <2>2. Is(0)
    BY <2>1
  <2> HIDE DEF Is
  <2> QED BY <2>2
<1>3. ASSUME NEW n \in Nat, n \in A PROVE n + 1 \in A
  <2> SUFFICES ASSUME n + 1 <= Len(lines) PROVE Is(n + 1)
    OBVIOUS
  <2>1. n <= Len(lines) /\ n + 1 \in 1..Len(lines)
    BY <1>0
  <2>2. Is(n)
    BY <1>3, <2>1
  <2>3. PICK x \in Messages : x = lines[n + 1]
    BY <2>1
  <2>4. f[n + 1] = Append(f[n], x)
    BY <1>1, <2>3
  <2>5. PICK s \in Seq(Messages) : s = f[n]
    BY <2>2
  <2>6. /\ Append(s, x) \in Seq(Messages) /\ Len(Append(s, x)) = n + 1
        /\ Append(s, x)[n + 1] = x /\ \A i \in 1..n : Append(s, x)[i] = s[i]
    BY <2>2, <2>5
  <2>7. \A i \in 1..n + 1 : i = n + 1 \/ i \in 1..n
    OBVIOUS
  <2>8. \A i \in 1..n + 1 : f[n + 1][i] = lines[i]
    BY <2>2, <2>3, <2>4, <2>5, <2>6, <2>7
  <2> QED BY <2>4, <2>5, <2>6, <2>8
<1> HIDE DEF A
<1>4. Len(lines) \in A
  BY <1>0, <1>2, <1>3, Induct
<1>5. Is(Len(lines))
  <2>1. Len(lines) <= Len(lines)
    BY <1>0
  <2> QED BY <1>4, <2>1 DEF A
<1>6. f[Len(lines)] = lines
  BY <1>5, SeqEqual
<1> QED BY <1>1, <1>6
-----------------------------------------------------------------------------
(* The invariant. *)

Sessions == [mine : BOOLEAN, history : Seq(Messages)]
Limit == IF MaxHistory < ContextLimit THEN MaxHistory ELSE ContextLimit

HasMine == \E i \in DOMAIN manager : manager[i].mine

\* Where the worker has no session, and that the one it has is the only one
\* that goes by the key, if any does.
Hand ==
    /\ pc = "boot" => manager = <<>> /\ cur = 0
    /\ pc \in {"model", "save", "meta"} =>
          /\ cur \in 1..Len(manager)
          /\ \A i \in 1..Len(manager) : manager[i].mine => i = cur
    /\ \A i, j \in 1..Len(manager) : manager[i].mine /\ manager[j].mine => i = j

\* Where the conversation is.  A session that has the key ends with it, the one
\* in the worker's hands does until it is saved, and without one in memory the
\* file does.
ConvKept ==
    ~torn =>
    /\ ~openLine /\ file \in Seq(Messages)
    /\ ~onDisk => file = <<>>
    /\ Ends(file, savedConv, MaxHistory)
    /\ \A i \in 1..Len(manager) : manager[i].mine => Ends(manager[i].history, conv, MaxHistory)
    /\ pc \in {"model", "save"} => Ends(manager[cur].history, conv, MaxHistory)
    /\ ~HasMine => IF pc \in {"model", "save"} THEN manager[cur].history # <<>>
                   ELSE conv = savedConv
    /\ pc = "model" => Ends(context, conv, Limit)

\* Without a stop inside session_save, the two files agree.
FilesAgree ==
    ~split =>
    /\ Len(manager) <= 1
    /\ \A i \in 1..Len(manager) : manager[i].mine
    /\ meta # "other"
    /\ onDisk /\ pc # "meta" => meta = "mine"

SessInv == TypeOK /\ Hand /\ ConvKept /\ FilesAgree

LEMMA Parameters ==
    /\ MaxHistory \in Nat /\ MaxHistory >= 1 /\ Limit \in Nat /\ Limit >= 1
    /\ Limit <= MaxHistory /\ Limit <= ContextLimit
    /\ ContextLimit \in Nat /\ MaxSessions \in Nat /\ MaxSessions >= 1
    /\ MaxIterations \in Nat /\ MaxIterations >= 1
    /\ MaxTools \in Nat /\ MaxMessages \in Nat /\ MaxCrashes \in Nat
BY SessionStoreAssumption DEF Limit

\* What one session is made of.
LEMMA SessionIs ==
    ASSUME TypeOK
    PROVE  /\ manager \in Seq(Sessions) /\ Len(manager) \in Nat /\ DOMAIN manager = 1..Len(manager)
           /\ \A i \in 1..Len(manager) : /\ manager[i] \in Sessions
                                         /\ manager[i].mine \in BOOLEAN
                                         /\ manager[i].history \in Seq(Messages)
<1>1. manager \in Seq(Sessions)
  BY DEF TypeOK, Sessions
<1>2. \A i \in 1..Len(manager) : manager[i] \in Sessions
  BY <1>1, ElementOfSeq
<1>3. \A s \in Sessions : s.mine \in BOOLEAN /\ s.history \in Seq(Messages)
  BY DEF Sessions
<1>4. Len(manager) \in Nat /\ DOMAIN manager = 1..Len(manager)
  BY <1>1, LenProperties
<1> QED BY <1>1, <1>2, <1>3, <1>4

\* A session is added behind the others; the first one may go.
LEMMA AddIs ==
    ASSUME TypeOK, ~HasMine, NEW s \in Sessions
    PROVE  /\ Add(s)[1] \in Seq(Sessions) /\ Len(Add(s)[1]) <= MaxSessions
           /\ Add(s)[2] \in 1..Len(Add(s)[1]) /\ Add(s)[1][Add(s)[2]] = s
           /\ \A i \in 1..Len(Add(s)[1]) : i # Add(s)[2] => ~Add(s)[1][i].mine
           /\ manager = <<>> => Len(Add(s)[1]) = 1
<1>1. PICK kept : kept = IF Len(manager) >= MaxSessions THEN Tail(manager) ELSE manager
  OBVIOUS
<1>2. Add(s)[1] = Append(kept, s) /\ Add(s)[2] = Len(kept) + 1
  BY <1>1 DEF Add
<1>3. /\ Len(manager) <= MaxSessions /\ MaxSessions \in Nat /\ MaxSessions >= 1
      /\ manager \in Seq(Sessions) /\ Len(manager) \in Nat
      /\ \A i \in 1..Len(manager) : ~manager[i].mine
  BY SessionIs, Parameters DEF TypeOK, HasMine
<1>4. /\ kept \in Seq(Sessions) /\ Len(kept) \in Nat /\ Len(kept) + 1 <= MaxSessions
      /\ \A i \in 1..Len(kept) : ~kept[i].mine
      /\ manager = <<>> => Len(kept) = 0
  <2>1. CASE Len(manager) >= MaxSessions
    <3>1. manager # <<>>
      BY <1>3, <2>1
    <3>2. kept = Tail(manager) /\ kept \in Seq(Sessions) /\ Len(kept) = Len(manager) - 1
          /\ \A i \in 1..Len(kept) : kept[i] = manager[i + 1]
      BY <1>1, <1>3, <2>1, <3>1
    <3>3. \A i \in 1..Len(kept) : i + 1 \in 1..Len(manager)
      BY <1>3, <3>2
    <3> QED BY <1>3, <3>1, <3>2, <3>3
  <2>2. CASE ~(Len(manager) >= MaxSessions)
    <3>1. kept = manager /\ Len(kept) + 1 <= MaxSessions
      BY <1>1, <1>3, <2>2
    <3> QED BY <1>3, <3>1
  <2> QED BY <2>1, <2>2
<1>5. /\ Append(kept, s) \in Seq(Sessions) /\ Len(Append(kept, s)) = Len(kept) + 1
      /\ Append(kept, s)[Len(kept) + 1] = s
      /\ \A i \in 1..Len(kept) : Append(kept, s)[i] = kept[i]
  BY <1>4
<1>6. \A i \in 1..Len(kept) + 1 : i # Len(kept) + 1 => i \in 1..Len(kept)
  BY <1>4
<1> QED BY <1>2, <1>4, <1>5, <1>6

\* Opening the session finds the conversation wherever it is.
LEMMA OpenedIs ==
    ASSUME SessInv, pc \in {"boot", "idle"}, NEW o \in Opened
    PROVE  /\ o[1] \in Seq(Sessions) /\ Len(o[1]) <= MaxSessions
           /\ o[2] \in 1..Len(o[1])
           /\ \A i \in 1..Len(o[1]) : o[1][i].mine => i = o[2]
           /\ ~torn => Ends(o[1][o[2]].history, conv, MaxHistory)
           /\ ~torn /\ ~o[1][o[2]].mine => conv = savedConv
           /\ ~split => Len(o[1]) <= 1 /\ o[1][o[2]].mine
<1>0. TypeOK /\ Hand /\ ConvKept /\ FilesAgree
  BY DEF SessInv
<1>1. CASE HasMine
  <2>1. PICK i \in 1..Len(manager) : manager[i].mine /\ \A j \in 1..Len(manager) : manager[j].mine => j = i
    BY <1>0, <1>1, SessionIs DEF HasMine, Hand
  <2>2. {j \in DOMAIN manager : manager[j].mine} = {i}
    BY <1>0, <2>1, SessionIs
  <2>3. o = <<manager, i>>
    <3>1. (CHOOSE k \in {i} : \A j \in {i} : k <= j) = i
      BY <2>1
    <3> QED BY <2>2, <3>1 DEF Opened
  <2>4. ~split => Len(manager) <= 1
    BY <1>0 DEF FilesAgree
  <2>5. ~torn => Ends(manager[i].history, conv, MaxHistory)
    BY <1>0, <2>1 DEF ConvKept
  <2> QED BY <1>0, <2>1, <2>3, <2>4, <2>5, SessionIs DEF TypeOK
<1>2. CASE ~HasMine /\ onDisk
  <2>1. {j \in DOMAIN manager : manager[j].mine} = {}
    BY <1>2 DEF HasMine
  <2>2. PICK k \in KeyRead : o = Add([mine |-> k, history |-> Readable(file)])
    BY <1>2, <2>1 DEF Opened
  <2>3. k \in BOOLEAN /\ (meta = "mine" => k)
    BY <1>0 DEF KeyRead, TypeOK
  <2>4. Len(file) \in Nat
    BY <1>0 DEF TypeOK
  <2>5. PICK s \in Sessions : s = [mine |-> k, history |-> Readable(file)]
    BY <2>3, <2>4, ReadableType DEF Sessions
  <2>6. s.mine = k /\ s.history = Readable(file)
    BY <2>5
  <2>7. /\ o[1] \in Seq(Sessions) /\ Len(o[1]) <= MaxSessions
        /\ o[2] \in 1..Len(o[1]) /\ o[1][o[2]] = s
        /\ \A i \in 1..Len(o[1]) : i # o[2] => ~o[1][i].mine
        /\ manager = <<>> => Len(o[1]) = 1
    BY <1>0, <1>2, <2>2, <2>5, AddIs
  <2>8. ASSUME ~torn PROVE Ends(s.history, conv, MaxHistory) /\ conv = savedConv
    <3>1. file \in Seq(Messages) /\ Ends(file, savedConv, MaxHistory) /\ conv = savedConv
      BY <1>0, <1>2, <2>8 DEF ConvKept
    <3>2. Readable(file) = file
      BY <3>1, ReadableAll
    <3> QED BY <2>6, <3>1, <3>2
  <2>9. ASSUME ~split PROVE manager = <<>> /\ k
    <3>1. Len(manager) = 0
      BY <1>0, <1>2, <2>9, SessionIs DEF FilesAgree, HasMine
    <3>2. meta = "mine"
      BY <1>0, <1>2, <2>9 DEF FilesAgree
    <3> QED BY <1>0, <2>3, <3>1, <3>2, SessionIs
  <2> QED BY <2>6, <2>7, <2>8, <2>9
<1>3. CASE ~HasMine /\ ~onDisk
  <2>1. {j \in DOMAIN manager : manager[j].mine} = {}
    BY <1>3 DEF HasMine
  <2>2. o = Add([mine |-> TRUE, history |-> <<>>])
    BY <1>3, <2>1 DEF Opened
  <2>3. <<>> \in Seq(Messages)
    OBVIOUS
  <2>4. PICK s \in Sessions : s = [mine |-> TRUE, history |-> <<>>]
    BY <2>3 DEF Sessions
  <2>5. s.mine /\ s.history = <<>>
    BY <2>4
  <2>6. /\ o[1] \in Seq(Sessions) /\ Len(o[1]) <= MaxSessions
        /\ o[2] \in 1..Len(o[1]) /\ o[1][o[2]] = s
        /\ \A i \in 1..Len(o[1]) : i # o[2] => ~o[1][i].mine
        /\ manager = <<>> => Len(o[1]) = 1
    BY <1>0, <1>3, <2>2, <2>4, AddIs
  <2>7. ASSUME ~torn PROVE Ends(s.history, conv, MaxHistory)
    <3>1. file = <<>> /\ Ends(file, savedConv, MaxHistory) /\ conv = savedConv
      BY <1>0, <1>3, <2>7 DEF ConvKept
    <3> QED BY <2>5, <3>1
  <2>8. ASSUME ~split PROVE manager = <<>>
    <3>1. Len(manager) = 0
      BY <1>0, <1>3, <2>8, SessionIs DEF FilesAgree, HasMine
    <3> QED BY <1>0, <3>1, SessionIs
  <2> QED BY <2>5, <2>6, <2>7, <2>8
<1> QED BY <1>1, <1>2, <1>3
-----------------------------------------------------------------------------
(* Every step keeps the invariant. *)

\* One session's history is replaced.
WithHistory(ms, c, h) == [ms EXCEPT ![c].history = h]
SameMine(ms, r) == \A i \in 1..Len(ms) : r[i].mine = ms[i].mine

LEMMA HistorySet ==
    ASSUME NEW ms \in Seq(Sessions), NEW c \in 1..Len(ms), NEW h \in Seq(Messages),
           NEW r, r = WithHistory(ms, c, h)
    PROVE  /\ r \in Seq(Sessions) /\ Len(r) = Len(ms)
           /\ r[c].history = h
           /\ SameMine(ms, r)
<1>1. /\ ms \in [1..Len(ms) -> Sessions] /\ Len(ms) \in Nat
      /\ \A i \in 1..Len(ms) : ms[i] \in Sessions
  BY LenProperties, ElementOfSeq
<1>2. PICK s \in Sessions : s = [ms[c] EXCEPT !.history = h]
  <2>1. ms[c] \in Sessions
    BY <1>1
  <2> QED BY <2>1 DEF Sessions
<1>3. s.history = h /\ s.mine = ms[c].mine
  BY <1>1, <1>2 DEF Sessions
<1>4. r = [ms EXCEPT ![c] = s]
  BY <1>2 DEF WithHistory
<1>5. r \in [1..Len(ms) -> Sessions] /\ r[c] = s /\ \A i \in 1..Len(ms) : i # c => r[i] = ms[i]
  BY <1>1, <1>4
<1>6. r \in Seq(Sessions) /\ Len(r) = Len(ms)
  <2>1. r \in Seq(Sessions)
    BY <1>1, <1>5, SeqDef
  <2> QED BY <1>1, <1>5, <2>1
<1>7. \A i \in 1..Len(ms) : r[i].mine = ms[i].mine
  BY <1>3, <1>5
<1> QED BY <1>3, <1>5, <1>6, <1>7 DEF SameMine

\* No conversation is what any history ends with.
LEMMA EndsNothing ==
    ASSUME NEW s, NEW n
    PROVE  Ends(s, <<>>, n)
<1>1. Len(<<>>) = 0
  OBVIOUS
<1>2. \A k \in 0..n-1 : ~(k < Len(<<>>))
  BY <1>1
<1> QED BY <1>2 DEF Ends

LEMMA SessInit == ASSUME Init PROVE SessInv
<1>1. TypeOK
  <2>1. \A S : <<>> \in Seq(S)
    OBVIOUS
  <2>2. manager = <<>> /\ Len(manager) = 0 /\ cur = 0 /\ context = <<>> /\ round = 0 /\ file = <<>>
    BY DEF Init
  <2>3. 0 \in 0..MaxIterations /\ 0 \in 0..MaxMessages /\ 0 \in 0..MaxCrashes
        /\ 0 <= MaxSessions /\ 0 \in 0..0
    BY Parameters
  <2>4. added = 0 /\ crashes = 0 /\ conv = <<>> /\ saved = <<>> /\ savedConv = <<>> /\ pc = "boot"
        /\ meta = "none" /\ ~onDisk /\ ~openLine /\ ~torn /\ ~split
        /\ onDisk = FALSE /\ openLine = FALSE /\ torn = FALSE /\ split = FALSE
    BY DEF Init
  <2>5. {conv, saved, savedConv} \subseteq Seq(Messages)
    BY <2>1, <2>4
  <2> QED BY <2>1, <2>2, <2>3, <2>4, <2>5 DEF TypeOK
<1>2. Hand
  BY DEF Init, Hand
<1>3. ConvKept
  <2>1. <<>> \in Seq(Messages) /\ 1..Len(<<>>) = {}
    OBVIOUS
  <2> QED BY <2>1, EndsNothing DEF Init, ConvKept
<1>4. FilesAgree
  BY DEF Init, FilesAgree
<1> QED BY <1>1, <1>2, <1>3, <1>4 DEF SessInv

\* A loaded session may be under another key: it then holds what was saved.
LEMMA BootKeeps == ASSUME SessInv, Boot PROVE SessInv'
<1>0. TypeOK /\ Hand /\ ConvKept /\ FilesAgree /\ pc = "boot" /\ pc' = "idle"
  BY DEF SessInv, Boot
<1>u. UNCHANGED <<cur, context, round, file, onDisk, openLine, meta, added, crashes,
                  conv, saved, savedConv, torn, split>>
  BY DEF Boot, diskVars, historyVars
<1>1. PICK o \in Opened : manager' = o[1]
  BY DEF Boot
<1>2. /\ o[1] \in Seq(Sessions) /\ Len(o[1]) <= MaxSessions
      /\ o[2] \in 1..Len(o[1])
      /\ \A i \in 1..Len(o[1]) : o[1][i].mine => i = o[2]
      /\ ~torn => Ends(o[1][o[2]].history, conv, MaxHistory)
      /\ ~torn /\ ~o[1][o[2]].mine => conv = savedConv
      /\ ~split => Len(o[1]) <= 1 /\ o[1][o[2]].mine
  BY <1>0, OpenedIs
<1>3. Len(o[1]) \in Nat /\ DOMAIN o[1] = 1..Len(o[1])
  BY <1>2, LenProperties
<1>4. TypeOK'
  <2>1. cur' = 0 /\ cur' \in 0..Len(manager')
    BY <1>0, <1>1, <1>3, <1>u DEF Hand
  <2> QED BY <1>0, <1>1, <1>2, <1>u, <2>1 DEF TypeOK, Sessions
<1>5. Hand'
  BY <1>0, <1>1, <1>2 DEF Hand
<1>6. ConvKept'
  <2>1. ~HasMine' => ~o[1][o[2]].mine
    BY <1>1, <1>2, <1>3 DEF HasMine
  <2> QED BY <1>0, <1>1, <1>2, <1>u, <2>1 DEF ConvKept
<1>7. FilesAgree'
  <2>1. ASSUME ~split PROVE \A i \in 1..Len(o[1]) : o[1][i].mine
    BY <1>2, <1>3, <2>1
  <2> QED BY <1>0, <1>1, <1>2, <1>u, <2>1 DEF FilesAgree
<1> QED BY <1>4, <1>5, <1>6, <1>7 DEF SessInv
\* The new message follows the conversation in the session and in the context,
\* and the trimming leaves enough of it.
LEMMA ReceiveKeeps == ASSUME SessInv, Receive PROVE SessInv'
<1>0. /\ TypeOK /\ Hand /\ ConvKept /\ FilesAgree /\ pc = "idle" /\ pc' = "model"
      /\ added < MaxMessages /\ added' = added + 1 /\ round' = 1 /\ conv' = Append(conv, added')
  BY DEF SessInv, Receive
<1>u. UNCHANGED <<file, onDisk, openLine, meta, crashes, saved, savedConv, torn, split>>
  BY DEF Receive, diskVars
<1>1. PICK o \in Opened :
        LET h == Trim(Append(o[1][o[2]].history, added'))
        IN  /\ manager' = [o[1] EXCEPT ![o[2]].history = h]
            /\ cur' = o[2]
            /\ context' = LastOf(h, ContextLimit)
  BY DEF Receive
<1>2. /\ o[1] \in Seq(Sessions) /\ Len(o[1]) <= MaxSessions
      /\ o[2] \in 1..Len(o[1])
      /\ \A i \in 1..Len(o[1]) : o[1][i].mine => i = o[2]
      /\ ~torn => Ends(o[1][o[2]].history, conv, MaxHistory)
      /\ ~split => Len(o[1]) <= 1 /\ o[1][o[2]].mine
  BY <1>0, OpenedIs
<1>3. PICK x : x = added + 1
  OBVIOUS
<1>4. x \in Messages /\ x \in 0..MaxMessages /\ x = added'
  BY <1>0, <1>3, Parameters DEF Messages, TypeOK
<1>5. PICK hist \in Seq(Messages) : hist = o[1][o[2]].history
  <2>1. o[1][o[2]] \in Sessions
    BY <1>2, ElementOfSeq
  <2> QED BY <2>1 DEF Sessions
<1>6. PICK c \in Seq(Messages) : c = conv
  BY <1>0 DEF TypeOK
<1>7. PICK h : h = LastOf(Append(hist, x), MaxHistory)
  OBVIOUS
<1>8. /\ manager' = [o[1] EXCEPT ![o[2]].history = h] /\ cur' = o[2]
      /\ context' = LastOf(h, ContextLimit)
  BY <1>1, <1>4, <1>5, <1>7 DEF Trim
<1> HIDE DEF Messages
<1>9. /\ Append(hist, x) \in Seq(Messages) /\ Append(hist, x) = hist \o <<x>>
      /\ Append(c, x) \in Seq(Messages) /\ Append(c, x) = c \o <<x>>
      /\ <<x>> \in Seq(Messages) /\ Len(Append(hist, x)) = Len(hist) + 1 /\ Len(hist) \in Nat
  BY <1>4, AppendIsConcat
<1>10. h \in Seq(Messages) /\ h # <<>>
  <2>1. h \in Seq(Messages) /\ Len(h) = IF Len(hist) + 1 <= MaxHistory THEN Len(hist) + 1 ELSE MaxHistory
    BY <1>7, <1>9, LastOfIs, Parameters
  <2>2. Len(h) # 0
    BY <1>9, <2>1, Parameters
  <2> QED BY <2>1, <2>2
<1>11. ASSUME ~torn PROVE Ends(h, Append(c, x), MaxHistory)
  <2>1. Ends(hist, c, MaxHistory)
    BY <1>2, <1>5, <1>6, <1>11
  <2>2. Ends(Append(hist, x), Append(c, x), MaxHistory)
    BY <1>9, <2>1, EndsAppend, Parameters
  <2>3. MaxHistory <= MaxHistory
    BY Parameters
  <2> QED BY <1>7, <1>9, <2>2, <2>3, EndsLastOf, Parameters
<1>12. ASSUME ~torn PROVE Ends(LastOf(h, ContextLimit), Append(c, x), Limit)
  <2>1. Ends(h, Append(c, x), Limit)
    BY <1>9, <1>10, <1>11, <1>12, EndsLess, Parameters
  <2> QED BY <1>9, <1>10, <2>1, EndsLastOf, Parameters
<1>13. PICK r : r = manager'
  OBVIOUS
<1>14. /\ r \in Seq(Sessions) /\ Len(r) = Len(o[1]) /\ r[o[2]].history = h
       /\ \A i \in 1..Len(o[1]) : r[i].mine = o[1][i].mine
  <2>1. PICK ms \in Seq(Sessions) : ms = o[1]
    BY <1>2
  <2>2. PICK i \in 1..Len(ms) : i = o[2]
    BY <1>2, <2>1
  <2>3. r = WithHistory(ms, i, h)
    BY <1>8, <1>13, <2>1, <2>2 DEF WithHistory
  <2>4. /\ r \in Seq(Sessions) /\ Len(r) = Len(ms) /\ r[i].history = h
        /\ SameMine(ms, r)
    BY <1>10, <2>3, HistorySet
  <2> QED BY <2>1, <2>2, <2>4 DEF SameMine
<1>15. LastOf(h, ContextLimit) \in Seq(Messages \cup {Freed})
  <2>1. LastOf(h, ContextLimit) \in Seq(Messages)
    BY <1>10, LastOfIs, Parameters
  <2> QED BY <2>1, SeqMonotonic
<1>16. TypeOK'
  <2>1. cur' \in 0..Len(r) /\ round' \in 0..MaxIterations
    BY <1>0, <1>2, <1>8, <1>14, Parameters
  <2>2. {conv', saved', savedConv'} \subseteq Seq(Messages)
    BY <1>0, <1>4, <1>6, <1>9, <1>u DEF TypeOK
  <2>3. added' \in 0..MaxMessages /\ pc' \in {"boot", "idle", "model", "save", "meta"}
    BY <1>0, <1>4
  <2> QED BY <1>0, <1>2, <1>8, <1>13, <1>14, <1>15, <1>u, <2>1, <2>2, <2>3 DEF TypeOK, Sessions
<1>17. Hand'
  <2>1. /\ o[2] \in 1..Len(r)
        /\ \A i \in 1..Len(r) : r[i].mine => i = o[2]
    BY <1>2, <1>14
  <2> QED BY <1>0, <1>8, <1>13, <2>1 DEF Hand
<1>18. ConvKept'
  <2> SUFFICES ASSUME ~torn' PROVE ConvKept'
    BY DEF ConvKept
  <2>0. ~torn
    BY <1>u
  <2>1. ~openLine' /\ file' \in Seq(Messages) /\ (~onDisk' => file' = <<>>)
        /\ Ends(file, savedConv, MaxHistory)
    BY <1>0, <1>u, <2>0 DEF ConvKept
  <2>2. conv' = Append(c, x)
    BY <1>0, <1>4, <1>6
  <2>3. \A i \in 1..Len(r) : r[i].mine => r[i].history = h
    BY <1>2, <1>14
  <2>4. Ends(h, conv', MaxHistory) /\ Ends(context', conv', Limit)
    BY <1>8, <1>11, <1>12, <2>0, <2>2
  <2> QED BY <1>0, <1>8, <1>10, <1>13, <1>14, <1>u, <2>1, <2>3, <2>4 DEF ConvKept
<1>19. FilesAgree'
  <2>1. ASSUME ~split PROVE Len(r) <= 1 /\ \A i \in 1..Len(r) : r[i].mine
    <3>1. Len(r) \in Nat /\ Len(r) <= 1 /\ o[2] \in 1..Len(r) /\ r[o[2]].mine
      BY <1>2, <1>14, <2>1, LenProperties
    <3>2. \A i \in 1..Len(r) : i = o[2]
      BY <3>1
    <3> QED BY <3>1, <3>2
  <2> QED BY <1>0, <1>13, <1>u, <2>1 DEF FilesAgree
<1> QED BY <1>16, <1>17, <1>18, <1>19 DEF SessInv

\* The same messages follow in the session, the context and the conversation.
LEMMA ExtendKeeps ==
    ASSUME SessInv, pc = "model", pc' \in {"model", "save"}, NEW n \in Nat \ {0}, Extend(n),
           round' \in 0..MaxIterations,
           UNCHANGED <<cur, diskVars, crashes, saved, savedConv, torn, split>>
    PROVE  SessInv'
<1>0. /\ TypeOK /\ Hand /\ ConvKept /\ FilesAgree
      /\ UNCHANGED <<cur, file, onDisk, openLine, meta, crashes, saved, savedConv, torn, split>>
  BY DEF SessInv, diskVars
<1>1. PICK new : new = [i \in 1..n |-> added + i]
  OBVIOUS
<1>2. /\ added + n <= MaxMessages /\ added' = added + n
      /\ manager' = [manager EXCEPT ![cur].history = @ \o new]
      /\ context' = context \o new /\ conv' = conv \o new
  BY <1>1 DEF Extend
<1>3. added \in Nat /\ added + n \in 0..MaxMessages /\ \A i \in 1..n : added + i \in Messages
  <2>1. added \in Nat
    BY <1>0 DEF TypeOK
  <2> QED BY <1>2, <2>1, Parameters DEF Messages
<1>4. new \in Seq(Messages) /\ Len(new) = n
  <2>1. new \in [1..n -> Messages]
    BY <1>1, <1>3
  <2>2. new \in Seq(Messages)
    BY <2>1, SeqDef
  <2> QED BY <2>1, <2>2
<1> HIDE DEF Messages
<1>5. /\ cur \in 1..Len(manager) /\ \A i \in 1..Len(manager) : manager[i].mine => i = cur
  BY <1>0 DEF Hand
<1>6. PICK hist \in Seq(Messages) : hist = manager[cur].history
  BY <1>0, <1>5, SessionIs
<1>7. PICK c \in Seq(Messages) : c = conv
  BY <1>0 DEF TypeOK
<1>8. PICK x \in Seq(Messages \cup {Freed}) : x = context
  BY <1>0 DEF TypeOK
<1>9. PICK ms \in Seq(Sessions) : ms = manager
  BY <1>0, SessionIs
<1>10. new \in Seq(Messages \cup {Freed}) /\ c \in Seq(Messages \cup {Freed})
  BY <1>4, SeqMonotonic
<1>11. /\ hist \o new \in Seq(Messages) /\ c \o new \in Seq(Messages)
       /\ x \o new \in Seq(Messages \cup {Freed}) /\ hist \o new # <<>>
  <2>0. Len(hist \o new) = Len(hist) + Len(new)
    BY <1>4, ConcatProperties
  <2>1. Len(hist \o new) = Len(hist) + n /\ Len(hist) \in Nat /\ n > 0
    BY <1>4, <2>0, LenProperties
  <2>2. Len(hist \o new) # 0
    BY <2>1
  <2> QED BY <1>4, <1>10, <2>2
<1>12. PICK r : r = manager'
  OBVIOUS
<1>13. /\ r \in Seq(Sessions) /\ Len(r) = Len(ms) /\ r[cur].history = hist \o new
       /\ \A i \in 1..Len(ms) : r[i].mine = ms[i].mine
  <2>1. r = [ms EXCEPT ![cur].history = hist \o new]
    BY <1>2, <1>6, <1>9, <1>12
  <2>2. PICK h \in Seq(Messages) : h = hist \o new
    BY <1>11
  <2>3. PICK i \in 1..Len(ms) : i = cur
    BY <1>5, <1>9
  <2>4. r = WithHistory(ms, i, h)
    BY <2>1, <2>2, <2>3 DEF WithHistory
  <2>5. /\ r \in Seq(Sessions) /\ Len(r) = Len(ms) /\ r[i].history = h
        /\ SameMine(ms, r)
    BY <2>4, HistorySet
  <2> QED BY <2>2, <2>3, <2>5 DEF SameMine
<1>14. TypeOK'
  <2>1. {conv', saved', savedConv'} \subseteq Seq(Messages)
    BY <1>0, <1>2, <1>7, <1>11 DEF TypeOK
  <2>2. /\ added' \in 0..MaxMessages /\ pc' \in {"boot", "idle", "model", "save", "meta"}
        /\ context' \in Seq(Messages \cup {Freed})
    BY <1>2, <1>3, <1>8, <1>11
  <2> QED BY <1>0, <1>9, <1>12, <1>13, <2>1, <2>2 DEF TypeOK, Sessions
<1>15. Hand'
  <2>1. cur \in 1..Len(r) /\ \A i \in 1..Len(r) : r[i].mine => i = cur
    BY <1>5, <1>9, <1>13
  <2> QED BY <1>0, <1>12, <2>1 DEF Hand
<1>16. ConvKept'
  <2> SUFFICES ASSUME ~torn' PROVE ConvKept'
    BY DEF ConvKept
  <2>0. ~torn
    BY <1>0
  <2>1. ~openLine' /\ file' \in Seq(Messages) /\ (~onDisk' => file' = <<>>)
        /\ Ends(file, savedConv, MaxHistory)
    BY <1>0, <2>0 DEF ConvKept
  <2>2. Ends(hist, c, MaxHistory) /\ Ends(x, c, Limit)
    BY <1>0, <1>6, <1>7, <1>8, <2>0 DEF ConvKept
  <2>3. Ends(hist \o new, c \o new, MaxHistory)
    BY <1>4, <2>2, EndsAppend, Parameters
  <2>4. Ends(x \o new, c \o new, Limit)
    BY <1>10, <2>2, EndsAppend, Parameters
  <2>5. Ends(r[cur].history, conv', MaxHistory) /\ Ends(context', conv', Limit)
    BY <1>2, <1>7, <1>8, <1>13, <2>3, <2>4
  <2>6. \A i \in 1..Len(r) : r[i].mine => i = cur
    BY <1>5, <1>9, <1>13
  <2> QED BY <1>0, <1>11, <1>12, <1>13, <2>1, <2>5, <2>6 DEF ConvKept
<1>17. FilesAgree'
  <2>1. ASSUME ~split PROVE Len(r) <= 1 /\ \A i \in 1..Len(r) : r[i].mine
    BY <1>0, <1>9, <1>13, <2>1 DEF FilesAgree
  <2> QED BY <1>0, <1>12, <2>1 DEF FilesAgree
<1> QED BY <1>14, <1>15, <1>16, <1>17 DEF SessInv
LEMMA ReplyKeeps == ASSUME SessInv, Reply PROVE SessInv'
<1>1. /\ pc = "model" /\ Extend(1) /\ pc' = "save" /\ round \in 0..MaxIterations
      /\ UNCHANGED <<cur, round, diskVars, crashes, saved, savedConv, torn, split>>
  BY DEF Reply, SessInv, TypeOK
<1>2. 1 \in Nat \ {0}
  OBVIOUS
<1>3. round' \in 0..MaxIterations
  BY <1>1
<1> QED BY <1>1, <1>2, <1>3, ExtendKeeps

LEMMA ToolRoundKeeps == ASSUME SessInv, ToolRound PROVE SessInv'
<1>1. /\ pc = "model" /\ round \in 0..MaxIterations
      /\ UNCHANGED <<cur, diskVars, crashes, saved, savedConv, torn, split>>
      /\ IF round < MaxIterations THEN round' = round + 1 /\ UNCHANGED pc
         ELSE pc' = "save" /\ UNCHANGED round
  BY DEF ToolRound, SessInv, TypeOK
<1>2. PICK n \in 1..MaxTools : Extend(1 + n)
  BY DEF ToolRound
<1>3. 1 + n \in Nat \ {0}
  BY Parameters
<1>4. pc' \in {"model", "save"} /\ round' \in 0..MaxIterations
  <2>1. CASE round < MaxIterations
    BY <1>1, <2>1, Parameters
  <2>2. CASE ~(round < MaxIterations)
    BY <1>1, <2>2, Parameters
  <2> QED BY <2>1, <2>2
<1> QED BY <1>1, <1>2, <1>3, <1>4, ExtendKeeps

LEMMA ModelFailsKeeps == ASSUME SessInv, ModelFails PROVE SessInv'
<1>1. /\ pc = "model" /\ pc' = "save" /\ TypeOK /\ Hand /\ ConvKept /\ FilesAgree
      /\ UNCHANGED <<manager, cur, context, round, file, onDisk, openLine, meta, added,
                     crashes, conv, saved, savedConv, torn, split>>
  BY DEF ModelFails, SessInv, diskVars, historyVars
<1>2. TypeOK'
  BY <1>1 DEF TypeOK
<1>3. Hand'
  BY <1>1 DEF Hand
<1>4. ConvKept'
  BY <1>1 DEF ConvKept, HasMine
<1>5. FilesAgree'
  BY <1>1 DEF FilesAgree
<1> QED BY <1>2, <1>3, <1>4, <1>5 DEF SessInv

\* More lines make no file empty; they follow what is there, unless a line is open.
LEMMA WrittenIs ==
    ASSUME TypeOK, NEW lines \in Seq(Messages \cup {Torn})
    PROVE  /\ Written(lines) \in Seq(Messages \cup {Torn})
           /\ ~openLine => Written(lines) = file \o lines
           /\ lines = <<>> => Written(lines) = file
           /\ lines # <<>> => Written(lines) # <<>>
<1> HIDE DEF Messages
<1>1. PICK f \in Seq(Messages \cup {Torn}) : f = file
  BY DEF TypeOK
<1>2. openLine => f # <<>>
  BY <1>1 DEF TypeOK
<1>3. CASE ~(openLine /\ lines # <<>>)
  <2>1. Written(lines) = f \o lines
    BY <1>1, <1>3 DEF Written
  <2>2. f \o lines \in Seq(Messages \cup {Torn}) /\ Len(f \o lines) = Len(f) + Len(lines)
        /\ Len(f) \in Nat /\ Len(lines) \in Nat
    BY ConcatProperties, LenProperties
  <2>3. lines # <<>> => Len(lines) # 0
    BY EmptySeq
  <2>4. lines # <<>> => Len(f \o lines) # 0
    BY <2>2, <2>3
  <2>5. lines # <<>> => f \o lines # <<>>
    BY <2>4, EmptySeq
  <2>6. lines = <<>> => f \o lines = f
    BY ConcatEmptySeq
  <2> QED BY <1>1, <2>1, <2>2, <2>5, <2>6
<1>4. CASE openLine /\ lines # <<>>
  <2>1. PICK a : a = Front(f)
    OBVIOUS
  <2>2. PICK b : b = Tail(lines)
    OBVIOUS
  <2>3. a \in Seq(Messages \cup {Torn})
    <3>1. f # <<>> /\ Len(f) \in Nat
      BY <1>2, <1>4, LenProperties
    <3>2. \A i \in 1..Len(f)-1 : f[i] \in Messages \cup {Torn}
      BY <3>1
    <3> QED BY <2>1, <3>1, <3>2 DEF Front
  <2>4. b \in Seq(Messages \cup {Torn})
    BY <1>4, <2>2
  <2>5. Written(lines) = (a \o <<Torn>>) \o b
    BY <1>1, <1>4, <2>1, <2>2 DEF Written
  <2>6. <<Torn>> \in Seq(Messages \cup {Torn}) /\ Len(<<Torn>>) = 1
    OBVIOUS
  <2>7. a \o <<Torn>> \in Seq(Messages \cup {Torn}) /\ Len(a \o <<Torn>>) = Len(a) + 1
    BY <2>3, <2>6, ConcatProperties
  <2>8. (a \o <<Torn>>) \o b \in Seq(Messages \cup {Torn})
        /\ Len((a \o <<Torn>>) \o b) = Len(a \o <<Torn>>) + Len(b)
    BY <2>4, <2>7, ConcatProperties
  <2>9. Len((a \o <<Torn>>) \o b) # 0
    BY <2>3, <2>4, <2>7, <2>8, LenProperties
  <2>10. (a \o <<Torn>>) \o b # <<>>
    BY <2>9, EmptySeq
  <2> QED BY <1>4, <2>5, <2>8, <2>10
<1> QED BY <1>3, <1>4

\* What is appended to the file is the history, which ends with the conversation.
LEMMA SaveHistoryKeeps == ASSUME SessInv, SaveHistory PROVE SessInv'
<1>0. /\ TypeOK /\ Hand /\ ConvKept /\ FilesAgree /\ pc = "save"
      /\ UNCHANGED <<manager, cur, context, round, meta, added, crashes, conv, torn, split>>
  BY DEF SessInv, SaveHistory
<1>1. cur \in 1..Len(manager) /\ manager[cur].history \in Seq(Messages)
  BY <1>0, SessionIs DEF Hand
<1>2. PICK h \in Seq(Messages) : h = manager[cur].history
  BY <1>1
<1> HIDE DEF Messages
<1>3. CASE h = <<>>
  <2>1. pc' = "idle" /\ UNCHANGED <<file, onDisk, openLine, saved, savedConv>>
    BY <1>2, <1>3 DEF SaveHistory
  <2>2. TypeOK'
    BY <1>0, <2>1 DEF TypeOK
  <2>3. Hand'
    BY <1>0, <2>1 DEF Hand
  <2>4. ConvKept'
    BY <1>0, <1>2, <1>3, <2>1 DEF ConvKept, HasMine
  <2>5. FilesAgree'
    BY <1>0, <2>1 DEF FilesAgree
  <2> QED BY <2>2, <2>3, <2>4, <2>5 DEF SessInv
<1>4. CASE h # <<>>
  <2>1. /\ file' = Written(h) /\ onDisk' = TRUE /\ openLine' = FALSE /\ saved' = h
        /\ savedConv' = conv /\ pc' = "meta"
    BY <1>2, <1>4 DEF SaveHistory
  <2>2. h \in Seq(Messages \cup {Torn})
    BY SeqMonotonic
  <2>3. Written(h) \in Seq(Messages \cup {Torn}) /\ (~openLine => Written(h) = file \o h)
    BY <1>0, <2>2, WrittenIs
  <2>4. TypeOK'
    <3>1. {conv', saved', savedConv'} \subseteq Seq(Messages)
      BY <1>0, <2>1 DEF TypeOK
    <3> QED BY <1>0, <2>1, <2>3, <3>1 DEF TypeOK
  <2>5. Hand'
    BY <1>0, <2>1 DEF Hand
  <2>6. ConvKept'
    <3> SUFFICES ASSUME ~torn' PROVE ConvKept'
      BY DEF ConvKept
    <3>0. ~torn
      BY <1>0
    <3>1. PICK f \in Seq(Messages) : f = file
      BY <1>0, <3>0 DEF ConvKept
    <3>2. PICK c \in Seq(Messages) : c = conv
      BY <1>0 DEF TypeOK
    <3>3. file' = f \o h /\ f \o h \in Seq(Messages)
      BY <1>0, <2>1, <2>3, <3>0, <3>1, ConcatProperties DEF ConvKept
    <3>4. Ends(h, c, MaxHistory)
      BY <1>0, <1>2, <3>0, <3>2 DEF ConvKept
    <3>5. Ends(f \o h, c, MaxHistory)
      BY <3>4, EndsBefore, Parameters
    <3>6. Ends(file', savedConv', MaxHistory) /\ conv' = savedConv'
      BY <1>0, <2>1, <3>2, <3>3, <3>5
    <3>7. \A i \in 1..Len(manager) : manager[i].mine => Ends(manager[i].history, conv, MaxHistory)
      BY <1>0, <3>0 DEF ConvKept
    <3> QED BY <1>0, <2>1, <3>3, <3>6, <3>7 DEF ConvKept
  <2>7. FilesAgree'
    BY <1>0, <2>1 DEF FilesAgree
  <2> QED BY <2>4, <2>5, <2>6, <2>7 DEF SessInv
<1> QED BY <1>3, <1>4

LEMMA SaveMetadataKeeps == ASSUME SessInv, SaveMetadata PROVE SessInv'
<1>0. /\ TypeOK /\ Hand /\ ConvKept /\ FilesAgree /\ pc = "meta" /\ pc' = "idle"
      /\ meta' = (IF meta # "none" THEN meta ELSE IF manager[cur].mine THEN "mine" ELSE "other")
      /\ UNCHANGED <<manager, cur, context, round, file, onDisk, openLine, added,
                     crashes, conv, saved, savedConv, torn, split>>
  BY DEF SessInv, SaveMetadata, historyVars
<1>1. TypeOK'
  BY <1>0 DEF TypeOK
<1>2. Hand'
  BY <1>0 DEF Hand
<1>3. ConvKept'
  BY <1>0 DEF ConvKept, HasMine
<1>4. FilesAgree'
  <2>1. cur \in 1..Len(manager)
    BY <1>0 DEF Hand
  <2>2. ~split => manager[cur].mine /\ meta # "other"
    BY <1>0, <2>1 DEF FilesAgree
  <2>3. ~split => meta' = "mine"
    BY <1>0, <2>2 DEF TypeOK
  <2> QED BY <1>0, <2>3 DEF FilesAgree
<1> QED BY <1>1, <1>2, <1>3, <1>4 DEF SessInv
\* Nothing of the conversation is left, and any history ends with that.
LEMMA ClearKeeps == ASSUME SessInv, Clear PROVE SessInv'
<1>0. /\ TypeOK /\ Hand /\ ConvKept /\ FilesAgree /\ conv' = <<>> /\ pc # "boot"
      /\ context' = [i \in DOMAIN context |-> Freed]
      /\ UNCHANGED <<cur, round, pc, file, onDisk, openLine, meta, added, crashes, saved,
                     savedConv, torn, split>>
  BY DEF SessInv, Clear, diskVars
<1>1. PICK ms \in Seq(Sessions) : ms = manager
  BY <1>0, SessionIs
<1>2. PICK i \in 1..Len(ms) : ms[i].mine /\ manager' = [manager EXCEPT ![i].history = <<>>]
  BY <1>0, <1>1, SessionIs DEF Clear
<1>3. PICK h \in Seq(Messages) : h = <<>>
  <2>1. <<>> \in Seq(Messages)
    BY EmptySeq
  <2> QED BY <2>1
<1>4. PICK r : r = manager'
  OBVIOUS
<1>5. r = WithHistory(ms, i, h)
  BY <1>1, <1>2, <1>3, <1>4 DEF WithHistory
<1>6. r \in Seq(Sessions) /\ Len(r) = Len(ms) /\ r[i].history = h /\ SameMine(ms, r)
  BY <1>5, HistorySet
<1>7. /\ i \in 1..Len(r) /\ r[i].mine /\ DOMAIN r = 1..Len(r)
      /\ \A j \in 1..Len(r) : r[j].mine = ms[j].mine
  BY <1>2, <1>6, LenProperties DEF SameMine
<1>8. TypeOK'
  <2>1. context' \in Seq(Messages \cup {Freed})
    <3>1. Len(context) \in Nat /\ DOMAIN context = 1..Len(context)
      BY <1>0, LenProperties DEF TypeOK
    <3>2. context' \in [1..Len(context) -> Messages \cup {Freed}]
      BY <1>0, <3>1
    <3> QED BY <3>1, <3>2, SeqDef
  <2>2. {conv', saved', savedConv'} \subseteq Seq(Messages)
    BY <1>0, <1>3 DEF TypeOK
  <2> QED BY <1>0, <1>1, <1>4, <1>6, <2>1, <2>2 DEF TypeOK, Sessions
<1>9. Hand'
  <2>1. \A j \in 1..Len(ms) : r[j].mine = ms[j].mine
    BY <1>6 DEF SameMine
  <2>2. \A j, k \in 1..Len(ms) : ms[j].mine /\ ms[k].mine => j = k
    BY <1>0, <1>1 DEF Hand
  <2>3. pc \in {"model", "save", "meta"} =>
          cur \in 1..Len(ms) /\ \A j \in 1..Len(ms) : ms[j].mine => j = cur
    BY <1>0, <1>1 DEF Hand
  <2>4. \A j, k \in 1..Len(r) : r[j].mine /\ r[k].mine => j = k
    BY <1>6, <2>1, <2>2
  <2>5. pc \in {"model", "save", "meta"} =>
          cur \in 1..Len(r) /\ \A j \in 1..Len(r) : r[j].mine => j = cur
    BY <1>6, <2>1, <2>3
  <2> QED BY <1>0, <1>4, <2>4, <2>5 DEF Hand
<1>10. ConvKept'
  <2> SUFFICES ASSUME ~torn' PROVE ConvKept'
    BY DEF ConvKept
  <2>0. ~torn
    BY <1>0
  <2>1. ~openLine' /\ file' \in Seq(Messages) /\ (~onDisk' => file' = <<>>)
        /\ Ends(file, savedConv, MaxHistory)
    BY <1>0, <2>0 DEF ConvKept
  <2>2. HasMine'
    BY <1>4, <1>7 DEF HasMine
  <2> QED BY <1>0, <2>1, <2>2, EndsNothing DEF ConvKept
<1>11. FilesAgree'
  <2>1. ASSUME ~split PROVE Len(r) <= 1 /\ \A j \in 1..Len(r) : r[j].mine
    BY <1>0, <1>1, <1>6, <1>7, <2>1 DEF FilesAgree
  <2> QED BY <1>0, <1>4, <2>1 DEF FilesAgree
<1> QED BY <1>8, <1>9, <1>10, <1>11 DEF SessInv

\* What is left is the file; the conversation is what the last save had of it.
LEMMA CrashKeeps == ASSUME SessInv, Crash PROVE SessInv'
<1>0. /\ TypeOK /\ Hand /\ ConvKept /\ FilesAgree
      /\ crashes < MaxCrashes /\ crashes' = crashes + 1
      /\ manager' = <<>> /\ cur' = 0 /\ context' = <<>> /\ round' = 0 /\ pc' = "boot"
      /\ conv' = savedConv /\ split' = (split \/ pc \in {"save", "meta"})
      /\ UNCHANGED <<added, saved, savedConv>>
  BY DEF SessInv, Crash
<1>1. /\ file' \in Seq(Messages \cup {Torn}) /\ onDisk' \in BOOLEAN /\ openLine' \in BOOLEAN
      /\ openLine' => file' # <<>>
      /\ meta' \in {"none", "mine", "other"} /\ torn' \in BOOLEAN
      /\ ~torn' => ~torn /\ ~openLine' /\ file' = file /\ (~onDisk' => ~onDisk)
      /\ ~split' => onDisk' = onDisk /\ meta' = meta
  <2>1. CASE UNCHANGED <<diskVars, torn>>
    <3>1. UNCHANGED <<file, onDisk, openLine, meta, torn>>
      BY <2>1 DEF diskVars
    <3>2. ~torn => ~openLine
      BY <1>0 DEF ConvKept
    <3> QED BY <1>0, <3>1, <3>2 DEF TypeOK
  <2>2. CASE /\ pc = "save"
             /\ \E k \in 0..Len(manager[cur].history), half \in BOOLEAN :
                   /\ half => k < Len(manager[cur].history)
                   /\ LET lines == SubSeq(manager[cur].history, 1, k)
                          rest == IF half THEN <<Torn>> ELSE <<>>
                      IN  file' = Written(lines \o rest)
                   /\ openLine' = (half \/ (openLine /\ k = 0))
                   /\ torn' = (torn \/ half \/ k > 0)
             /\ onDisk' = TRUE
             /\ UNCHANGED meta
    <3>1. manager[cur].history \in Seq(Messages)
      BY <1>0, <2>2, SessionIs DEF Hand
    <3>2. PICK h \in Seq(Messages) : h = manager[cur].history
      BY <3>1
    <3>3. PICK k \in 0..Len(h), half \in BOOLEAN :
             /\ file' = Written(SubSeq(h, 1, k) \o (IF half THEN <<Torn>> ELSE <<>>))
             /\ openLine' = (half \/ (openLine /\ k = 0))
             /\ torn' = (torn \/ half \/ k > 0)
      BY <2>2, <3>2
    <3> HIDE DEF Messages
    <3>4. PICK lines : lines = SubSeq(h, 1, k)
      OBVIOUS
    <3>5. PICK rest : rest = IF half THEN <<Torn>> ELSE <<>>
      OBVIOUS
    <3>6. lines \in Seq(Messages) /\ Len(lines) = k /\ k \in Nat
      <4>1. Len(h) \in Nat /\ k \in Nat /\ k <= Len(h)
        BY LenProperties
      <4>2. \A i \in 1..k : h[i] \in Messages
        BY <4>1, ElementOfSeq
      <4> QED BY <3>4, <4>1, <4>2
    <3>7. rest \in Seq(Messages \cup {Torn}) /\ Len(rest) = (IF half THEN 1 ELSE 0)
      BY <3>5
    <3>8. lines \in Seq(Messages \cup {Torn})
      BY <3>6, SeqMonotonic
    <3>9. PICK all \in Seq(Messages \cup {Torn}) : all = lines \o rest
      BY <3>7, <3>8, ConcatProperties
    <3>10. Len(all) = Len(lines) + Len(rest)
      BY <3>7, <3>8, <3>9, ConcatProperties
    <3>11. file' = Written(all)
      BY <3>3, <3>4, <3>5, <3>9
    <3>12. half => all # <<>>
      <4>1. half => Len(all) # 0
        BY <3>6, <3>7, <3>10
      <4> QED BY <4>1, EmptySeq
    <3>13. k = 0 /\ ~half => all = <<>>
      <4>1. k = 0 /\ ~half => Len(all) = 0
        BY <3>6, <3>7, <3>10
      <4> QED BY <4>1, EmptySeq
    <3>14. /\ Written(all) \in Seq(Messages \cup {Torn})
           /\ all = <<>> => Written(all) = file
           /\ all # <<>> => Written(all) # <<>>
      BY <1>0, WrittenIs
    <3>15. openLine => file # <<>>
      BY <1>0 DEF TypeOK
    <3>16. openLine' => file' # <<>>
      BY <3>3, <3>11, <3>12, <3>14, <3>15
    <3>17. ASSUME ~torn' PROVE ~torn /\ ~openLine' /\ file' = file
      <4>1. ~torn /\ ~half /\ k = 0
        <5>1. ~(torn \/ half \/ k > 0)
          BY <3>3, <3>17
        <5> QED BY <3>6, <5>1
      <4>2. ~openLine
        BY <1>0, <4>1 DEF ConvKept
      <4> QED BY <3>3, <3>11, <3>13, <3>14, <4>1, <4>2
    <3>18. onDisk' = TRUE /\ meta' \in {"none", "mine", "other"} /\ split' = TRUE
      BY <1>0, <2>2 DEF TypeOK
    <3>19. torn' \in BOOLEAN /\ openLine' \in BOOLEAN
      BY <3>3
    <3> QED BY <3>11, <3>14, <3>16, <3>17, <3>18, <3>19
  <2>3. CASE /\ pc = "meta" /\ meta' = "none" /\ UNCHANGED <<file, onDisk, openLine, torn>>
    <3>1. ~torn => ~openLine
      BY <1>0 DEF ConvKept
    <3> QED BY <1>0, <2>3, <3>1 DEF TypeOK
  <2> QED BY <2>1, <2>2, <2>3 DEF Crash
<1>2. crashes' \in 0..MaxCrashes
  BY <1>0, Parameters DEF TypeOK
<1>3. <<>> \in Seq(Sessions) /\ Len(<<>>) = 0 /\ 1..0 = {} /\ <<>> \in Seq(Messages \cup {Freed})
  OBVIOUS
<1>4. TypeOK'
  <2>1. {conv', saved', savedConv'} \subseteq Seq(Messages)
    BY <1>0 DEF TypeOK
  <2>2. manager' \in Seq(Sessions) /\ Len(manager') <= MaxSessions /\ cur' \in 0..Len(manager')
        /\ context' \in Seq(Messages \cup {Freed}) /\ round' \in 0..MaxIterations
    BY <1>0, <1>3, Parameters
  <2>3. pc' \in {"boot", "idle", "model", "save", "meta"} /\ split' \in BOOLEAN
        /\ added' \in 0..MaxMessages
    BY <1>0 DEF TypeOK
  <2> QED BY <1>1, <1>2, <2>1, <2>2, <2>3 DEF TypeOK, Sessions
<1>5. Hand'
  BY <1>0, <1>3 DEF Hand
<1>6. ConvKept'
  <2> SUFFICES ASSUME ~torn' PROVE ConvKept'
    BY DEF ConvKept
  <2>1. ~openLine' /\ file' \in Seq(Messages) /\ (~onDisk' => file' = <<>>)
        /\ Ends(file, savedConv, MaxHistory) /\ file' = file
    BY <1>0, <1>1 DEF ConvKept
  <2> QED BY <1>0, <1>3, <2>1 DEF ConvKept
<1>7. FilesAgree'
  <2>1. ~split' => ~split /\ pc # "meta"
    BY <1>0
  <2> QED BY <1>0, <1>1, <1>3, <2>1 DEF FilesAgree
<1> QED BY <1>4, <1>5, <1>6, <1>7 DEF SessInv

LEMMA SessStep == SessInv /\ [Next]_vars => SessInv'
<1> SUFFICES ASSUME SessInv, [Next]_vars PROVE SessInv'
  OBVIOUS
<1>1. CASE Boot
  BY <1>1, BootKeeps
<1>2. CASE Receive
  BY <1>2, ReceiveKeeps
<1>3. CASE Reply
  BY <1>3, ReplyKeeps
<1>4. CASE ToolRound
  BY <1>4, ToolRoundKeeps
<1>5. CASE ModelFails
  BY <1>5, ModelFailsKeeps
<1>6. CASE SaveHistory
  BY <1>6, SaveHistoryKeeps
<1>7. CASE SaveMetadata
  BY <1>7, SaveMetadataKeeps
<1>8. CASE Clear
  BY <1>8, ClearKeeps
<1>9. CASE Crash
  BY <1>9, CrashKeeps
<1>10. CASE UNCHANGED vars
  BY <1>10 DEF vars, SessInv, TypeOK, Hand, ConvKept, FilesAgree, HasMine
<1> QED BY <1>1, <1>2, <1>3, <1>4, <1>5, <1>6, <1>7, <1>8, <1>9, <1>10 DEF Next, Worker

\* What the model is told: whatever was trimmed, loaded, cleared or restarted,
\* the messages handed to the model end with the conversation, as much of it as
\* the two limits allow, unless the process stopped while the lines of the
\* history were written.  For every value of the limits.
THEOREM ContextKept == Spec => []ContextEndsWithConversation
<1>1. SessInv => ContextEndsWithConversation
  <2> SUFFICES ASSUME SessInv, pc = "model", ~torn
               PROVE  IsSuffix(LastOf(conv, Limit), context)
    BY DEF ContextEndsWithConversation, Limit
  <2> HIDE DEF Messages
  <2>1. PICK x \in Seq(Messages \cup {Freed}) : x = context
    BY DEF SessInv, TypeOK
  <2>2. PICK c \in Seq(Messages) : c = conv
    BY DEF SessInv, TypeOK
  <2>3. c \in Seq(Messages \cup {Freed})
    BY SeqMonotonic
  <2>4. Ends(x, c, Limit)
    BY <2>1, <2>2 DEF SessInv, ConvKept
  <2>5. IsSuffix(LastOf(c, Limit), x)
    BY <2>3, <2>4, EndsIsSuffix, Parameters
  <2> QED BY <2>1, <2>2, <2>5
<1> QED BY <1>1, SessInit, SessStep, PTL DEF Spec

\* The session is found again in memory, under its own key, and not loaded for
\* every message, as long as the process never stopped inside session_save; and
\* the sessions always fit their table.
THEOREM OneSessionHeld == Spec => []OneSession
<1>1. SessInv => OneSession
  <2> SUFFICES ASSUME SessInv PROVE OneSession
    OBVIOUS
  <2>1. TypeOK /\ FilesAgree /\ DOMAIN manager = 1..Len(manager)
    BY SessionIs DEF SessInv
  <2> QED BY <2>1 DEF OneSession, FilesAgree
<1> QED BY <1>1, SessInit, SessStep, PTL DEF Spec
=============================================================================
