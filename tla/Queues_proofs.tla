--------------------------- MODULE Queues_proofs ---------------------------
(***************************************************************************)
(* What the operations on a queue do to the set of its elements, with the  *)
(* induction and the recursion over naturals that filtering it takes.      *)
(***************************************************************************)
EXTENDS Integers, Sequences, Functions, Filters, SequenceTheorems, WellFoundedInduction, TLAPS

\* Appending an element adds it to the range.
LEMMA RangeAppend ==
    ASSUME NEW S, NEW q \in Seq(S), NEW e \in S
    PROVE  Range(Append(q, e)) = Range(q) \union {e}
<1>1. DOMAIN q = 1..Len(q) /\ DOMAIN Append(q, e) = 1..(Len(q) + 1) /\ Len(q) \in Nat
    OBVIOUS
<1>2. \A i \in 1..Len(q) : Append(q, e)[i] = q[i]
    OBVIOUS
<1>3. Append(q, e)[Len(q) + 1] = e
    OBVIOUS
<1>4. Range(Append(q, e)) \subseteq Range(q) \union {e}
    BY <1>1, <1>2, <1>3 DEF Range
<1>5. Range(q) \subseteq Range(Append(q, e))
    BY <1>1, <1>2 DEF Range
<1>6. e \in Range(Append(q, e))
    BY <1>1, <1>3 DEF Range
<1> QED
    BY <1>4, <1>5, <1>6

\* A non-empty sequence is its head and its tail.
LEMMA RangeTail ==
    ASSUME NEW S, NEW q \in Seq(S), q # <<>>
    PROVE  /\ Head(q) \in S
           /\ Tail(q) \in Seq(S)
           /\ Range(q) = {Head(q)} \union Range(Tail(q))
<1>1. Len(q) \in Nat \ {0} /\ DOMAIN q = 1..Len(q) /\ DOMAIN Tail(q) = 1..(Len(q) - 1)
    OBVIOUS
<1>2. Head(q) = q[1] /\ \A i \in 1..(Len(q) - 1) : Tail(q)[i] = q[i + 1]
    OBVIOUS
<1>3. Range(Tail(q)) \subseteq Range(q) /\ Head(q) \in Range(q)
    BY <1>1, <1>2 DEF Range
<1>4. Range(q) \subseteq {Head(q)} \union Range(Tail(q))
    <2> SUFFICES ASSUME NEW i \in 1..Len(q)
                 PROVE  q[i] \in {Head(q)} \union Range(Tail(q))
        BY <1>1 DEF Range
    <2>1. CASE i = 1
        BY <1>2, <2>1
    <2>2. CASE i # 1
        <3>1. i - 1 \in 1..(Len(q) - 1) /\ (i - 1) + 1 = i
            BY <1>1, <2>2
        <3>2. i - 1 \in DOMAIN Tail(q) /\ Tail(q)[i - 1] = q[i]
            BY <1>1, <1>2, <3>1
        <3> QED
            BY <3>2 DEF Range
    <2> QED
        BY <2>1, <2>2
<1> QED
    BY <1>3, <1>4

\* A concatenation holds the elements of both.
LEMMA RangeConcat ==
    ASSUME NEW S, NEW q \in Seq(S), NEW r \in Seq(S)
    PROVE  Range(q \o r) = Range(q) \union Range(r)
<1> DEFINE n == Len(q)
           m == Len(r)
<1>1. /\ DOMAIN q = 1..n /\ DOMAIN r = 1..m /\ n \in Nat /\ m \in Nat
      /\ q \o r \in Seq(S) /\ DOMAIN (q \o r) = 1..(n + m)
    OBVIOUS
<1>2. \A i \in 1..n : (q \o r)[i] = q[i]
    OBVIOUS
<1>3. \A i \in 1..m : (q \o r)[n + i] = r[i]
    OBVIOUS
<1> HIDE DEF n, m
<1>4. Range(q) \subseteq Range(q \o r)
    BY <1>1, <1>2 DEF Range
<1>5. Range(r) \subseteq Range(q \o r)
    <2> SUFFICES ASSUME NEW i \in 1..m
                 PROVE  r[i] \in Range(q \o r)
        BY <1>1 DEF Range
    <2>1. n + i \in 1..(n + m)
        BY <1>1
    <2> QED
        BY <1>1, <1>3, <2>1 DEF Range
<1>6. Range(q \o r) \subseteq Range(q) \union Range(r)
    <2> SUFFICES ASSUME NEW i \in 1..(n + m)
                 PROVE  (q \o r)[i] \in Range(q) \union Range(r)
        BY <1>1 DEF Range
    <2>1. CASE i <= n
        BY <1>1, <1>2, <2>1 DEF Range
    <2>2. CASE i > n
        <3>1. i - n \in 1..m /\ n + (i - n) = i
            BY <1>1, <2>2
        <3>2. (q \o r)[i] = r[i - n]
            BY <1>3, <3>1
        <3> QED
            BY <1>1, <3>1, <3>2 DEF Range
    <2> QED
        BY <1>1, <2>1, <2>2
<1> QED
    BY <1>4, <1>5, <1>6

-----------------------------------------------------------------------------
(* Filtering a queue.  The induction is over a set of numbers, since an    *)
(* induction principle with an operator for its property is of no use to   *)
(* the provers.                                                            *)

\* A set of naturals that is not empty has a least element.
LEMMA NatMin ==
    ASSUME NEW T \in SUBSET Nat, T # {}
    PROVE  \E n \in T : \A m \in T : n <= m
<1> DEFINE R == OpToRel(<, Nat)
<1>1. \E n \in T : \A m \in T : ~ (<<m, n>> \in R)
    <2>1. IsWellFoundedOn(R, Nat)
        BY NatLessThanWellFounded
    <2> HIDE DEF R
    <2> QED
        BY <2>1, WFMin
<1>2. PICK n \in T : \A m \in T : ~ (<<m, n>> \in R)
    BY <1>1
<1>3. R = {p \in Nat \X Nat : p[1] < p[2]}
    BY Zenon DEF OpToRel
<1> HIDE DEF R
<1>4. ASSUME NEW m \in T
      PROVE  ~ (m < n)
    <2>1. <<m, n>> \in Nat \X Nat /\ <<m, n>>[1] = m /\ <<m, n>>[2] = n
        OBVIOUS
    <2>2. <<m, n>> \notin R
        BY <1>2
    <2> QED
        BY <1>3, <2>1, <2>2
<1> QED
    BY <1>4

\* Induction up to n, for a property that is given as a set.
LEMMA Induction ==
    ASSUME NEW n \in Nat, NEW G, 0 \in G,
           \A i \in 1..n : i - 1 \in G => i \in G
    PROVE  \A i \in 0..n : i \in G
<1> DEFINE T == {i \in 0..n : i \notin G}
<1> SUFFICES ASSUME T # {}
             PROVE  FALSE
    OBVIOUS
<1>1. T \in SUBSET Nat
    OBVIOUS
<1>2. PICK m \in T : \A k \in T : m <= k
    <2> HIDE DEF T
    <2> QED
        BY <1>1, NatMin
<1>3. m \in 1..n /\ m - 1 \in 0..n
    BY <1>2
<1>4. m - 1 \in G
    BY <1>2, <1>3
<1> QED
    BY <1>2, <1>3, <1>4

\* What a recursion over 0..n takes, its first value and its step, and what it
\* gives.
Recursive(A, a, step, n) == a \in A /\ step \in [A \X (1..n) -> A]

Follows(g, A, a, step, n) ==
    /\ g \in [0..n -> A]
    /\ g[0] = a
    /\ \A i \in 1..n : g[i] = step[<<g[i - 1], i>>]

\* A function may be defined by such a recursion.
LEMMA Recursion ==
    ASSUME NEW A, NEW a, NEW step, NEW n \in Nat, Recursive(A, a, step, n)
    PROVE  \E g : Follows(g, A, a, step, n)
<1> DEFINE G == {m \in 0..n : \E g : Follows(g, A, a, step, m)}
<1>1. a \in A /\ step \in [A \X (1..n) -> A]
    BY DEF Recursive
<1>2. 0 \in G
    <2> DEFINE g == [i \in 0..0 |-> a]
    <2>1. Follows(g, A, a, step, 0)
        BY <1>1 DEF Follows
    <2> QED
        BY <2>1
<1>3. ASSUME NEW m \in 1..n, m - 1 \in G
      PROVE  m \in G
    <2>0. PICK g : Follows(g, A, a, step, m - 1)
        BY <1>3
    <2>1. /\ g \in [0..(m - 1) -> A] /\ g[0] = a
          /\ \A i \in 1..(m - 1) : g[i] = step[<<g[i - 1], i>>]
        BY <2>0 DEF Follows
    <2> DEFINE h == [i \in 0..m |-> IF i = m THEN step[<<g[m - 1], m>>] ELSE g[i]]
    <2>2. m - 1 \in 0..(m - 1) /\ g[m - 1] \in A /\ step[<<g[m - 1], m>>] \in A
        BY <1>1, <2>1
    <2>3. h \in [0..m -> A]
        BY <2>1, <2>2
    <2>4. /\ \A i \in 0..(m - 1) : h[i] = g[i]
          /\ h[m] = step[<<g[m - 1], m>>]
        OBVIOUS
    <2> HIDE DEF h
    <2>5. h[0] = a
        BY <2>1, <2>4
    <2>6. ASSUME NEW i \in 1..m
          PROVE  h[i] = step[<<h[i - 1], i>>]
        <3>1. i - 1 \in 0..(m - 1)
            OBVIOUS
        <3>2. CASE i = m
            BY <2>4, <3>1, <3>2
        <3>3. CASE i # m
            <4>1. i \in 0..(m - 1) /\ i \in 1..(m - 1)
                BY <3>3
            <4> QED
                BY <2>1, <2>4, <3>1, <4>1
        <3> QED
            BY <3>2, <3>3
    <2>7. Follows(h, A, a, step, m)
        BY <2>3, <2>5, <2>6 DEF Follows
    <2> QED
        BY <2>7
<1> HIDE DEF G
<1>4. n \in G
    BY <1>2, <1>3, Induction
<1> QED
    BY <1>4 DEF G

\* g computes Filter for the first m elements of q.
Computes(g, q, K, m) ==
    g = [i \in 0..m |-> IF i = 0 THEN <<>>
                        ELSE IF q[i] \in K THEN Append(g[i - 1], q[i])
                        ELSE g[i - 1]]

\* The recursive function of Filter exists.
LEMMA FilterExists ==
    ASSUME NEW S, NEW q \in Seq(S), NEW K
    PROVE  \E g : Computes(g, q, K, Len(q))
<1> DEFINE n == Len(q)
           step == [p \in Seq(S) \X (1..n) |->
                       IF q[p[2]] \in K THEN Append(p[1], q[p[2]]) ELSE p[1]]
<1>1. n \in Nat /\ <<>> \in Seq(S) /\ \A i \in 1..n : q[i] \in S
    OBVIOUS
<1> HIDE DEF n
<1>2. step \in [Seq(S) \X (1..n) -> Seq(S)]
    <2>1. ASSUME NEW p \in Seq(S) \X (1..n)
          PROVE  (IF q[p[2]] \in K THEN Append(p[1], q[p[2]]) ELSE p[1]) \in Seq(S)
        BY <1>1
    <2> QED
        BY <2>1
<1>3. \A g \in Seq(S), i \in 1..n :
          step[<<g, i>>] = IF q[i] \in K THEN Append(g, q[i]) ELSE g
    OBVIOUS
<1> HIDE DEF step
<1>4. Recursive(Seq(S), <<>>, step, n)
    BY <1>1, <1>2 DEF Recursive
<1>5. PICK g : Follows(g, Seq(S), <<>>, step, n)
    BY <1>1, <1>4, Recursion
<1>6. /\ g \in [0..n -> Seq(S)] /\ g[0] = <<>>
       /\ \A i \in 1..n : g[i] = step[<<g[i - 1], i>>]
    BY <1>5 DEF Follows
<1>7. ASSUME NEW i \in 0..n
      PROVE  g[i] = IF i = 0 THEN <<>>
                    ELSE IF q[i] \in K THEN Append(g[i - 1], q[i])
                    ELSE g[i - 1]
    <2>1. CASE i = 0
        BY <1>6, <2>1
    <2>2. CASE i # 0
        <3>1. i \in 1..n /\ i - 1 \in 0..n
            BY <1>1, <2>2
        <3>2. g[i - 1] \in Seq(S)
            BY <1>6, <3>1
        <3>3. g[i] = step[<<g[i - 1], i>>]
            BY <1>6, <3>1
        <3> QED
            BY <1>3, <2>2, <3>1, <3>2, <3>3
    <2> QED
        BY <2>1, <2>2
<1>8. g = [i \in 0..n |-> g[i]]
    BY <1>6
<1>9. Computes(g, q, K, n)
    BY <1>7, <1>8 DEF Computes
<1> QED
    BY <1>9 DEF n

\* Filter keeps the elements of the sequence that are in the set, and no others,
\* none more than once if none was in the sequence more than once.
LEMMA FilterRange ==
    ASSUME NEW S, NEW q \in Seq(S), NEW K
    PROVE  /\ Filter(q, K) \in Seq(S)
           /\ Range(Filter(q, K)) = Range(q) \intersect K
           /\ Len(Filter(q, K)) <= Len(q)
           /\ \A j \in 1..Len(q) : q[j] \notin K => Len(Filter(q, K)) < Len(q)
           /\ IsInjective(q) => IsInjective(Filter(q, K))
<1> DEFINE n == Len(q)
           kept == CHOOSE g : Computes(g, q, K, Len(q))
           first(i) == {q[j] : j \in 1..i}
           short(i) == /\ Len(kept[i]) <= i
                       /\ \A j \in 1..i : q[j] \notin K => Len(kept[i]) < i
                       /\ IsInjective(q) => IsInjective(kept[i])
           G == {i \in 0..n : /\ kept[i] \in Seq(S)
                              /\ Range(kept[i]) = first(i) \intersect K
                              /\ short(i)}
<1>1. n \in Nat /\ DOMAIN q = 1..n /\ \A i \in 1..n : q[i] \in S
    OBVIOUS
<1>2. Filter(q, K) = kept[n]
    BY DEF Filter, Computes
<1>3. Computes(kept, q, K, n)
    BY FilterExists
<1> HIDE DEF kept, n
<1>4. \A i \in 0..n : kept[i] = IF i = 0 THEN <<>>
                                ELSE IF q[i] \in K THEN Append(kept[i - 1], q[i])
                                ELSE kept[i - 1]
    BY <1>3 DEF Computes
<1>5. 0 \in G
    <2>1. kept[0] = <<>>
        BY <1>1, <1>4
    <2>2. kept[0] \in Seq(S) /\ Range(kept[0]) = {}
        BY <2>1 DEF Range
    <2>3. first(0) = {}
        OBVIOUS
    <2>4. short(0)
        BY <2>1 DEF IsInjective
    <2> HIDE DEF first, short
    <2> QED
        BY <1>1, <2>2, <2>3, <2>4
<1>6. ASSUME NEW m \in 1..n, m - 1 \in G
      PROVE  m \in G
    <2>1. m \in 0..n /\ m # 0
        BY <1>1
    <2>2. /\ kept[m - 1] \in Seq(S) /\ Range(kept[m - 1]) = first(m - 1) \intersect K
          /\ short(m - 1)
        BY <1>6
    <2>3. first(m) = first(m - 1) \union {q[m]}
        <3>1. \A j : j \in 1..m <=> j \in 1..(m - 1) \/ j = m
            BY <1>1
        <3> QED
            BY <3>1
    <2>4. kept[m] = IF q[m] \in K THEN Append(kept[m - 1], q[m]) ELSE kept[m - 1]
        BY <1>4, <2>1
    <2>5. q[m] \in K => kept[m] \in Seq(S) /\ Range(kept[m]) = Range(kept[m - 1]) \union {q[m]}
        BY <1>1, <2>2, <2>4, RangeAppend
    <2>6. short(m)
        <3>1. \A j : j \in 1..m <=> j \in 1..(m - 1) \/ j = m
            BY <1>1
        <3>2. /\ Len(kept[m - 1]) <= m - 1 /\ Len(kept[m - 1]) \in Nat
              /\ \A j \in 1..(m - 1) : q[j] \notin K => Len(kept[m - 1]) < m - 1
              /\ IsInjective(q) => IsInjective(kept[m - 1])
            BY <2>2
        <3>3. CASE q[m] \notin K
            <4>1. kept[m] = kept[m - 1]
                BY <2>4, <3>3
            <4>2. Len(kept[m]) <= m /\ Len(kept[m]) < m
                BY <3>2, <4>1
            <4> QED
                BY <3>2, <4>1, <4>2
        <3>4. CASE q[m] \in K
            <4> DEFINE k == kept[m - 1]
                       v == q[m]
            <4>1. k \in Seq(S) /\ v \in S
                BY <1>1, <2>2
            <4>2. kept[m] = Append(k, v)
                BY <2>4, <3>4
            <4> HIDE DEF k, v
            <4>3. /\ Len(kept[m]) = Len(k) + 1 /\ Len(k) \in Nat
                  /\ \A i \in 1..Len(k) : kept[m][i] = k[i]
                  /\ kept[m][Len(k) + 1] = v
                  /\ DOMAIN kept[m] = 1..(Len(k) + 1)
                  /\ DOMAIN k = 1..Len(k)
                BY <4>1, <4>2
            <4>4. /\ Len(k) <= m - 1
                  /\ \A j \in 1..(m - 1) : q[j] \notin K => Len(k) < m - 1
                BY <3>2 DEF k
            <4>5. Len(kept[m]) <= m
                BY <4>3, <4>4
            <4>6. ASSUME NEW j \in 1..m, q[j] \notin K
                  PROVE  Len(kept[m]) < m
                <5>1. j \in 1..(m - 1)
                    BY <3>1, <3>4, <4>6
                <5> QED
                    BY <4>3, <4>4, <4>6, <5>1
            <4>7. ASSUME IsInjective(q)
                  PROVE  IsInjective(kept[m])
                <5>1. IsInjective(k)
                    BY <3>2, <4>7 DEF k
                <5>2. v \notin Range(k)
                    <6>1. SUFFICES ASSUME v \in first(m - 1)
                                   PROVE  FALSE
                        BY <2>2 DEF k
                    <6>2. PICK j \in 1..(m - 1) : q[j] = q[m]
                        BY <6>1 DEF v
                    <6>3. j \in DOMAIN q /\ m \in DOMAIN q /\ j # m
                        BY <1>1
                    <6> QED
                        BY <4>7, <6>2, <6>3 DEF IsInjective
                <5>3. \A i \in 1..Len(k) : k[i] # v
                    BY <4>3, <5>2 DEF Range
                <5>4. \A i : i \in DOMAIN kept[m] <=> i \in 1..Len(k) \/ i = Len(k) + 1
                    BY <4>3
                <5> QED
                    BY <4>3, <5>1, <5>3, <5>4 DEF IsInjective
            <4> QED
                BY <4>5, <4>6, <4>7
        <3> QED
            BY <3>3, <3>4
    <2> HIDE DEF first, short
    <2> QED
        BY <2>1, <2>2, <2>3, <2>4, <2>5, <2>6
<1>7. n \in G
    <2> HIDE DEF G
    <2> QED
        BY <1>1, <1>5, <1>6, Induction
<1>8. first(n) = Range(q)
    BY <1>1 DEF Range
<1>9. short(n) /\ kept[n] \in Seq(S) /\ Range(kept[n]) = first(n) \intersect K
    BY <1>7
<1> HIDE DEF first, short
<1>10. short(n) => /\ Len(kept[n]) <= n
                   /\ \A j \in 1..n : q[j] \notin K => Len(kept[n]) < n
                   /\ IsInjective(q) => IsInjective(kept[n])
    BY DEF short
<1> QED
    BY <1>2, <1>8, <1>9, <1>10 DEF n

(***************************************************************************)
(* Filtering by the end of a queue, and what follows by induction over it. *)
(***************************************************************************)
\* A property that is given as a set and survives Append holds of every queue.
LEMMA QueueInduction ==
    ASSUME NEW S, NEW G, <<>> \in G,
           \A q \in Seq(S), e \in S : q \in G => Append(q, e) \in G
    PROVE  \A q \in Seq(S) : q \in G
<1> SUFFICES ASSUME NEW q \in Seq(S)
             PROVE  q \in G
    OBVIOUS
<1> DEFINE n == Len(q)
           upto(i) == SubSeq(q, 1, i)
           H == {i \in 0..n : upto(i) \in G}
<1>1. n \in Nat
    OBVIOUS
<1>2. upto(0) = <<>> /\ upto(n) = q
    BY SubSeqEmpty, SubSeqFull
<1>3. ASSUME NEW i \in 1..n
      PROVE  upto(i - 1) \in Seq(S) /\ q[i] \in S /\ upto(i) = Append(upto(i - 1), q[i])
    <2>1. \A j \in 1..n : q[j] \in S
        OBVIOUS
    <2>2. \A j \in 1..(i - 1) : q[j] \in S
        BY <1>1, <2>1
    <2>3. upto(i - 1) \in Seq(S) /\ q[i] \in S
        BY <1>1, <2>1, <2>2, SubSeqProperties
    <2>4. 1 \in 1..Len(q) /\ i \in 1..Len(q)
        BY <1>1
    <2>5. upto(i) = upto(i - 1) \o <<q[i]>>
        BY <2>4, SubSeqRecursiveSecond
    <2> QED
        BY <2>3, <2>5, AppendIsConcat
<1> HIDE DEF upto, n
<1>4. 0 \in H
    BY <1>1, <1>2
<1>5. ASSUME NEW i \in 1..n, i - 1 \in H
      PROVE  i \in H
    <2>1. upto(i - 1) \in G /\ i \in 0..n
        BY <1>1, <1>5
    <2>2. Append(upto(i - 1), q[i]) \in G
        BY <1>3, <2>1, Zenon
    <2> QED
        BY <1>3, <2>1, <2>2
<1>6. n \in H
    <2> HIDE DEF H
    <2>1. \A i \in 0..n : i \in H
        BY <1>1, <1>4, <1>5, Induction
    <2> QED
        BY <1>1, <2>1
<1> QED
    BY <1>2, <1>6

\* Nothing is left of nothing.
LEMMA FilterEmpty ==
    ASSUME NEW K
    PROVE  Filter(<<>>, K) = <<>>
<1>1. PICK z : z = <<>>
    OBVIOUS
<1>2. PICK S : S = {}
    OBVIOUS
<1>3. z \in Seq(S) /\ Filter(z, K) \in Seq(S)
    BY <1>1, EmptySeq, FilterRange
<1>4. ASSUME NEW s \in Seq(S)
      PROVE  s = <<>>
    <2>1. s # <<>> => Len(s) \in Nat \ {0}
        BY EmptySeq
    <2>2. \A i \in 1..Len(s) : s[i] \in S
        BY ElementOfSeq
    <2> QED
        BY <1>2, <2>1, <2>2
<1> QED
    BY <1>1, <1>3, <1>4

\* Filter, by the last element of the queue.
LEMMA FilterAppend ==
    ASSUME NEW S, NEW q \in Seq(S), NEW e \in S, NEW K
    PROVE  Filter(Append(q, e), K) = IF e \in K THEN Append(Filter(q, K), e) ELSE Filter(q, K)
<1> DEFINE p == Append(q, e)
           n == Len(q)
           g == CHOOSE f : Computes(f, q, K, Len(q))
           h == CHOOSE f : Computes(f, p, K, Len(p))
<1>1. p \in Seq(S) /\ Len(p) = n + 1 /\ n \in Nat /\ p[n + 1] = e /\ \A i \in 1..n : p[i] = q[i]
    BY AppendProperties, LenProperties
<1>2. Filter(q, K) = g[n] /\ Filter(p, K) = h[Len(p)]
    BY DEF Filter, Computes
<1>3. Computes(g, q, K, n) /\ Computes(h, p, K, Len(p))
    BY <1>1, FilterExists
<1> HIDE DEF g, h, p, n
<1>4. \A i \in 0..n : g[i] = IF i = 0 THEN <<>> ELSE IF q[i] \in K THEN Append(g[i - 1], q[i]) ELSE g[i - 1]
    BY <1>3 DEF Computes
<1>5. \A i \in 0..(n + 1) : h[i] = IF i = 0 THEN <<>> ELSE IF p[i] \in K THEN Append(h[i - 1], p[i]) ELSE h[i - 1]
    BY <1>1, <1>3 DEF Computes
<1>7. n \in {i \in 0..n : h[i] = g[i]}
    <2> DEFINE G == {i \in 0..n : h[i] = g[i]}
    <2>1. 0 \in G
        BY <1>1, <1>4, <1>5
    <2>2. ASSUME NEW i \in 1..n, i - 1 \in G
          PROVE  i \in G
        <3>1. i \in 0..n /\ i \in 0..(n + 1) /\ i # 0 /\ p[i] = q[i] /\ h[i - 1] = g[i - 1]
            BY <1>1, <2>2
        <3> QED
            BY <1>4, <1>5, <3>1
    <2> HIDE DEF G
    <2>3. \A i \in 0..n : i \in G
        BY <1>1, <2>1, <2>2, Induction
    <2> QED
        BY <1>1, <2>3 DEF G
<1>8. h[n + 1] = IF e \in K THEN Append(g[n], e) ELSE g[n]
    <2>1. n + 1 \in 0..(n + 1) /\ n + 1 # 0 /\ n + 1 - 1 = n
        BY <1>1
    <2> QED
        BY <1>1, <1>5, <1>7, <2>1
<1> QED
    BY <1>1, <1>2, <1>7, <1>8 DEF p

\* One queue after another: a concatenation under a name, which the provers
\* match more easily in a fact they instantiate.
Joined(a, b) == a \o b

LEMMA JoinedIn ==
    ASSUME NEW S, NEW a \in Seq(S), NEW b \in Seq(S)
    PROVE  /\ Joined(a, b) \in Seq(S) /\ Len(Joined(a, b)) = Len(a) + Len(b)
BY ConcatProperties DEF Joined

LEMMA RangeJoined ==
    ASSUME NEW S, NEW a \in Seq(S), NEW b \in Seq(S)
    PROVE  Range(Joined(a, b)) = Range(a) \union Range(b)
BY RangeConcatenation DEF Joined

\* Filtering two queues one after the other.
LEMMA FilterJoined ==
    ASSUME NEW S, NEW a \in Seq(S), NEW b \in Seq(S), NEW K
    PROVE  Filter(Joined(a, b), K) = Joined(Filter(a, K), Filter(b, K))
<1> DEFINE G == {c \in Seq(S) : Filter(a \o c, K) = Filter(a, K) \o Filter(c, K)}
<1>1. Filter(a, K) \in Seq(S)
    BY FilterRange
<1>2. <<>> \in G
    <2>1. PICK z : z = <<>>
        OBVIOUS
    <2>2. z \in Seq(S) /\ a \o z = a /\ Filter(a, K) \o z = Filter(a, K)
        BY <1>1, <2>1, ConcatEmptySeq
    <2>3. Filter(z, K) = z
        BY <2>1, FilterEmpty
    <2>4. z \in G
        BY <2>2, <2>3
    <2> QED
        BY <2>1, <2>4
<1>3. ASSUME NEW c \in Seq(S), NEW e \in S, c \in G
      PROVE  Append(c, e) \in G
    <2>1. a \o c \in Seq(S) /\ Append(c, e) \in Seq(S) /\ Filter(c, K) \in Seq(S)
        BY FilterRange
    <2>2. a \o Append(c, e) = Append(a \o c, e)
        OBVIOUS
    <2>3. Filter(a, K) \o Append(Filter(c, K), e) = Append(Filter(a, K) \o Filter(c, K), e)
        BY <1>1, <2>1
    <2>4. Filter(Append(c, e), K) = IF e \in K THEN Append(Filter(c, K), e) ELSE Filter(c, K)
        BY FilterAppend
    <2>5. Filter(Append(a \o c, e), K) = IF e \in K THEN Append(Filter(a \o c, K), e) ELSE Filter(a \o c, K)
        BY <2>1, FilterAppend
    <2>6. Filter(a \o c, K) = Filter(a, K) \o Filter(c, K)
        BY <1>3
    <2> QED
        BY <2>1, <2>2, <2>3, <2>4, <2>5, <2>6
<1> HIDE DEF G
<1>4. b \in G
    BY <1>2, <1>3, QueueInduction
<1> QED
    BY <1>4 DEF G, Joined

\* Only the elements that are there matter to a filter.
LEMMA FilterSame ==
    ASSUME NEW S, NEW q \in Seq(S), NEW K, NEW L, Range(q) \intersect K = Range(q) \intersect L
    PROVE  Filter(q, K) = Filter(q, L)
<1> DEFINE G == {c \in Seq(S) : Range(c) \intersect K = Range(c) \intersect L => Filter(c, K) = Filter(c, L)}
<1>1. <<>> \in G
    BY FilterEmpty
<1>2. ASSUME NEW c \in Seq(S), NEW e \in S, c \in G
      PROVE  Append(c, e) \in G
    <2> DEFINE d == Append(c, e)
    <2>1. d \in Seq(S) /\ Range(d) = Range(c) \union {e}
        BY RangeAppend
    <2>2. /\ Filter(d, K) = IF e \in K THEN Append(Filter(c, K), e) ELSE Filter(c, K)
          /\ Filter(d, L) = IF e \in L THEN Append(Filter(c, L), e) ELSE Filter(c, L)
        BY FilterAppend
    <2> HIDE DEF d
    <2>3. ASSUME Range(d) \intersect K = Range(d) \intersect L
          PROVE  Filter(d, K) = Filter(d, L)
        <3>1. Range(c) \intersect K = Range(c) \intersect L /\ (e \in K <=> e \in L)
            BY <2>1, <2>3
        <3>2. Filter(c, K) = Filter(c, L)
            BY <1>2, <3>1
        <3> QED
            BY <2>2, <3>1, <3>2
    <2>4. d \in G
        BY <2>1, <2>3
    <2> QED
        BY <2>4 DEF d
<1> HIDE DEF G
<1>3. q \in G
    BY <1>1, <1>2, QueueInduction
<1> QED
    BY <1>3 DEF G

\* A filter that lets everything through, or nothing.
LEMMA FilterAll ==
    ASSUME NEW S, NEW q \in Seq(S), NEW K
    PROVE  /\ Range(q) \subseteq K => Filter(q, K) = q
           /\ Range(q) \intersect K = {} => Filter(q, K) = <<>>
<1> DEFINE G == {c \in Seq(S) : /\ Range(c) \subseteq K => Filter(c, K) = c
                                /\ Range(c) \intersect K = {} => Filter(c, K) = <<>>}
<1>1. <<>> \in G
    BY FilterEmpty
<1>2. ASSUME NEW c \in Seq(S), NEW e \in S, c \in G
      PROVE  Append(c, e) \in G
    <2> DEFINE d == Append(c, e)
    <2>1. d \in Seq(S) /\ Range(d) = Range(c) \union {e}
        BY RangeAppend
    <2>2. Filter(d, K) = IF e \in K THEN Append(Filter(c, K), e) ELSE Filter(c, K)
        BY FilterAppend
    <2>3. Filter(c, K) = c => Append(Filter(c, K), e) = d
        OBVIOUS
    <2> HIDE DEF d
    <2>4. ASSUME Range(d) \subseteq K
          PROVE  Filter(d, K) = d
        BY <1>2, <2>1, <2>2, <2>3, <2>4
    <2>5. ASSUME Range(d) \intersect K = {}
          PROVE  Filter(d, K) = <<>>
        <3>1. Range(c) \intersect K = {} /\ e \notin K
            BY <2>1, <2>5
        <3>2. Filter(c, K) = <<>>
            BY <1>2, <3>1
        <3> QED
            BY <2>2, <3>1, <3>2
    <2>6. d \in G
        BY <2>1, <2>4, <2>5
    <2> QED
        BY <2>6 DEF d
<1> HIDE DEF G
<1>3. q \in G
    BY <1>1, <1>2, QueueInduction
<1> QED
    BY <1>3 DEF G

\* Any two elements, in their order, are in the relation.
Pairwise(q, R) == \A i, j \in 1..Len(q) : i < j => <<q[i], q[j]>> \in R

\* A queue and one more element.
LEMMA PairwiseAppend ==
    ASSUME NEW S, NEW q \in Seq(S), NEW e \in S, NEW R
    PROVE  Pairwise(Append(q, e), R) <=> Pairwise(q, R) /\ \A x \in Range(q) : <<x, e>> \in R
<1> DEFINE p == Append(q, e)
           n == Len(q)
<1>1. n \in Nat /\ Len(p) = n + 1 /\ p[n + 1] = e /\ \A i \in 1..n : p[i] = q[i]
    BY AppendProperties, LenProperties
<1>2. DOMAIN q = 1..n
    BY LenProperties
<1> HIDE DEF p, n
<1>3. \A i : i \in 1..(n + 1) <=> i \in 1..n \/ i = n + 1
    BY <1>1
<1>4. ASSUME Pairwise(p, R)
      PROVE  Pairwise(q, R) /\ \A x \in Range(q) : <<x, e>> \in R
    <2>1. \A i, j \in 1..n : i < j => <<q[i], q[j]>> \in R
        <3>1. \A i, j \in 1..n : i < j => <<p[i], p[j]>> \in R
            BY <1>1, <1>3, <1>4 DEF Pairwise
        <3> QED
            BY <1>1, <3>1
    <2>2. ASSUME NEW i \in 1..n
          PROVE  <<q[i], e>> \in R
        <3>1. i \in 1..(n + 1) /\ n + 1 \in 1..(n + 1) /\ i < n + 1
            BY <1>1
        <3>2. <<p[i], p[n + 1]>> \in R
            BY <1>1, <1>4, <3>1 DEF Pairwise
        <3> QED
            BY <1>1, <3>2
    <2> QED
        BY <1>2, <2>1, <2>2 DEF Pairwise, Range, n
<1>5. ASSUME Pairwise(q, R), \A x \in Range(q) : <<x, e>> \in R
      PROVE  Pairwise(p, R)
    <2> SUFFICES ASSUME NEW i \in 1..(n + 1), NEW j \in 1..(n + 1), i < j
                 PROVE  <<p[i], p[j]>> \in R
        BY <1>1 DEF Pairwise
    <2>1. i \in 1..n /\ p[i] = q[i] /\ q[i] \in Range(q)
        BY <1>1, <1>2 DEF Range
    <2>2. CASE j = n + 1
        BY <1>1, <1>5, <2>1, <2>2
    <2>3. CASE j # n + 1
        <3>1. j \in 1..n /\ p[j] = q[j]
            BY <1>1, <2>3
        <3>2. <<q[i], q[j]>> \in R
            BY <1>5, <2>1, <3>1 DEF Pairwise, n
        <3> QED
            BY <2>1, <3>1, <3>2
    <2> QED
        BY <2>2, <2>3
<1> QED
    BY <1>4, <1>5 DEF p

\* A filter keeps the order.
LEMMA FilterPairwise ==
    ASSUME NEW S, NEW q \in Seq(S), NEW K, NEW R, Pairwise(q, R)
    PROVE  Pairwise(Filter(q, K), R)
<1> DEFINE G == {c \in Seq(S) : Pairwise(c, R) => Pairwise(Filter(c, K), R)}
<1>1. <<>> \in G
    <2>1. Pairwise(<<>>, R)
        BY DEF Pairwise
    <2> QED
        BY <2>1, FilterEmpty
<1>2. ASSUME NEW c \in Seq(S), NEW e \in S, c \in G
      PROVE  Append(c, e) \in G
    <2> DEFINE d == Append(c, e)
               f == Filter(c, K)
    <2>1. d \in Seq(S) /\ f \in Seq(S) /\ Range(f) \subseteq Range(c)
        BY FilterRange
    <2>2. Filter(d, K) = IF e \in K THEN Append(f, e) ELSE f
        BY FilterAppend
    <2>3. Pairwise(d, R) <=> Pairwise(c, R) /\ \A x \in Range(c) : <<x, e>> \in R
        BY PairwiseAppend
    <2>4. Pairwise(Append(f, e), R) <=> Pairwise(f, R) /\ \A x \in Range(f) : <<x, e>> \in R
        BY <2>1, PairwiseAppend
    <2>5. Pairwise(c, R) => Pairwise(f, R)
        BY <1>2
    <2> HIDE DEF d, f
    <2>6. d \in G
        BY <2>1, <2>2, <2>3, <2>4, <2>5
    <2> QED
        BY <2>6 DEF d
<1> HIDE DEF G
<1>3. q \in G
    BY <1>1, <1>2, QueueInduction
<1> QED
    BY <1>3 DEF G

\* A queue whose elements of K come last is what is not in K and then what is.
LEMMA FilterSplit ==
    ASSUME NEW S, NEW q \in Seq(S), NEW K, NEW L,
           \A x \in Range(q) : x \in L <=> x \notin K,
           \A i, j \in 1..Len(q) : i < j /\ q[i] \in K => q[j] \in K
    PROVE  q = Joined(Filter(q, L), Filter(q, K))
<1> DEFINE R == {p \in S \X S : p[1] \in K => p[2] \in K}
           G == {c \in Seq(S) : (\A x \in Range(c) : x \in L <=> x \notin K) /\ Pairwise(c, R)
                                    => c = Filter(c, L) \o Filter(c, K)}
<1>1. <<>> \in G
    <2>1. PICK z : z = <<>>
        OBVIOUS
    <2>2. z \in Seq(S) /\ z \o z = z
        BY <2>1, EmptySeq, ConcatEmptySeq
    <2>3. Filter(z, L) = z /\ Filter(z, K) = z
        BY <2>1, FilterEmpty
    <2>4. z \in G
        BY <2>2, <2>3
    <2> QED
        BY <2>1, <2>4
<1>2. ASSUME NEW c \in Seq(S), NEW e \in S, c \in G
      PROVE  Append(c, e) \in G
    <2> DEFINE d == Append(c, e)
               a == Filter(c, L)
               b == Filter(c, K)
    <2>1. d \in Seq(S) /\ Range(d) = Range(c) \union {e} /\ a \in Seq(S) /\ b \in Seq(S)
        BY RangeAppend, FilterRange
    <2>2. /\ Filter(d, L) = IF e \in L THEN Append(a, e) ELSE a
          /\ Filter(d, K) = IF e \in K THEN Append(b, e) ELSE b
        BY FilterAppend
    <2>3. Pairwise(d, R) <=> Pairwise(c, R) /\ \A x \in Range(c) : <<x, e>> \in R
        BY PairwiseAppend
    <2>4. Range(c) \subseteq S
        BY RangeOfSeq
    <2>5. a \o Append(b, e) = Append(a \o b, e) /\ a \o <<>> = a
        BY <2>1, ConcatEmptySeq
    <2>6. Range(c) \intersect K = {} => b = <<>>
        BY FilterAll
    <2>7. c = a \o b => d = Append(a \o b, e)
        OBVIOUS
    <2>8. (\A x \in Range(c) : x \in L <=> x \notin K) /\ Pairwise(c, R) => c = a \o b
        BY <1>2
    <2> HIDE DEF d, a, b
    <2>9. ASSUME \A x \in Range(d) : x \in L <=> x \notin K, Pairwise(d, R)
          PROVE  d = Filter(d, L) \o Filter(d, K)
        <3>1. c = a \o b /\ d = Append(a \o b, e) /\ (e \in L <=> e \notin K)
            BY <2>1, <2>3, <2>7, <2>8, <2>9
        <3>2. CASE e \in K
            BY <2>2, <2>5, <3>1, <3>2
        <3>3. CASE e \notin K
            <4>1. Range(c) \intersect K = {}
                BY <2>3, <2>4, <2>9, <3>3
            <4>2. b = <<>> /\ a \o b = a
                BY <2>5, <2>6, <4>1
            <4>3. Filter(d, L) = Append(a, e) /\ Filter(d, K) = b
                BY <2>2, <3>1, <3>3
            <4>4. Append(a, e) \in Seq(S)
                BY <2>1
            <4>5. Append(a, e) \o b = Append(a, e)
                BY <4>2, <4>4, ConcatEmptySeq
            <4> QED
                BY <3>1, <4>2, <4>3, <4>5
        <3> QED
            BY <3>2, <3>3
    <2>10. d \in G
        BY <2>1, <2>9
    <2> QED
        BY <2>10 DEF d
<1>3. Pairwise(q, R)
    <2>1. \A i \in 1..Len(q) : q[i] \in S
        BY ElementOfSeq
    <2> QED
        BY <2>1 DEF Pairwise
<1> HIDE DEF G
<1>4. q \in G
    BY <1>1, <1>2, QueueInduction
<1> QED
    BY <1>3, <1>4 DEF G, Joined

\* Two queues one after the other.
LEMMA PairwiseJoined ==
    ASSUME NEW S, NEW a \in Seq(S), NEW b \in Seq(S), NEW R
    PROVE  Pairwise(Joined(a, b), R) <=> /\ Pairwise(a, R) /\ Pairwise(b, R)
                                        /\ \A x \in Range(a), y \in Range(b) : <<x, y>> \in R
<1> DEFINE G == {c \in Seq(S) : Pairwise(a \o c, R) <=> /\ Pairwise(a, R) /\ Pairwise(c, R)
                                                        /\ \A x \in Range(a), y \in Range(c) : <<x, y>> \in R}
<1>1. <<>> \in G
    <2>1. PICK z : z = <<>>
        OBVIOUS
    <2>2. z \in Seq(S) /\ a \o z = a /\ Pairwise(z, R) /\ Range(z) = {}
        BY <2>1, EmptySeq, ConcatEmptySeq DEF Pairwise, Range
    <2>3. z \in G
        BY <2>2
    <2> QED
        BY <2>1, <2>3
<1>2. ASSUME NEW c \in Seq(S), NEW e \in S, c \in G
      PROVE  Append(c, e) \in G
    <2> DEFINE d == Append(c, e)
               p == a \o c
    <2>1. d \in Seq(S) /\ Range(d) = Range(c) \union {e}
        BY RangeAppend
    <2>2. p \in Seq(S) /\ Range(p) = Range(a) \union Range(c) /\ a \o d = Append(p, e)
        BY ConcatProperties, RangeConcatenation
    <2>3. Pairwise(d, R) <=> Pairwise(c, R) /\ \A x \in Range(c) : <<x, e>> \in R
        BY PairwiseAppend
    <2>4. Pairwise(Append(p, e), R) <=> Pairwise(p, R) /\ \A x \in Range(p) : <<x, e>> \in R
        BY <2>2, PairwiseAppend
    <2>5. Pairwise(p, R) <=> /\ Pairwise(a, R) /\ Pairwise(c, R)
                             /\ \A x \in Range(a), y \in Range(c) : <<x, y>> \in R
        BY <1>2
    <2> HIDE DEF d, p
    <2>6. d \in G
        BY <2>1, <2>2, <2>3, <2>4, <2>5
    <2> QED
        BY <2>6 DEF d
<1> HIDE DEF G
<1>3. b \in G
    BY <1>1, <1>2, QueueInduction
<1> QED
    BY <1>3 DEF G, Joined

\* An element put between two queues.
Inserted(a, e, b) == Append(a, e) \o b

\* What it does to the set of the elements, to what a filter finds and to the order.
LEMMA PutBetween ==
    ASSUME NEW S, NEW a \in Seq(S), NEW b \in Seq(S), NEW e \in S
    PROVE  /\ Inserted(a, e, b) \in Seq(S)
           /\ Range(Inserted(a, e, b)) = Range(Joined(a, b)) \union {e}
           /\ \A K : Filter(Inserted(a, e, b), K) = IF e \in K THEN Inserted(Filter(a, K), e, Filter(b, K))
                                               ELSE Filter(Joined(a, b), K)
           /\ \A R : /\ Pairwise(Joined(a, b), R)
                     /\ \A x \in Range(a) : <<x, e>> \in R
                     /\ \A x \in Range(b) : <<e, x>> \in R
                     => Pairwise(Inserted(a, e, b), R)
<1> DEFINE c == Append(a, e)
<1>1. c \in Seq(S) /\ Range(c) = Range(a) \union {e}
    BY RangeAppend
<1>2. Inserted(a, e, b) = Joined(c, b)
    BY DEF Inserted, Joined
<1>3. \A K : Filter(c, K) = IF e \in K THEN Append(Filter(a, K), e) ELSE Filter(a, K)
    BY FilterAppend
<1>4. \A R : Pairwise(c, R) <=> Pairwise(a, R) /\ \A x \in Range(a) : <<x, e>> \in R
    BY PairwiseAppend
<1> HIDE DEF c
<1>5. /\ Joined(c, b) \in Seq(S) /\ Range(Joined(c, b)) = Range(c) \union Range(b)
      /\ Range(Joined(a, b)) = Range(a) \union Range(b)
    BY <1>1, ConcatProperties, RangeConcatenation DEF Joined
<1>6. ASSUME NEW K
      PROVE  Filter(Joined(c, b), K) = IF e \in K THEN Inserted(Filter(a, K), e, Filter(b, K)) ELSE Filter(Joined(a, b), K)
    <2>1. Filter(Joined(c, b), K) = Joined(Filter(c, K), Filter(b, K))
        BY <1>1, FilterJoined
    <2>2. Filter(Joined(a, b), K) = Joined(Filter(a, K), Filter(b, K))
        BY FilterJoined
    <2>3. Inserted(Filter(a, K), e, Filter(b, K)) = Joined(Append(Filter(a, K), e), Filter(b, K))
        BY DEF Inserted, Joined
    <2> QED
        BY <1>3, <2>1, <2>2, <2>3
<1>7. ASSUME NEW R, Pairwise(Joined(a, b), R),
             \A x \in Range(a) : <<x, e>> \in R, \A x \in Range(b) : <<e, x>> \in R
      PROVE  Pairwise(Joined(c, b), R)
    <2>1. Pairwise(a, R) /\ Pairwise(b, R) /\ \A x \in Range(a), y \in Range(b) : <<x, y>> \in R
        BY <1>7, PairwiseJoined
    <2>2. Pairwise(c, R)
        BY <1>4, <1>7, <2>1
    <2>3. \A x \in Range(c), y \in Range(b) : <<x, y>> \in R
        BY <1>1, <1>7, <2>1
    <2> QED
        BY <1>1, <2>1, <2>2, <2>3, PairwiseJoined
<1> QED
    BY <1>1, <1>2, <1>5, <1>6, <1>7

\* Its parts one by one.
LEMMA PutRange ==
    ASSUME NEW S, NEW a \in Seq(S), NEW b \in Seq(S), NEW e \in S
    PROVE  Range(Inserted(a, e, b)) = Range(Joined(a, b)) \union {e}
<1>1. Append(a, e) \in Seq(S) /\ Range(Append(a, e)) = Range(a) \union {e}
    BY RangeAppend
<1>2. Inserted(a, e, b) = Joined(Append(a, e), b)
    BY DEF Inserted, Joined
<1>3. Range(Joined(a, b)) = Range(a) \union Range(b)
    BY RangeJoined
<1> DEFINE c == Append(a, e)
<1>4. c \in Seq(S) /\ Range(c) = Range(a) \union {e} /\ Inserted(a, e, b) = Joined(c, b)
    BY <1>1, <1>2
<1> HIDE DEF c
<1>5. Range(Joined(c, b)) = Range(c) \union Range(b)
    BY <1>4, RangeJoined
<1> QED
    BY <1>3, <1>4, <1>5

LEMMA PutFilter ==
    ASSUME NEW S, NEW a \in Seq(S), NEW b \in Seq(S), NEW e \in S, NEW K
    PROVE  Filter(Inserted(a, e, b), K) = IF e \in K THEN Inserted(Filter(a, K), e, Filter(b, K))
                                     ELSE Filter(Joined(a, b), K)
BY PutBetween

LEMMA PutPairwise ==
    ASSUME NEW S, NEW a \in Seq(S), NEW b \in Seq(S), NEW e \in S, NEW R, Pairwise(Joined(a, b), R),
           \A x \in Range(a) : <<x, e>> \in R, \A x \in Range(b) : <<e, x>> \in R
    PROVE  Pairwise(Inserted(a, e, b), R)
BY PutBetween

=============================================================================
