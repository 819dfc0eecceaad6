------------------------- MODULE StreamClient_proofs -------------------------
(***************************************************************************)
(* Proofs about the stream hook of the UI, for any sessions, events and    *)
(* timestamps, any number of selections and of lost connections, and any   *)
(* limits of the list, the seen set, the backfill and the ring.            *)
(***************************************************************************)
EXTENDS StreamClient, Queues_proofs, FiniteSetTheorems

\* The effect that runs is the last that was started, for the selected session.
\* An effect whose cleanup has run has no socket and no timer, though its request
\* may be in flight.
Running ==
    /\ selected # Null => effect \in Effect /\ target[effect] = selected
    /\ \A e \in Effect : e > effect => conn[e] = "off"
    /\ \A e \in Effect : conn[e] \in {"connecting", "open", "backoff"} => ~Cancelled(e)
    /\ \A e \in Effect : wire[e] # <<>> => conn[e] = "open"
    /\ \A e \in Effect : items[e] # <<>> => conn[e] = "answered"
    /\ selected = Null => pending = <<>> /\ committed = <<>>

\* What is on its way to an effect is of its session, what waits for a frame or
\* was added is of the selected one.
OfSession ==
    /\ \A e \in Effect : \A v \in Range(items[e]) \union Range(wire[e]) :
           SidOf[v] = target[e]
    /\ \A v \in Range(pending) \union Range(committed) : SidOf[v] = selected

Given ==
    selected # Null =>
        due \subseteq Range(wire[effect]) \union Range(pending) \union Range(committed)

\* An answer replaces the list only if the effect has added nothing yet.
Untouched ==
    /\ lastTs = Null => pending = <<>> /\ committed = <<>>
    /\ \A e \in Effect : conn[e] \in {"fetch", "answered"} /\ ~Cancelled(e) /\ since[e] = Null
           => pending = <<>> /\ committed = <<>>

\* What the hook remembers is the end of what it added, and what it remembers it
\* does not add again.
Remembers ==
    /\ seen = LastOf(committed, SeenCap)
    /\ \A i, j \in DOMAIN committed :
           i < j /\ committed[i] = committed[j] => j - i > SeenCap

\* Two sequences have the same last k elements.
SameEnd(q, r, k) ==
    /\ k <= Len(q) /\ k <= Len(r)
    /\ \A j \in 0..(k - 1) : q[Len(q) - j] = r[Len(r) - j]

Added == IF Len(committed) < MaxEvents THEN Len(committed) ELSE MaxEvents

Latest == SameEnd(shown, committed, Added)

IInv == /\ TypeOK
        /\ Running
        /\ OfSession
        /\ Given
        /\ Untouched
        /\ Remembers
        /\ Latest

-----------------------------------------------------------------------------
(* Ends of sequences.                                                      *)

\* What LastOf keeps.
LEMMA LastOfEnd ==
    ASSUME NEW S, NEW q \in Seq(S), NEW n \in Nat
    PROVE  /\ LastOf(q, n) \in Seq(S)
           /\ Len(q) <= n => Len(LastOf(q, n)) = Len(q)
           /\ n <= Len(q) => Len(LastOf(q, n)) = n
           /\ SameEnd(LastOf(q, n), q, Len(LastOf(q, n)))
           /\ Range(LastOf(q, n)) \subseteq Range(q)
<1>1. Len(q) \in Nat
    OBVIOUS
<1>2. CASE Len(q) > n
    <2> DEFINE r == SubSeq(q, Len(q) - n + 1, Len(q))
    <2>1. /\ r \in Seq(S) /\ Len(r) = n
          /\ \A i \in 1..n : r[i] = q[Len(q) - n + i]
        BY <1>1, <1>2, SubSeqProperties
    <2>2. LastOf(q, n) = r
        BY <1>2 DEF LastOf
    <2> HIDE DEF r
    <2>3. SameEnd(r, q, n)
        <3> SUFFICES ASSUME NEW j \in 0..(n - 1)
                     PROVE  r[n - j] = q[Len(q) - j]
            BY <1>1, <1>2, <2>1 DEF SameEnd
        <3>1. n - j \in 1..n /\ Len(q) - n + (n - j) = Len(q) - j
            BY <1>1
        <3> QED
            BY <2>1, <3>1
    <2>4. Range(r) \subseteq Range(q)
        <3>1. \A i \in 1..n : Len(q) - n + i \in 1..Len(q)
            BY <1>1, <1>2
        <3>2. DOMAIN q = 1..Len(q) /\ DOMAIN r = 1..Len(r)
            BY <2>1
        <3>3. \A i \in DOMAIN r : r[i] = q[Len(q) - n + i] /\ Len(q) - n + i \in DOMAIN q
            BY <2>1, <3>1, <3>2
        <3> QED
            BY <3>3 DEF Range
    <2> QED
        BY <1>1, <1>2, <2>1, <2>2, <2>3, <2>4
<1>3. CASE ~ (Len(q) > n)
    <2>1. LastOf(q, n) = q
        BY <1>3 DEF LastOf
    <2>2. SameEnd(q, q, Len(q))
        BY <1>1 DEF SameEnd
    <2> QED
        BY <1>1, <1>3, <2>1, <2>2
<1> QED
    BY <1>2, <1>3

\* The last n elements are among what LastOf keeps.
LEMMA LastOfHolds ==
    ASSUME NEW S, NEW q \in Seq(S), NEW n \in Nat, NEW i \in 1..Len(q), Len(q) - n < i
    PROVE  q[i] \in Range(LastOf(q, n))
<1> DEFINE r == LastOf(q, n)
           j == Len(q) - i
<1>1. /\ r \in Seq(S) /\ SameEnd(r, q, Len(r))
      /\ Len(q) <= n => Len(r) = Len(q)
      /\ n <= Len(q) => Len(r) = n
    BY LastOfEnd
<1>2. Len(q) \in Nat /\ Len(r) \in Nat
    BY <1>1
<1> HIDE DEF r
<1>3. j \in 0..(Len(r) - 1) /\ Len(q) - j = i /\ Len(r) - j \in 1..Len(r)
    BY <1>1, <1>2
<1>4. r[Len(r) - j] = q[i]
    BY <1>1, <1>3 DEF SameEnd
<1>5. DOMAIN r = 1..Len(r)
    BY <1>1
<1> QED
    BY <1>3, <1>4, <1>5 DEF Range, r

\* Less of the same end.
LEMMA SameEndLess ==
    ASSUME NEW S, NEW q \in Seq(S), NEW r \in Seq(S), NEW k \in Nat, SameEnd(q, r, k),
           NEW m \in Nat, m <= k
    PROVE  SameEnd(q, r, m)
BY DEF SameEnd

\* What ends as r does ends as r does.
LEMMA SameEndTrans ==
    ASSUME NEW S, NEW q \in Seq(S), NEW r \in Seq(S), NEW t \in Seq(S), NEW k \in Nat,
           SameEnd(q, r, k), SameEnd(r, t, k)
    PROVE  SameEnd(q, t, k)
BY DEF SameEnd

\* The same elements at the end of both make the same end longer.
LEMMA SameEndConcat ==
    ASSUME NEW S, NEW q \in Seq(S), NEW r \in Seq(S), NEW t \in Seq(S),
           NEW k \in Nat, SameEnd(q, r, k)
    PROVE  SameEnd(q \o t, r \o t, k + Len(t))
<1>1. /\ Len(q) \in Nat /\ Len(r) \in Nat /\ Len(t) \in Nat
      /\ Len(q \o t) = Len(q) + Len(t) /\ Len(r \o t) = Len(r) + Len(t)
    BY ConcatProperties
<1>2. ASSUME NEW j \in 0..(k + Len(t) - 1)
      PROVE  (q \o t)[Len(q) + Len(t) - j] = (r \o t)[Len(r) + Len(t) - j]
    <2>1. CASE j < Len(t)
        <3>1. /\ Len(t) - j \in 1..Len(t)
              /\ Len(q) + Len(t) - j \in 1..(Len(q) + Len(t))
              /\ Len(r) + Len(t) - j \in 1..(Len(r) + Len(t))
              /\ Len(q) + Len(t) - j > Len(q) /\ Len(r) + Len(t) - j > Len(r)
              /\ (Len(q) + Len(t) - j) - Len(q) = Len(t) - j
              /\ (Len(r) + Len(t) - j) - Len(r) = Len(t) - j
            BY <1>1, <2>1
        <3> QED
            BY <1>1, <3>1, ConcatProperties
    <2>2. CASE ~ (j < Len(t))
        <3>1. /\ j - Len(t) \in 0..(k - 1)
              /\ Len(q) + Len(t) - j = Len(q) - (j - Len(t))
              /\ Len(r) + Len(t) - j = Len(r) - (j - Len(t))
              /\ Len(q) - (j - Len(t)) \in 1..Len(q)
              /\ Len(r) - (j - Len(t)) \in 1..Len(r)
            BY <1>1, <2>2 DEF SameEnd
        <3>2. /\ (q \o t)[Len(q) - (j - Len(t))] = q[Len(q) - (j - Len(t))]
              /\ (r \o t)[Len(r) - (j - Len(t))] = r[Len(r) - (j - Len(t))]
            BY <1>1, <3>1, ConcatProperties
        <3> QED
            BY <3>1, <3>2 DEF SameEnd
    <2> QED
        BY <2>1, <2>2
<1> QED
    BY <1>1, <1>2 DEF SameEnd

\* Two sequences with the same n last elements have the same last n.
LEMMA SameLast ==
    ASSUME NEW S, NEW q \in Seq(S), NEW r \in Seq(S), NEW n \in Nat, SameEnd(q, r, n)
    PROVE  LastOf(q, n) = LastOf(r, n)
<1> DEFINE a == LastOf(q, n)
           b == LastOf(r, n)
<1>1. /\ Len(q) \in Nat /\ Len(r) \in Nat
      /\ a \in Seq(S) /\ Len(a) = n /\ SameEnd(a, q, n)
      /\ b \in Seq(S) /\ Len(b) = n /\ SameEnd(b, r, n)
    <2>1. /\ Len(q) \in Nat /\ n <= Len(q)
          /\ Len(r) \in Nat /\ n <= Len(r)
        BY DEF SameEnd
    <2>2. Len(a) = n /\ Len(b) = n
        BY <2>1, LastOfEnd
    <2> QED
        BY <2>1, <2>2, LastOfEnd
<1> HIDE DEF a, b
<1>2. ASSUME NEW i \in 1..n
      PROVE  a[i] = b[i]
    <2>1. n - i \in 0..(n - 1) /\ n - (n - i) = i
        OBVIOUS
    <2>2. a[i] = q[Len(q) - (n - i)] /\ b[i] = r[Len(r) - (n - i)]
        BY <1>1, <2>1 DEF SameEnd
    <2> QED
        BY <2>1, <2>2 DEF SameEnd
<1>3. a = b
    BY <1>1, <1>2
<1> QED
    BY <1>3 DEF a, b

\* Taking the last n elements again after an addition makes no difference.
LEMMA LastOfAgain ==
    ASSUME NEW S, NEW q \in Seq(S), NEW f \in Seq(S), NEW n \in Nat
    PROVE  LastOf(LastOf(q, n) \o f, n) = LastOf(q \o f, n)
<1> DEFINE r == LastOf(q, n)
<1>1. /\ Len(q) \in Nat /\ Len(f) \in Nat /\ r \in Seq(S) /\ SameEnd(r, q, Len(r))
      /\ n <= Len(q) => Len(r) = n
    BY LastOfEnd
<1>2. CASE Len(q) > n
    <2> HIDE DEF r
    <2>1. SameEnd(r, q, n)
        BY <1>1, <1>2
    <2>2. SameEnd(r \o f, q \o f, n + Len(f))
        BY <1>1, <2>1, SameEndConcat
    <2>3. r \o f \in Seq(S) /\ q \o f \in Seq(S)
        BY <1>1, ConcatProperties
    <2>4. n + Len(f) \in Nat /\ n <= n + Len(f)
        BY <1>1
    <2>5. SameEnd(r \o f, q \o f, n)
        BY <2>2, <2>3, <2>4, SameEndLess
    <2>6. LastOf(r \o f, n) = LastOf(q \o f, n)
        BY <2>3, <2>5, SameLast
    <2> QED
        BY <2>6 DEF r
<1>3. CASE ~ (Len(q) > n)
    <2>1. r = q
        BY <1>3 DEF LastOf
    <2> QED
        BY <2>1
<1> QED
    BY <1>2, <1>3

\* The end that a capped list shares with all that was added, after an addition.
LEMMA SameEndAdded ==
    ASSUME NEW S, NEW q \in Seq(S), NEW r \in Seq(S), NEW f \in Seq(S), NEW n \in Nat,
           NEW k \in Nat, SameEnd(q, r, k), k = Len(r) \/ k = n,
           NEW m \in Nat, m <= n, m <= Len(r) + Len(f)
    PROVE  SameEnd(LastOf(q \o f, n), r \o f, m)
<1> DEFINE u == q \o f
           t == LastOf(u, n)
<1>1. /\ u \in Seq(S) /\ r \o f \in Seq(S)
      /\ Len(u) = Len(q) + Len(f) /\ Len(q) \in Nat /\ Len(f) \in Nat /\ Len(r) \in Nat
    BY ConcatProperties
<1>2. SameEnd(u, r \o f, k + Len(f))
    BY SameEndConcat
<1> HIDE DEF u
<1>3. k + Len(f) \in Nat /\ m <= k + Len(f) /\ m <= Len(u)
    <2>1. k <= Len(q)
        BY DEF SameEnd
    <2> QED
        BY <1>1, <2>1
<1>4. SameEnd(u, r \o f, m)
    BY <1>1, <1>2, <1>3, SameEndLess
<1>5. /\ t \in Seq(S) /\ SameEnd(t, u, Len(t))
      /\ Len(u) <= n => Len(t) = Len(u)
      /\ n <= Len(u) => Len(t) = n
    BY <1>1, LastOfEnd
<1> HIDE DEF t
<1>6. Len(t) \in Nat /\ m <= Len(t)
    <2>1. Len(t) \in Nat /\ Len(u) \in Nat
        BY <1>1, <1>5
    <2> QED
        BY <1>3, <1>5, <2>1
<1>7. SameEnd(t, u, m)
    BY <1>1, <1>5, <1>6, SameEndLess
<1>8. SameEnd(t, r \o f, m)
    BY <1>1, <1>4, <1>5, <1>7, SameEndTrans
<1> QED
    BY <1>8 DEF t, u

-----------------------------------------------------------------------------
(* The dedup gate.                                                         *)

\* A new element at the end of a sequence without repetitions.
LEMMA InjectiveAppend ==
    ASSUME NEW S, NEW q \in Seq(S), IsInjective(q), NEW e \in S, e \notin Range(q)
    PROVE  IsInjective(Append(q, e))
<1> DEFINE l == Len(q)
           r == Append(q, e)
<1>1. /\ l \in Nat /\ DOMAIN q = 1..l /\ DOMAIN r = 1..(l + 1)
      /\ \A i \in 1..l : r[i] = q[i]
      /\ r[l + 1] = e
    OBVIOUS
<1>2. \A i \in 1..l : q[i] # e
    BY <1>1 DEF Range
<1> HIDE DEF l, r
<1>3. IsInjective(r)
    BY <1>1, <1>2 DEF IsInjective
<1> QED
    BY <1>3 DEF r

\* out computes Dedup for the first n of q, past what is in K.
Dedups(out, q, K, n) ==
    out = [i \in 0..n |-> IF i = 0 THEN <<>>
                          ELSE IF q[i] \in K \union Range(out[i - 1]) THEN out[i - 1]
                          ELSE Append(out[i - 1], q[i])]

\* The recursive function of Dedup exists.
LEMMA DedupExists ==
    ASSUME NEW S, NEW q \in Seq(S), NEW K
    PROVE  \E out : Dedups(out, q, K, Len(q))
<1> DEFINE n == Len(q)
           step == [p \in Seq(S) \X (1..n) |->
                       IF q[p[2]] \in K \union Range(p[1]) THEN p[1]
                       ELSE Append(p[1], q[p[2]])]
<1>1. n \in Nat /\ <<>> \in Seq(S) /\ \A i \in 1..n : q[i] \in S
    OBVIOUS
<1> HIDE DEF n
<1>2. step \in [Seq(S) \X (1..n) -> Seq(S)]
    <2>1. ASSUME NEW p \in Seq(S) \X (1..n)
          PROVE  (IF q[p[2]] \in K \union Range(p[1]) THEN p[1]
                  ELSE Append(p[1], q[p[2]])) \in Seq(S)
        BY <1>1
    <2> QED
        BY <2>1
<1>3. \A g \in Seq(S), i \in 1..n :
          step[<<g, i>>] = IF q[i] \in K \union Range(g) THEN g ELSE Append(g, q[i])
    OBVIOUS
<1> HIDE DEF step
<1>4. Recursive(Seq(S), <<>>, step, n)
    BY <1>1, <1>2 DEF Recursive
<1>5. PICK g : Follows(g, Seq(S), <<>>, step, n)
    BY <1>1, <1>4, Recursion
<1>6. /\ g \in [0..n -> Seq(S)] /\ g[0] = <<>>
      /\ \A i \in 1..n : g[i] = step[<<g[i - 1], i>>]
    BY <1>5 DEF Follows
<1>7. ASSUME NEW i \in 0..n
      PROVE  g[i] = IF i = 0 THEN <<>>
                    ELSE IF q[i] \in K \union Range(g[i - 1]) THEN g[i - 1]
                    ELSE Append(g[i - 1], q[i])
    <2>1. CASE i = 0
        BY <1>6, <2>1
    <2>2. CASE i # 0
        <3>1. i \in 1..n /\ i - 1 \in 0..n
            BY <1>1, <2>2
        <3>2. g[i - 1] \in Seq(S)
            BY <1>6, <3>1
        <3>3. g[i] = step[<<g[i - 1], i>>]
            BY <1>6, <3>1
        <3> QED
            BY <1>3, <2>2, <3>1, <3>2, <3>3
    <2> QED
        BY <2>1, <2>2
<1>8. g = [i \in 0..n |-> g[i]]
    BY <1>6
<1>9. Dedups(g, q, K, n)
    BY <1>7, <1>8 DEF Dedups
<1> QED
    BY <1>9 DEF n

\* Dedup keeps one of each id that is not in the seen set, and no others.
LEMMA DedupNew ==
    ASSUME NEW S, NEW q \in Seq(S)
    PROVE  /\ Dedup(q) \in Seq(S)
           /\ Range(Dedup(q)) = Range(q) \ Range(seen)
           /\ IsInjective(Dedup(q))
<1> DEFINE n == Len(q)
           K == Range(seen)
           out == CHOOSE out : Dedups(out, q, Range(seen), Len(q))
           first(i) == {q[j] : j \in 1..i}
           G == {i \in 0..n : /\ out[i] \in Seq(S)
                              /\ Range(out[i]) = first(i) \ K
                              /\ IsInjective(out[i])}
<1>1. n \in Nat /\ \A i \in 1..n : q[i] \in S
    OBVIOUS
<1>2. Dedup(q) = out[n]
    BY DEF Dedup, Dedups
<1>3. Dedups(out, q, K, n)
    BY DedupExists
<1> HIDE DEF out, n, K
<1>4. \A i \in 0..n : out[i] = IF i = 0 THEN <<>>
                               ELSE IF q[i] \in K \union Range(out[i - 1]) THEN out[i - 1]
                               ELSE Append(out[i - 1], q[i])
    BY <1>3 DEF Dedups
<1>5. 0 \in G
    <2>1. out[0] = <<>>
        BY <1>1, <1>4
    <2>2. out[0] \in Seq(S) /\ Range(out[0]) = {} /\ IsInjective(out[0])
        BY <2>1 DEF Range, IsInjective
    <2>3. first(0) = {}
        OBVIOUS
    <2> HIDE DEF first
    <2> QED
        BY <1>1, <2>2, <2>3
<1>6. ASSUME NEW m \in 1..n, m - 1 \in G
      PROVE  m \in G
    <2> DEFINE o == out[m - 1]
    <2>1. m \in 0..n /\ m # 0 /\ q[m] \in S
        BY <1>1
    <2>2. o \in Seq(S) /\ Range(o) = first(m - 1) \ K /\ IsInjective(o)
        BY <1>6
    <2>3. first(m) = first(m - 1) \union {q[m]}
        <3>1. \A j : j \in 1..m <=> j \in 1..(m - 1) \/ j = m
            BY <1>1
        <3> QED
            BY <3>1
    <2>4. out[m] = IF q[m] \in K \union Range(o) THEN o ELSE Append(o, q[m])
        BY <1>4, <2>1
    <2> HIDE DEF o, first
    <2>5. CASE q[m] \in K \union Range(o)
        BY <2>1, <2>2, <2>3, <2>4, <2>5
    <2>6. CASE q[m] \notin K \union Range(o)
        <3>1. Append(o, q[m]) \in Seq(S) /\ Range(Append(o, q[m])) = Range(o) \union {q[m]}
            BY <2>1, <2>2, RangeAppend
        <3>2. IsInjective(Append(o, q[m]))
            BY <2>1, <2>2, <2>6, InjectiveAppend
        <3> QED
            BY <2>1, <2>2, <2>3, <2>4, <2>6, <3>1, <3>2
    <2> QED
        BY <2>5, <2>6
<1>7. n \in G
    <2>1. n \in Nat /\ n \in 0..n
        BY <1>1
    <2> HIDE DEF G
    <2>2. \A i \in 1..n : i - 1 \in G => i \in G
        BY <1>6
    <2> QED
        BY <1>5, <2>1, <2>2, Induction
<1>8. first(n) = Range(q)
    <2>1. DOMAIN q = 1..n
        BY DEF n
    <2> QED
        BY <2>1 DEF Range
<1> HIDE DEF first
<1> QED
    BY <1>2, <1>7, <1>8 DEF K

-----------------------------------------------------------------------------
(* The query.                                                              *)

\* A sequence over S has elements of S.
LEMMA RangeType ==
    ASSUME NEW S, NEW q \in Seq(S)
    PROVE  Range(q) \subseteq S
<1>1. DOMAIN q = 1..Len(q) /\ \A i \in 1..Len(q) : q[i] \in S
    OBVIOUS
<1> QED
    BY <1>1 DEF Range

\* A sequence has finitely many elements.
LEMMA RangeFinite ==
    ASSUME NEW S, NEW q \in Seq(S)
    PROVE  IsFiniteSet(Range(q))
<1>1. DOMAIN q = 1..Len(q) /\ Len(q) \in Nat
    OBVIOUS
<1>2. q \in [1..Len(q) -> Range(q)]
    BY <1>1 DEF Range
<1>3. \A v \in Range(q) : \E i \in 1..Len(q) : q[i] = v
    BY <1>1 DEF Range
<1>4. q \in Surjection(1..Len(q), Range(q))
    BY <1>2, <1>3 DEF Surjection
<1>5. IsFiniteSet(1..Len(q))
    BY <1>1, FS_Interval
<1> QED
    BY <1>4, <1>5, FS_Surjection

\* The rows of S that ORDER BY puts before v.
Earlier(S, v) == {w \in S : TsOf[w] < TsOf[v] \/ (TsOf[w] = TsOf[v] /\ w < v)}

\* As many rows come before another as there are places before its own, and for
\* each place there is such a row.
LEMMA EveryPlace ==
    ASSUME NEW S \in SUBSET Event, IsFiniteSet(S), NEW i \in 1..Cardinality(S)
    PROVE  \E v \in S : Cardinality(Earlier(S, v)) = i - 1
<1> DEFINE n == Cardinality(S)
           place == [v \in S |-> Cardinality(Earlier(S, v))]
<1>1. n \in Nat
    BY FS_CardinalityType
<1>2. S \subseteq Nat /\ \A v \in S : TsOf[v] \in Nat
    BY ClientAssumption
<1>3. ASSUME NEW v \in S
      PROVE  /\ IsFiniteSet(Earlier(S, v)) /\ v \notin Earlier(S, v)
             /\ Cardinality(Earlier(S, v)) \in 0..(n - 1)
    <2>1. Earlier(S, v) \in SUBSET (S \ {v}) /\ v \notin Earlier(S, v)
        BY <1>2 DEF Earlier
    <2>2. IsFiniteSet(S \ {v}) /\ Cardinality(S \ {v}) = n - 1
        BY FS_RemoveElement
    <2>3. IsFiniteSet(Earlier(S, v)) /\ Cardinality(Earlier(S, v)) <= n - 1
        BY <2>1, <2>2, FS_Subset
    <2>4. Cardinality(Earlier(S, v)) \in Nat
        BY <2>3, FS_CardinalityType
    <2> QED
        BY <1>1, <2>1, <2>3, <2>4
<1>4. ASSUME NEW u \in S, NEW v \in S, u \in Earlier(S, v)
      PROVE  Cardinality(Earlier(S, u)) # Cardinality(Earlier(S, v))
    <2>1. Earlier(S, u) \in SUBSET Earlier(S, v)
        <3> SUFFICES ASSUME NEW w \in Earlier(S, u)
                     PROVE  w \in Earlier(S, v)
            OBVIOUS
        <3>1. /\ w \in S /\ u \in Nat /\ v \in Nat /\ w \in Nat
              /\ TsOf[u] \in Nat /\ TsOf[v] \in Nat /\ TsOf[w] \in Nat
            BY <1>2 DEF Earlier
        <3>2. TsOf[w] < TsOf[u] \/ (TsOf[w] = TsOf[u] /\ w < u)
            BY DEF Earlier
        <3>3. TsOf[u] < TsOf[v] \/ (TsOf[u] = TsOf[v] /\ u < v)
            BY <1>4 DEF Earlier
        <3>4. TsOf[w] < TsOf[v] \/ (TsOf[w] = TsOf[v] /\ w < v)
            BY <3>1, <3>2, <3>3
        <3> QED
            BY <3>1, <3>4 DEF Earlier
    <2>2. Earlier(S, u) # Earlier(S, v)
        BY <1>3, <1>4
    <2>3. IsFiniteSet(Earlier(S, v))
        BY <1>3
    <2> QED
        BY <2>1, <2>2, <2>3, FS_Subset
<1>5. ASSUME NEW u \in S, NEW v \in S, u # v
      PROVE  u \in Earlier(S, v) \/ v \in Earlier(S, u)
    BY <1>2, <1>5 DEF Earlier
<1>6. place \in [S -> 0..(n - 1)]
    BY <1>3
<1>7. \A u, v \in S : place[u] = place[v] => u = v
    BY <1>4, <1>5
<1> HIDE DEF place
<1>8. place \in Injection(S, 0..(n - 1))
    BY <1>6, <1>7 DEF Injection, IsInjective
<1>9. IsFiniteSet(0..(n - 1)) /\ Cardinality(0..(n - 1)) = n
    <2> HIDE DEF n
    <2>1. 0 \in Int /\ n - 1 \in Int /\ (0 > n - 1 <=> n = 0) /\ (n - 1) - 0 + 1 = n
        BY <1>1
    <2>2. /\ IsFiniteSet(0..(n - 1))
          /\ Cardinality(0..(n - 1)) = IF 0 > n - 1 THEN 0 ELSE (n - 1) - 0 + 1
        BY <2>1, FS_Interval
    <2> QED
        BY <2>1, <2>2
<1>10. place \in Surjection(S, 0..(n - 1))
    BY <1>8, <1>9, FS_Injection
<1>11. i - 1 \in 0..(n - 1)
    BY <1>1
<1>12. PICK v \in S : place[v] = i - 1
    BY <1>10, <1>11 DEF Surjection
<1> QED
    BY <1>12 DEF place

\* ORDER BY gives rows of the table.
LEMMA InOrderType ==
    ASSUME NEW S \in SUBSET Event, IsFiniteSet(S)
    PROVE  InOrder(S) \in Seq(S)
<1>1. Cardinality(S) \in Nat
    BY FS_CardinalityType
<1>2. InOrder(S) = [i \in 1..Cardinality(S) |->
                       CHOOSE v \in S : Cardinality(Earlier(S, v)) = i - 1]
    BY DEF InOrder, Earlier
<1>3. \A i \in 1..Cardinality(S) :
          (CHOOSE v \in S : Cardinality(Earlier(S, v)) = i - 1) \in S
    BY EveryPlace
<1>4. InOrder(S) \in [1..Cardinality(S) -> S]
    BY <1>2, <1>3
<1> QED
    BY <1>1, <1>4

\* An answer and a replay hold events of the session only.
LEMMA BackfillOf ==
    ASSUME NEW s, NEW ts, accepted \in Seq(Event), durable \in 0..Len(accepted)
    PROVE  /\ Backfill(s, ts) \in Seq(Event)
           /\ \A v \in Range(Backfill(s, ts)) : SidOf[v] = s
<1> DEFINE S == {v \in Range(SubSeq(accepted, 1, durable)) :
                    SidOf[v] = s /\ (ts = Null \/ TsOf[v] >= ts)}
           all == InOrder(S)
           n == IF Len(all) < BackfillMax THEN Len(all) ELSE BackfillMax
<1>1. SubSeq(accepted, 1, durable) \in Seq(Event)
    OBVIOUS
<1>2. Range(SubSeq(accepted, 1, durable)) \subseteq Event
    BY <1>1, RangeType
<1>3. IsFiniteSet(Range(SubSeq(accepted, 1, durable)))
    BY <1>1, RangeFinite
<1>4. S \in SUBSET Event /\ S \in SUBSET Range(SubSeq(accepted, 1, durable))
    BY <1>2
<1>5. Backfill(s, ts) = SubSeq(all, 1, n)
    BY DEF Backfill
<1>6. \A v \in S : SidOf[v] = s
    OBVIOUS
<1> HIDE DEF S
<1>7. IsFiniteSet(S)
    BY <1>3, <1>4, FS_Subset
<1>8. all \in Seq(S)
    BY <1>4, <1>7, InOrderType
<1> HIDE DEF all
<1>9. n \in 0..Len(all)
    BY <1>8, ClientAssumption
<1> HIDE DEF n
<1>10. SubSeq(all, 1, n) \in Seq(S)
    BY <1>8, <1>9
<1> HIDE DEF S
<1>11. Range(SubSeq(all, 1, n)) \subseteq S
    BY <1>10, RangeType
<1>12. SubSeq(all, 1, n) \in Seq(Event)
    BY <1>4, <1>10
<1> QED
    BY <1>5, <1>6, <1>11, <1>12

LEMMA ReplayOf ==
    ASSUME NEW s, accepted \in Seq(Event)
    PROVE  /\ Replay(s) \in Seq(Event)
           /\ \A v \in Range(Replay(s)) : SidOf[v] = s
<1> DEFINE q == Filter(accepted, {v \in Event : SidOf[v] = s})
<1>1. q \in Seq(Event) /\ Range(q) \subseteq {v \in Event : SidOf[v] = s}
    BY FilterRange
<1>2. Replay(s) = LastOf(q, RingSize)
    BY DEF Replay
<1> HIDE DEF q
<1>3. LastOf(q, RingSize) \in Seq(Event) /\ Range(LastOf(q, RingSize)) \subseteq Range(q)
    BY <1>1, LastOfEnd, ClientAssumption
<1> QED
    BY <1>1, <1>2, <1>3

-----------------------------------------------------------------------------
(* Type correctness.                                                       *)

\* What Commit leaves.
LEMMA CommitType ==
    ASSUME NEW base \in Seq(Event), NEW fresh \in Seq(Event), TypeOK, Commit(base, fresh)
    PROVE  /\ seen' \in Seq(Event) /\ Len(seen') <= SeenCap
           /\ shown' \in Seq(Event) /\ Len(shown') <= MaxEvents
           /\ committed' \in Seq(Event)
<1>1. ASSUME NEW q \in Seq(Event), NEW n \in Nat
      PROVE  LastOf(q, n) \in Seq(Event) /\ Len(LastOf(q, n)) <= n
    <2>1. /\ LastOf(q, n) \in Seq(Event) /\ Len(q) \in Nat
          /\ Len(q) <= n => Len(LastOf(q, n)) = Len(q)
          /\ n <= Len(q) => Len(LastOf(q, n)) = n
        BY LastOfEnd
    <2> QED
        BY <2>1
<1>2. seen \o fresh \in Seq(Event) /\ base \o fresh \in Seq(Event)
      /\ committed \o fresh \in Seq(Event)
    BY ConcatProperties DEF TypeOK
<1>3. SeenCap \in Nat /\ MaxEvents \in Nat
    BY ClientAssumption
<1> QED
    BY <1>1, <1>2, <1>3 DEF Commit

\* The last of an answer is an event.
LEMMA LastIn ==
    ASSUME NEW S, NEW q \in Seq(S), q # <<>>
    PROVE  q[Len(q)] \in S
<1>1. Len(q) \in 1..Len(q)
    OBVIOUS
<1> QED
    BY <1>1

LEMMA TypeStep ==
    ASSUME TypeOK, Next
    PROVE  TypeOK'
<1>1. ASSUME NEW v \in Event, Accept(v)
      PROVE  TypeOK'
    <2>1. accepted' \in Seq(Event) /\ Len(accepted') = Len(accepted) + 1
        BY <1>1 DEF TypeOK, Accept
    <2>2. durable' \in 0..Len(accepted')
        BY <1>1, <2>1 DEF TypeOK, Accept
    <2>3. wire' \in [Effect -> Seq(Event)] /\ due' \in SUBSET Event
        BY <1>1 DEF TypeOK, Accept
    <2> QED
        BY <1>1, <2>1, <2>2, <2>3 DEF TypeOK, Accept, effects, page
<1>2. CASE Persist
    BY <1>2 DEF TypeOK, Persist, effects, page
<1>3. ASSUME NEW s \in Session, Select(s)
      PROVE  TypeOK'
    <2>1. effect' \in 0..MaxEffects
        BY <1>3, ClientAssumption DEF TypeOK, Select
    <2>2. /\ selected' \in Session \union {Null}
          /\ target' \in [Effect -> Session \union {Null}]
          /\ conn' \in [Effect -> {"off", "fetch", "answered", "connecting", "open",
                                   "backoff", "ended"}]
          /\ since' \in [Effect -> Nat \union {Null}]
        BY <1>3 DEF TypeOK, Select, Cleaned
    <2>3. wire' \in [Effect -> Seq(Event)]
        BY <1>3 DEF Select
    <2>4. seen' = <<>> /\ Len(seen') <= SeenCap
        BY <1>3, ClientAssumption DEF Select
    <2> QED
        BY <1>3, <2>1, <2>2, <2>3, <2>4 DEF TypeOK, Select, backend
<1>4. CASE Deselect
    <2>1. /\ selected' \in Session \union {Null}
          /\ conn' \in [Effect -> {"off", "fetch", "answered", "connecting", "open",
                                   "backoff", "ended"}]
        BY <1>4 DEF TypeOK, Deselect, Cleaned
    <2>2. wire' \in [Effect -> Seq(Event)]
        BY <1>4 DEF Deselect
    <2>3. /\ seen' = <<>> /\ Len(seen') <= SeenCap
          /\ shown' = <<>> /\ Len(shown') <= MaxEvents
        BY <1>4, ClientAssumption DEF Deselect
    <2> QED
        BY <1>4, <2>1, <2>2, <2>3 DEF TypeOK, Deselect, backend
<1>5. ASSUME NEW e \in Effect, Answer(e)
      PROVE  TypeOK'
    <2>1. Backfill(target[e], since[e]) \in Seq(Event)
        BY BackfillOf DEF TypeOK
    <2> QED
        BY <1>5, <2>1 DEF TypeOK, Answer, backend, effects, page
<1>6. ASSUME NEW e \in Effect, AnswerFails(e)
      PROVE  TypeOK'
    BY <1>6 DEF TypeOK, AnswerFails, backend, effects, page
<1>7. ASSUME NEW e \in Effect, ReceiveCancelled(e)
      PROVE  TypeOK'
    BY <1>7 DEF TypeOK, ReceiveCancelled, backend, effects, page
<1>8. ASSUME NEW e \in Effect, Receive(e)
      PROVE  TypeOK'
    <2>1. items[e] \in Seq(Event) /\ Dedup(items[e]) \in Seq(Event)
        BY DedupNew DEF TypeOK
    <2>2. /\ seen' \in Seq(Event) /\ Len(seen') <= SeenCap
          /\ shown' \in Seq(Event) /\ Len(shown') <= MaxEvents
          /\ committed' \in Seq(Event)
        <3>1. CASE Dedup(items[e]) = <<>>
            BY <1>8, <3>1 DEF TypeOK, Receive
        <3>2. CASE Dedup(items[e]) # <<>>
            <4>1. Commit(IF since[e] = Null THEN <<>> ELSE shown, Dedup(items[e]))
                BY <1>8, <3>2 DEF Receive
            <4>2. (IF since[e] = Null THEN <<>> ELSE shown) \in Seq(Event)
                BY DEF TypeOK
            <4> QED
                BY <2>1, <4>1, <4>2, CommitType
        <3> QED
            BY <3>1, <3>2
    <2>3. lastTs' \in Nat \union {Null}
        <3>1. items[e] # <<>> => TsOf[items[e][Len(items[e])]] \in Nat
            BY <2>1, LastIn, ClientAssumption
        <3> QED
            BY <1>8, <3>1 DEF TypeOK, Receive
    <2>4. due' \in SUBSET Event
        BY <1>8, <2>1, RangeType DEF TypeOK, Receive
    <2> QED
        BY <1>8, <2>2, <2>3, <2>4 DEF TypeOK, Receive, backend, effects
<1>9. ASSUME NEW e \in Effect, Open(e)
      PROVE  TypeOK'
    <2> DEFINE first == IF lastTs = Null THEN Replay(target[e]) ELSE <<>>
    <2>1. first \in Seq(Event)
        BY ReplayOf DEF TypeOK
    <2>2. Range(first) \subseteq Event
        BY <2>1, RangeType
    <2>3. wire' = [wire EXCEPT ![e] = first] /\ due' = due \union Range(first)
        BY <1>9 DEF Open
    <2> HIDE DEF first
    <2> QED
        BY <1>9, <2>1, <2>2, <2>3 DEF TypeOK, Open, backend, effects, page
<1>10. ASSUME NEW e \in Effect, Message(e)
       PROVE  TypeOK'
    <2>1. Head(wire[e]) \in Event /\ Tail(wire[e]) \in Seq(Event)
        BY <1>10, RangeTail DEF TypeOK, Message
    <2> DEFINE v == Head(wire[e])
    <2>2. lastTs' \in Nat /\ pending' \in Seq(Event)
        <3>1. v \in Event /\ lastTs' = TsOf[v] /\ pending' = Append(pending, v)
            BY <1>10, <2>1 DEF Message
        <3>2. pending \in Seq(Event)
            BY DEF TypeOK
        <3> HIDE DEF v
        <3>3. TsOf[v] \in Nat /\ Append(pending, v) \in Seq(Event)
            BY <3>1, <3>2, ClientAssumption
        <3> QED
            BY <3>1, <3>3
    <2>3. wire' = [wire EXCEPT ![e] = Tail(wire[e])]
        BY <1>10 DEF Message
    <2>4. wire' \in [Effect -> Seq(Event)]
        BY <2>1, <2>3 DEF TypeOK
    <2> QED
        BY <1>10, <2>2, <2>4 DEF TypeOK, Message, backend, effects
<1>11. CASE Frame
    <2>1. shown \in Seq(Event) /\ Dedup(pending) \in Seq(Event)
        BY DedupNew DEF TypeOK
    <2>2. Commit(shown, Dedup(pending))
        BY <1>11 DEF Frame
    <2>3. /\ seen' \in Seq(Event) /\ Len(seen') <= SeenCap
          /\ shown' \in Seq(Event) /\ Len(shown') <= MaxEvents
          /\ committed' \in Seq(Event)
        BY <2>1, <2>2, CommitType
    <2> QED
        BY <1>11, <2>3 DEF TypeOK, Frame, backend, effects
<1>12. ASSUME NEW e \in Effect, Lose(e)
       PROVE  TypeOK'
    <2>1. closes' \in 0..MaxCloses
        BY <1>12, ClientAssumption DEF TypeOK, Lose
    <2> QED
        BY <1>12, <2>1 DEF TypeOK, Lose, backend, effects, page
<1>13. ASSUME NEW e \in Effect, Finish(e)
       PROVE  TypeOK'
    BY <1>13 DEF TypeOK, Finish, backend, effects, page
<1>14. ASSUME NEW e \in Effect, Reconnect(e)
       PROVE  TypeOK'
    BY <1>14 DEF TypeOK, Reconnect, backend, effects, page
<1> QED
    BY <1>1, <1>2, <1>3, <1>4, <1>5, <1>6, <1>7, <1>8, <1>9, <1>10, <1>11, <1>12,
       <1>13, <1>14 DEF Next, Connect

-----------------------------------------------------------------------------
(* The effect that runs.                                                   *)

LEMMA RunningStep ==
    ASSUME TypeOK, Running, Next
    PROVE  Running'
<1>1. ASSUME NEW v \in Event, Accept(v)
      PROVE  Running'
    <2>1. \A e \in Effect : wire'[e] # <<>> => conn[e] = "open"
        BY <1>1 DEF Running, Accept
    <2> QED
        BY <1>1, <2>1 DEF Running, Cancelled, Accept, effects, page
<1>2. CASE Persist
    BY <1>2 DEF Running, Cancelled, Persist, effects, page
<1>3. ASSUME NEW s \in Session, Select(s)
      PROVE  Running'
    <2>1. effect' = effect + 1 /\ effect' \in Effect /\ effect \in Nat /\ s # Null
        BY <1>3, ClientAssumption DEF TypeOK, Select, Effect
    <2>2. target'[effect'] = s /\ selected' = s
        BY <1>3, <2>1 DEF TypeOK, Select
    <2>3. /\ conn'[effect'] = "fetch"
          /\ \A e \in Effect : e # effect' => conn'[e] = Cleaned[e]
        BY <1>3, <2>1 DEF TypeOK, Select, Cleaned
    <2>4. \A e \in Effect : e > effect' => conn'[e] = "off"
        <3> SUFFICES ASSUME NEW e \in Effect, e > effect'
                     PROVE  conn'[e] = "off"
            OBVIOUS
        <3>1. e # effect' /\ e > effect
            BY <2>1 DEF Effect
        <3> QED
            BY <2>3, <3>1 DEF Running, Cleaned
    <2>5. \A e \in Effect : conn'[e] \notin {"connecting", "open", "backoff"}
        BY <2>1, <2>3 DEF Cleaned
    <2>6. conn[effect'] = "off"
        BY <2>1 DEF Running, Effect
    <2>7. \A e \in Effect : items'[e] # <<>> => conn'[e] = "answered"
        BY <1>3, <2>3, <2>6 DEF Running, Select, Cleaned
    <2> QED
        BY <1>3, <2>1, <2>2, <2>4, <2>5, <2>7 DEF Running, Select
<1>4. CASE Deselect
    BY <1>4 DEF TypeOK, Running, Deselect, Cleaned
<1>5. ASSUME NEW e \in Effect, Answer(e) \/ AnswerFails(e)
      PROVE  Running'
    BY <1>5 DEF TypeOK, Running, Cancelled, Answer, AnswerFails, effects, page
<1>6. ASSUME NEW e \in Effect, ReceiveCancelled(e)
      PROVE  Running'
    BY <1>6 DEF TypeOK, Running, Cancelled, ReceiveCancelled, effects, page
<1>7. ASSUME NEW e \in Effect, Receive(e)
      PROVE  Running'
    BY <1>7 DEF TypeOK, Running, Cancelled, Receive, effects
<1>8. ASSUME NEW e \in Effect, Open(e)
      PROVE  Running'
    BY <1>8 DEF TypeOK, Running, Cancelled, Open, effects, page
<1>9. ASSUME NEW e \in Effect, Message(e)
      PROVE  Running'
    BY <1>9 DEF TypeOK, Running, Cancelled, Message, effects
<1>10. CASE Frame
    BY <1>10 DEF TypeOK, Running, Cancelled, Frame, effects
<1>11. ASSUME NEW e \in Effect, Lose(e) \/ Finish(e)
       PROVE  Running'
    BY <1>11 DEF TypeOK, Running, Cancelled, Lose, Finish, effects, page
<1>12. ASSUME NEW e \in Effect, Reconnect(e)
       PROVE  Running'
    BY <1>12 DEF TypeOK, Running, Cancelled, Reconnect, effects, page
<1> QED
    BY <1>1, <1>2, <1>3, <1>4, <1>5, <1>6, <1>7, <1>8, <1>9, <1>10, <1>11, <1>12
       DEF Next, Connect

-----------------------------------------------------------------------------
(* What is given and added.                                                *)

LEMMA RangeEmpty ==
    ASSUME NEW S, NEW q \in Seq(S)
    PROVE  Range(q) = {} <=> q = <<>>
<1>1. DOMAIN q = 1..Len(q) /\ Len(q) \in Nat
    OBVIOUS
<1>2. q = <<>> => Range(q) = {}
    BY DEF Range
<1>3. ASSUME q # <<>>
      PROVE  Range(q) # {}
    <2>1. 1 \in DOMAIN q
        BY <1>1, <1>3
    <2> QED
        BY <2>1 DEF Range
<1> QED
    BY <1>2, <1>3

\* What the gate lets through is new, and what it does not was added before.
LEMMA DedupAdds ==
    ASSUME TypeOK, Remembers, NEW q \in Seq(Event)
    PROVE  /\ Dedup(q) \in Seq(Event)
           /\ Range(committed \o Dedup(q)) = Range(committed) \union Range(Dedup(q))
           /\ Range(Dedup(q)) \subseteq Range(q)
           /\ Range(q) \subseteq Range(committed) \union Range(Dedup(q))
<1>1. Dedup(q) \in Seq(Event) /\ Range(Dedup(q)) = Range(q) \ Range(seen)
    BY DedupNew
<1>2. committed \in Seq(Event) /\ SeenCap \in Nat
    BY ClientAssumption DEF TypeOK
<1>3. Range(committed \o Dedup(q)) = Range(committed) \union Range(Dedup(q))
    BY <1>1, <1>2, RangeConcat
<1>4. Range(seen) \subseteq Range(committed)
    BY <1>2, LastOfEnd DEF Remembers
<1> QED
    BY <1>1, <1>3, <1>4

\* What a received answer adds.
LEMMA ReceiveAdds ==
    ASSUME TypeOK, Remembers, NEW e \in Effect, Receive(e)
    PROVE  /\ e = effect /\ selected # Null
           /\ committed' = committed \o Dedup(items[e])
           /\ Range(committed') \subseteq Range(committed) \union Range(items[e])
           /\ Range(committed) \union Range(items[e]) \subseteq Range(committed')
<1>1. items[e] \in Seq(Event)
    BY DEF TypeOK
<1>2. committed' = committed \o Dedup(items[e])
    <2>1. CASE Dedup(items[e]) = <<>>
        <3>1. committed' = committed
            BY <2>1 DEF Receive
        <3> QED
            BY <2>1, <3>1 DEF TypeOK
    <2>2. CASE Dedup(items[e]) # <<>>
        BY <2>2 DEF Receive, Commit
    <2> QED
        BY <2>1, <2>2
<1>3. Range(committed') = Range(committed) \union Range(Dedup(items[e]))
    BY <1>1, <1>2, DedupAdds
<1> QED
    BY <1>1, <1>2, <1>3, DedupAdds DEF Receive, Cancelled

\* What a frame adds.
LEMMA FrameAdds ==
    ASSUME TypeOK, Remembers, Frame
    PROVE  /\ committed' = committed \o Dedup(pending)
           /\ Range(committed') \subseteq Range(committed) \union Range(pending)
           /\ Range(committed) \union Range(pending) \subseteq Range(committed')
<1>1. pending \in Seq(Event)
    BY DEF TypeOK
<1>2. committed' = committed \o Dedup(pending)
    BY DEF Frame, Commit
<1>3. Range(committed') = Range(committed) \union Range(Dedup(pending))
    BY <1>1, <1>2, DedupAdds
<1> QED
    BY <1>1, <1>2, <1>3, DedupAdds

\* What a message moves from the wire to the frame.
LEMMA MessageMoves ==
    ASSUME TypeOK, Running, NEW e \in Effect, Message(e)
    PROVE  /\ e = effect /\ selected # Null
           /\ wire' = [wire EXCEPT ![e] = Tail(wire[e])]
           /\ Head(wire[e]) \in Range(wire[e])
           /\ Range(wire[e]) = {Head(wire[e])} \union Range(Tail(wire[e]))
           /\ Range(pending') = Range(pending) \union {Head(wire[e])}
<1>1. wire[e] \in Seq(Event) /\ wire[e] # <<>> /\ pending \in Seq(Event)
    BY DEF TypeOK, Message
<1>2. /\ Head(wire[e]) \in Event
      /\ Range(wire[e]) = {Head(wire[e])} \union Range(Tail(wire[e]))
    BY <1>1, RangeTail
<1>3. pending' = Append(pending, Head(wire[e])) /\ wire' = [wire EXCEPT ![e] = Tail(wire[e])]
    BY DEF Message
<1>4. Range(pending') = Range(pending) \union {Head(wire[e])}
    BY <1>1, <1>2, <1>3, RangeAppend
<1> QED
    BY <1>2, <1>3, <1>4 DEF Message, Running, Cancelled

LEMMA OfSessionStep ==
    ASSUME TypeOK, Running, OfSession, Remembers, Next
    PROVE  OfSession'
<1>1. ASSUME NEW v \in Event, Accept(v)
      PROVE  OfSession'
    <2>1. ASSUME NEW e \in Effect
          PROVE  \A w \in Range(wire'[e]) : SidOf[w] = target[e]
        <3>1. CASE wire'[e] = wire[e]
            BY <3>1 DEF OfSession
        <3>2. CASE wire'[e] # wire[e]
            <4>1. wire'[e] = Append(wire[e], v) /\ target[e] = SidOf[v]
                BY <1>1, <3>2 DEF Accept
            <4>2. Range(wire'[e]) = Range(wire[e]) \union {v}
                BY <4>1, RangeAppend DEF TypeOK
            <4> QED
                BY <4>1, <4>2 DEF OfSession
        <3> QED
            BY <3>1, <3>2
    <2> QED
        BY <1>1, <2>1 DEF OfSession, Accept, effects, page
<1>2. CASE Persist
    BY <1>2 DEF OfSession, Persist, effects, page
<1>3. ASSUME NEW s \in Session, Select(s)
      PROVE  OfSession'
    <2>1. effect' = effect + 1 /\ effect' \in Effect /\ effect \in Nat
        BY <1>3, ClientAssumption DEF TypeOK, Select, Effect
    <2>2. items[effect'] = <<>>
        <3>1. effect' > effect
            BY <2>1
        <3> QED
            BY <2>1, <3>1 DEF Running
    <2>3. Range(<<>>) = {}
        BY DEF Range
    <2>4. \A e \in Effect : e # effect' => target'[e] = target[e]
        BY <1>3, <2>1 DEF TypeOK, Select
    <2>5. /\ items' = items /\ wire' = [e \in Effect |-> <<>>]
          /\ pending' = <<>> /\ committed' = <<>>
        BY <1>3 DEF Select
    <2> QED
        BY <2>2, <2>3, <2>4, <2>5 DEF OfSession
<1>4. CASE Deselect
    <2>1. Range(<<>>) = {}
        BY DEF Range
    <2>2. /\ items' = items /\ target' = target /\ wire' = [e \in Effect |-> <<>>]
          /\ pending' = <<>> /\ committed' = <<>>
        BY <1>4 DEF Deselect
    <2> QED
        BY <2>1, <2>2 DEF OfSession
<1>5. ASSUME NEW e \in Effect, Answer(e)
      PROVE  OfSession'
    <2>1. \A v \in Range(Backfill(target[e], since[e])) : SidOf[v] = target[e]
        BY BackfillOf DEF TypeOK
    <2>2. /\ items'[e] = Backfill(target[e], since[e])
          /\ \A f \in Effect : f # e => items'[f] = items[f]
        BY <1>5 DEF TypeOK, Answer
    <2> QED
        BY <1>5, <2>1, <2>2 DEF OfSession, Answer, effects, page
<1>6. ASSUME NEW e \in Effect, AnswerFails(e) \/ Reconnect(e)
      PROVE  OfSession'
    BY <1>6 DEF OfSession, AnswerFails, Reconnect, effects, page
<1>7. ASSUME NEW e \in Effect, ReceiveCancelled(e)
      PROVE  OfSession'
    <2>1. Range(<<>>) = {}
        BY DEF Range
    <2>2. items'[e] = <<>> /\ \A f \in Effect : f # e => items'[f] = items[f]
        BY <1>7 DEF TypeOK, ReceiveCancelled
    <2> QED
        BY <1>7, <2>1, <2>2 DEF OfSession, ReceiveCancelled, effects, page
<1>8. ASSUME NEW e \in Effect, Receive(e)
      PROVE  OfSession'
    <2>1. Range(<<>>) = {}
        BY DEF Range
    <2>2. items'[e] = <<>> /\ \A f \in Effect : f # e => items'[f] = items[f]
        BY <1>8 DEF TypeOK, Receive
    <2>3. /\ target' = target /\ selected' = selected
          /\ wire' = wire /\ pending' = pending
        BY <1>8 DEF Receive, effects
    <2>4. target[e] = selected /\ Range(committed') \subseteq Range(committed) \union Range(items[e])
        BY <1>8, ReceiveAdds DEF Running
    <2> QED
        BY <2>1, <2>2, <2>3, <2>4 DEF OfSession
<1>9. ASSUME NEW e \in Effect, Open(e)
      PROVE  OfSession'
    <2> DEFINE first == IF lastTs = Null THEN Replay(target[e]) ELSE <<>>
    <2>1. Range(<<>>) = {}
        BY DEF Range
    <2>2. \A v \in Range(first) : SidOf[v] = target[e]
        BY <2>1, ReplayOf DEF TypeOK
    <2>3. wire'[e] = first /\ \A f \in Effect : f # e => wire'[f] = wire[f]
        BY <1>9 DEF TypeOK, Open
    <2> HIDE DEF first
    <2> QED
        BY <1>9, <2>2, <2>3 DEF OfSession, Open, effects, page
<1>10. ASSUME NEW e \in Effect, Message(e)
       PROVE  OfSession'
    <2>1. /\ target[e] = selected
          /\ Range(pending') = Range(pending) \union {Head(wire[e])}
          /\ Head(wire[e]) \in Range(wire[e])
          /\ Range(Tail(wire[e])) \subseteq Range(wire[e])
          /\ wire' = [wire EXCEPT ![e] = Tail(wire[e])]
        BY <1>10, MessageMoves DEF Running
    <2>2. wire'[e] = Tail(wire[e]) /\ \A f \in Effect : f # e => wire'[f] = wire[f]
        BY <2>1 DEF TypeOK
    <2>3. /\ target' = target /\ selected' = selected
          /\ items' = items /\ committed' = committed
        BY <1>10 DEF Message, effects
    <2> QED
        BY <2>1, <2>2, <2>3 DEF OfSession
<1>11. CASE Frame
    <2>1. Range(<<>>) = {}
        BY DEF Range
    <2>2. /\ target' = target /\ selected' = selected
          /\ items' = items /\ wire' = wire /\ pending' = <<>>
        BY <1>11 DEF Frame, effects
    <2> QED
        BY <1>11, <2>1, <2>2, FrameAdds DEF OfSession
<1>12. ASSUME NEW e \in Effect, Lose(e) \/ Finish(e)
       PROVE  OfSession'
    <2>1. Range(<<>>) = {}
        BY DEF Range
    <2>2. wire'[e] = <<>> /\ \A f \in Effect : f # e => wire'[f] = wire[f]
        BY <1>12 DEF TypeOK, Lose, Finish
    <2> QED
        BY <1>12, <2>1, <2>2 DEF OfSession, Lose, Finish, effects, page
<1> QED
    BY <1>1, <1>2, <1>3, <1>4, <1>5, <1>6, <1>7, <1>8, <1>9, <1>10, <1>11, <1>12
       DEF Next, Connect

LEMMA GivenStep ==
    ASSUME TypeOK, Running, Remembers, Given, Next
    PROVE  Given'
<1> DEFINE on == Range(wire[effect])
           held == Range(pending)
           added == Range(committed)
<1> SUFFICES ASSUME selected' # Null
             PROVE  due' \subseteq on' \union held' \union added'
    BY DEF Given
<1>1. ASSUME NEW v \in Event, Accept(v)
      PROVE  due' \subseteq on' \union held' \union added'
    <2>1. /\ effect' = effect /\ pending' = pending /\ committed' = committed
          /\ selected' = selected
        BY <1>1 DEF Accept, effects, page
    <2>2. effect \in Effect /\ due \subseteq on \union held \union added
        BY <2>1 DEF Given, Running
    <2>3. CASE conn[effect] = "open" /\ target[effect] = SidOf[v]
        <3>1. wire'[effect] = Append(wire[effect], v) /\ due' = due \union {v}
            BY <1>1, <2>2, <2>3 DEF Accept
        <3>2. Range(wire'[effect]) = Range(wire[effect]) \union {v}
            BY <2>2, <3>1, RangeAppend DEF TypeOK
        <3> QED
            BY <2>1, <2>2, <3>1, <3>2
    <2>4. CASE ~ (conn[effect] = "open" /\ target[effect] = SidOf[v])
        <3>1. wire'[effect] = wire[effect] /\ due' = due
            BY <1>1, <2>2, <2>4 DEF Accept
        <3> QED
            BY <2>1, <2>2, <3>1
    <2> QED
        BY <2>3, <2>4
<1>2. CASE Persist
    BY <1>2 DEF Given, Persist, effects, page
<1>3. ASSUME NEW s \in Session, Select(s)
      PROVE  due' \subseteq on' \union held' \union added'
    BY <1>3 DEF Select
<1>4. CASE Deselect
    BY <1>4 DEF Deselect
<1>5. ASSUME NEW e \in Effect, Answer(e) \/ AnswerFails(e) \/ ReceiveCancelled(e) \/ Reconnect(e)
      PROVE  due' \subseteq on' \union held' \union added'
    BY <1>5 DEF Given, Answer, AnswerFails, ReceiveCancelled, Reconnect, effects, page
<1>6. ASSUME NEW e \in Effect, Receive(e)
      PROVE  due' \subseteq on' \union held' \union added'
    <2>1. /\ effect' = effect /\ pending' = pending /\ wire' = wire
          /\ selected' = selected /\ due' = due \union Range(items[e])
        BY <1>6 DEF Receive, effects
    <2>2. added \union Range(items[e]) \subseteq added'
        BY <1>6, ReceiveAdds
    <2> QED
        BY <2>1, <2>2 DEF Given
<1>7. ASSUME NEW e \in Effect, Open(e)
      PROVE  due' \subseteq on' \union held' \union added'
    <2> DEFINE first == IF lastTs = Null THEN Replay(target[e]) ELSE <<>>
    <2>1. e = effect /\ wire[effect] = <<>>
        BY <1>7 DEF Open, Running, Cancelled
    <2>2. /\ effect' = effect /\ pending' = pending /\ committed' = committed
          /\ selected' = selected
        BY <1>7 DEF Open, effects, page
    <2>3. wire'[effect] = first /\ due' = due \union Range(first)
        BY <1>7, <2>1 DEF TypeOK, Open
    <2>4. on = {}
        BY <2>1 DEF Range
    <2> HIDE DEF first
    <2> QED
        BY <2>2, <2>3, <2>4 DEF Given
<1>8. ASSUME NEW e \in Effect, Message(e)
      PROVE  due' \subseteq on' \union held' \union added'
    <2>1. /\ e = effect
          /\ on = {Head(wire[e])} \union Range(Tail(wire[e]))
          /\ held' = held \union {Head(wire[e])}
        BY <1>8, MessageMoves
    <2>2. wire'[effect] = Tail(wire[e])
        BY <1>8, <2>1, MessageMoves DEF TypeOK
    <2>3. /\ effect' = effect /\ committed' = committed /\ due' = due
          /\ selected' = selected
        BY <1>8 DEF Message, effects
    <2> QED
        BY <2>1, <2>2, <2>3 DEF Given
<1>9. CASE Frame
    <2>1. added \union held \subseteq added'
        BY <1>9, FrameAdds
    <2>2. effect' = effect /\ wire' = wire /\ due' = due /\ selected' = selected
        BY <1>9 DEF Frame, effects
    <2> QED
        BY <2>1, <2>2 DEF Given
<1>10. ASSUME NEW e \in Effect, Lose(e) \/ Finish(e)
       PROVE  due' \subseteq on' \union held' \union added'
    <2>1. e = effect
        BY <1>10 DEF Lose, Finish, Running, Cancelled
    <2>2. /\ effect' = effect /\ pending' = pending /\ committed' = committed
          /\ selected' = selected /\ due' = due \ on
        BY <1>10, <2>1 DEF Lose, Finish, effects, page
    <2> QED
        BY <2>2 DEF Given
<1> QED
    BY <1>1, <1>2, <1>3, <1>4, <1>5, <1>6, <1>7, <1>8, <1>9, <1>10 DEF Next, Connect

LEMMA UntouchedStep ==
    ASSUME TypeOK, Running, Remembers, Untouched, Next
    PROVE  Untouched'
<1>1. ASSUME NEW v \in Event, Accept(v)
      PROVE  Untouched'
    BY <1>1 DEF Untouched, Cancelled, Accept, effects, page
<1>2. CASE Persist
    BY <1>2 DEF Untouched, Cancelled, Persist, effects, page
<1>3. ASSUME NEW s \in Session, Select(s)
      PROVE  Untouched'
    BY <1>3 DEF Untouched, Select
<1>4. CASE Deselect
    BY <1>4 DEF Untouched, Deselect
<1>5. ASSUME NEW e \in Effect, Answer(e) \/ AnswerFails(e)
      PROVE  Untouched'
    <2>1. /\ \A f \in Effect : conn'[f] \in {"fetch", "answered"} =>
                 conn[f] \in {"fetch", "answered"}
          /\ since' = since
        BY <1>5 DEF TypeOK, Answer, AnswerFails
    <2>2. /\ selected' = selected /\ effect' = effect /\ lastTs' = lastTs
          /\ pending' = pending /\ committed' = committed
        BY <1>5 DEF Answer, AnswerFails, effects, page
    <2> QED
        BY <2>1, <2>2 DEF Untouched, Cancelled
<1>6. ASSUME NEW e \in Effect, ReceiveCancelled(e)
      PROVE  Untouched'
    <2>1. \A f \in Effect : conn'[f] \in {"fetch", "answered"} =>
              conn[f] \in {"fetch", "answered"} /\ since'[f] = since[f]
        BY <1>6 DEF TypeOK, ReceiveCancelled
    <2>2. /\ selected' = selected /\ effect' = effect /\ lastTs' = lastTs
          /\ pending' = pending /\ committed' = committed
        BY <1>6 DEF ReceiveCancelled, effects, page
    <2> QED
        BY <2>1, <2>2 DEF Untouched, Cancelled
<1>7. ASSUME NEW e \in Effect, Receive(e)
      PROVE  Untouched'
    <2>1. /\ selected' = selected /\ effect' = effect /\ pending' = pending
          /\ e = effect /\ conn'[e] = "connecting"
        BY <1>7, ReceiveAdds DEF TypeOK, Receive, effects
    <2>2. CASE items[e] = <<>>
        <3>1. Dedup(items[e]) = <<>>
            <4>1. Range(items[e]) = {}
                BY <2>2 DEF Range
            <4>2. Range(Dedup(items[e])) = {} /\ Dedup(items[e]) \in Seq(Event)
                BY <4>1, DedupNew DEF TypeOK
            <4> QED
                BY <4>2, RangeEmpty
        <3>2. lastTs' = lastTs /\ committed' = committed
            BY <1>7, <2>2, <3>1 DEF Receive
        <3> QED
            BY <2>1, <3>2 DEF Untouched, Cancelled
    <2>3. CASE items[e] # <<>>
        <3>1. lastTs' # Null
            <4>1. items[e][Len(items[e])] \in Event
                BY <2>3, LastIn DEF TypeOK
            <4> QED
                BY <1>7, <2>3, <4>1, ClientAssumption DEF Receive
        <3> QED
            BY <2>1, <3>1 DEF Untouched, Cancelled
    <2> QED
        BY <2>2, <2>3
<1>8. ASSUME NEW e \in Effect, Open(e) \/ Lose(e) \/ Finish(e)
      PROVE  Untouched'
    <2>1. /\ \A f \in Effect : conn'[f] \in {"fetch", "answered"} =>
                 conn[f] \in {"fetch", "answered"}
          /\ since' = since
        BY <1>8 DEF TypeOK, Open, Lose, Finish
    <2>2. /\ selected' = selected /\ effect' = effect /\ lastTs' = lastTs
          /\ pending' = pending /\ committed' = committed
        BY <1>8 DEF Open, Lose, Finish, effects, page
    <2> QED
        BY <2>1, <2>2 DEF Untouched, Cancelled
<1>9. ASSUME NEW e \in Effect, Message(e)
      PROVE  Untouched'
    <2>1. /\ e = effect /\ conn[e] = "open" /\ conn' = conn
          /\ selected' = selected /\ effect' = effect
        BY <1>9, MessageMoves DEF Message, effects
    <2>2. lastTs' # Null
        <3>1. Head(wire[e]) \in Event
            BY <1>9, RangeTail DEF TypeOK, Message
        <3> QED
            BY <1>9, <3>1, ClientAssumption DEF Message
    <2> QED
        BY <2>1, <2>2 DEF Untouched, Cancelled
<1>10. CASE Frame
    <2>1. /\ pending # <<>> /\ lastTs' = lastTs /\ conn' = conn /\ since' = since
          /\ selected' = selected /\ effect' = effect
        BY <1>10 DEF Frame, effects
    <2> QED
        BY <2>1 DEF Untouched, Cancelled
<1>11. ASSUME NEW e \in Effect, Reconnect(e)
       PROVE  Untouched'
    <2>1. \A f \in Effect : f # e => conn'[f] = conn[f] /\ since'[f] = since[f]
        BY <1>11 DEF TypeOK, Reconnect
    <2>2. since'[e] = lastTs
        BY <1>11 DEF TypeOK, Reconnect
    <2>3. /\ selected' = selected /\ effect' = effect /\ lastTs' = lastTs
          /\ pending' = pending /\ committed' = committed
        BY <1>11 DEF Reconnect, effects, page
    <2> QED
        BY <2>1, <2>2, <2>3 DEF Untouched, Cancelled
<1> QED
    BY <1>1, <1>2, <1>3, <1>4, <1>5, <1>6, <1>7, <1>8, <1>9, <1>10, <1>11
       DEF Next, Connect

-----------------------------------------------------------------------------
(* The seen set and the list.                                              *)

\* What a step does to the list and to what the hook remembers: nothing, or the
\* effect's history starts anew, or the new ones of q are added to the list, or
\* they replace it, while nothing had been added.
Adds(q) ==
    \/ Commit(shown, Dedup(q))
    \/ committed = <<>> /\ Commit(<<>>, Dedup(q))

LEMMA PageStep ==
    ASSUME TypeOK, Running, Untouched, Next
    PROVE  \/ UNCHANGED <<seen, shown, committed>>
           \/ seen' = <<>> /\ committed' = <<>>
           \/ \E q \in Seq(Event) : Adds(q)
<1>1. ASSUME NEW e \in Effect, Receive(e)
      PROVE  \/ UNCHANGED <<seen, shown, committed>>
             \/ \E q \in Seq(Event) : Adds(q)
    <2>1. items[e] \in Seq(Event)
        BY DEF TypeOK
    <2>2. since[e] = Null => committed = <<>>
        BY <1>1 DEF Untouched, Receive
    <2>3. Dedup(items[e]) # <<>> =>
              Commit(IF since[e] = Null THEN <<>> ELSE shown, Dedup(items[e]))
        BY <1>1 DEF Receive
    <2>4. Dedup(items[e]) # <<>> => Adds(items[e])
        <3>1. CASE since[e] = Null
            BY <2>2, <2>3, <3>1 DEF Adds
        <3>2. CASE since[e] # Null
            BY <2>3, <3>2 DEF Adds
        <3> QED
            BY <3>1, <3>2
    <2>5. Dedup(items[e]) = <<>> => UNCHANGED <<seen, shown, committed>>
        BY <1>1 DEF Receive
    <2> QED
        BY <2>1, <2>4, <2>5
<1>2. CASE Frame
    <2>1. pending \in Seq(Event) /\ Adds(pending)
        BY <1>2 DEF TypeOK, Frame, Adds
    <2> QED
        BY <2>1
<1>3. ASSUME NEW s \in Session, Select(s)
      PROVE  seen' = <<>> /\ committed' = <<>>
    BY <1>3 DEF Select
<1>4. CASE Deselect
    BY <1>4 DEF Deselect
<1>5. ASSUME NEW e \in Effect,
             \/ Answer(e) \/ AnswerFails(e) \/ ReceiveCancelled(e) \/ Open(e)
             \/ Message(e) \/ Lose(e) \/ Finish(e) \/ Reconnect(e)
      PROVE  UNCHANGED <<seen, shown, committed>>
    BY <1>5 DEF Answer, AnswerFails, ReceiveCancelled, Open, Message, Lose, Finish,
                Reconnect, page
<1>6. ASSUME NEW v \in Event, Accept(v)
      PROVE  UNCHANGED <<seen, shown, committed>>
    BY <1>6 DEF Accept, page
<1>7. CASE Persist
    BY <1>7 DEF Persist, page
<1> QED
    BY <1>1, <1>2, <1>3, <1>4, <1>5, <1>6, <1>7 DEF Next, Connect

\* Adding what the gate let through.
LEMMA RemembersAdds ==
    ASSUME TypeOK, Remembers, NEW q \in Seq(Event), Adds(q)
    PROVE  Remembers'
<1> DEFINE f == Dedup(q)
           c == committed
           l == Len(c)
<1>1. /\ f \in Seq(Event) /\ Range(f) = Range(q) \ Range(seen) /\ IsInjective(f)
    BY DedupNew
<1>2. seen' = LastOf(seen \o f, SeenCap) /\ committed' = c \o f
    BY DEF Adds, Commit
<1>3. c \in Seq(Event) /\ SeenCap \in Nat /\ l \in Nat /\ Len(f) \in Nat
    BY <1>1, ClientAssumption DEF TypeOK
<1>4. seen = LastOf(c, SeenCap)
    BY DEF Remembers
<1>5. \A i, j \in 1..l : i < j /\ c[i] = c[j] => j - i > SeenCap
    <2>1. DOMAIN c = 1..l
        BY <1>3
    <2> QED
        BY <2>1 DEF Remembers
<1>6. \A i, j \in 1..Len(f) : f[i] = f[j] => i = j
    <2>1. DOMAIN f = 1..Len(f)
        BY <1>1
    <2> QED
        BY <1>1, <2>1 DEF IsInjective
<1>7. ASSUME NEW i \in 1..l, NEW k \in 1..Len(f), c[i] = f[k]
      PROVE  i <= l - SeenCap
    <2>1. f[k] \in Range(f)
        <3>1. DOMAIN f = 1..Len(f)
            BY <1>1
        <3> QED
            BY <3>1 DEF Range
    <2>2. c[i] \notin Range(LastOf(c, SeenCap))
        BY <1>1, <1>4, <1>7, <2>1
    <2>3. ~ (l - SeenCap < i)
        BY <1>3, <2>2, LastOfHolds
    <2> QED
        BY <1>3, <2>3
<1> HIDE DEF f, l
<1>8. /\ \A i \in 1..l : (c \o f)[i] = c[i]
      /\ \A i \in 1..(l + Len(f)) : i > l => (c \o f)[i] = f[i - l] /\ i - l \in 1..Len(f)
      /\ Len(c \o f) = l + Len(f) /\ c \o f \in Seq(Event)
    BY <1>1, <1>3, ConcatProperties DEF l
<1>9. ASSUME NEW i \in 1..(l + Len(f)), NEW j \in 1..(l + Len(f)),
             i < j, (c \o f)[i] = (c \o f)[j]
      PROVE  j - i > SeenCap
    <2>1. CASE j <= l
        <3>1. i \in 1..l /\ j \in 1..l
            BY <1>3, <1>9, <2>1
        <3> QED
            BY <1>5, <1>8, <1>9, <3>1
    <2>2. CASE i > l
        <3>1. j > l
            BY <1>3, <1>9, <2>2
        <3>2. i - l = j - l
            BY <1>6, <1>8, <1>9, <2>2, <3>1
        <3> QED
            BY <1>3, <1>9, <3>2
    <2>3. CASE i <= l /\ j > l
        <3>1. i \in 1..l /\ j - l \in 1..Len(f) /\ c[i] = f[j - l]
            BY <1>3, <1>8, <1>9, <2>3
        <3>2. i <= l - SeenCap
            BY <1>7, <3>1
        <3> QED
            BY <1>3, <2>3, <3>2
    <2> QED
        BY <1>3, <2>1, <2>2, <2>3
<1>10. \A i, j \in DOMAIN (c \o f) : i < j /\ (c \o f)[i] = (c \o f)[j] => j - i > SeenCap
    <2>1. DOMAIN (c \o f) = 1..(l + Len(f))
        BY <1>8
    <2> QED
        BY <1>9, <2>1
<1>11. LastOf(seen \o f, SeenCap) = LastOf(c \o f, SeenCap)
    BY <1>1, <1>3, <1>4, LastOfAgain
<1> QED
    BY <1>2, <1>10, <1>11 DEF Remembers

LEMMA RemembersStep ==
    ASSUME TypeOK, Running, Untouched, Remembers, Next
    PROVE  Remembers'
<1>1. CASE UNCHANGED <<seen, shown, committed>>
    BY <1>1 DEF Remembers
<1>2. CASE seen' = <<>> /\ committed' = <<>>
    <2>1. LastOf(<<>>, SeenCap) = <<>>
        BY ClientAssumption DEF LastOf
    <2> QED
        BY <1>2, <2>1 DEF Remembers
<1>3. CASE \E q \in Seq(Event) : Adds(q)
    BY <1>3, RemembersAdds
<1> QED
    BY <1>1, <1>2, <1>3, PageStep

LEMMA AddedType ==
    ASSUME TypeOK
    PROVE  /\ Added \in Nat /\ Added <= MaxEvents /\ Added <= Len(committed)
           /\ Added = Len(committed) \/ Added = MaxEvents
<1>1. Len(committed) \in Nat /\ MaxEvents \in Nat
    BY ClientAssumption DEF TypeOK
<1> QED
    BY <1>1 DEF Added

LEMMA LatestStep ==
    ASSUME TypeOK, TypeOK', Running, Untouched, Latest, Next
    PROVE  Latest'
<1>1. CASE UNCHANGED <<seen, shown, committed>>
    BY <1>1 DEF Latest, Added, SameEnd
<1>2. CASE seen' = <<>> /\ committed' = <<>>
    <2>1. Len(committed') = 0 /\ Len(shown') \in Nat
        BY <1>2 DEF TypeOK
    <2>2. Added' = 0
        BY <2>1, ClientAssumption DEF Added
    <2> QED
        BY <2>1, <2>2 DEF Latest, SameEnd
<1>3. ASSUME NEW q \in Seq(Event), Adds(q)
      PROVE  Latest'
    <2> DEFINE f == Dedup(q)
               c == committed
    <2>1. f \in Seq(Event)
        BY DedupNew
    <2>2. c \in Seq(Event) /\ shown \in Seq(Event) /\ <<>> \in Seq(Event)
        BY DEF TypeOK
    <2>3. PICK base \in Seq(Event) :
              SameEnd(base, c, Added) /\ shown' = LastOf(base \o f, MaxEvents)
        <3>1. CASE Commit(shown, f)
            BY <2>2, <3>1 DEF Latest, Commit
        <3>2. CASE c = <<>> /\ Commit(<<>>, f)
            <4>1. Len(c) = 0
                BY <3>2
            <4>2. Added = 0
                BY <4>1, ClientAssumption DEF Added
            <4>3. SameEnd(<<>>, c, Added)
                BY <4>1, <4>2 DEF SameEnd
            <4> QED
                BY <2>2, <3>2, <4>3 DEF Commit
        <3> QED
            BY <1>3, <3>1, <3>2 DEF Adds
    <2>4. committed' = c \o f
        BY <1>3 DEF Adds, Commit
    <2>5. Len(c \o f) = Len(c) + Len(f)
        BY <2>1, <2>2, ConcatProperties
    <2>6. /\ Added \in Nat /\ (Added = Len(c) \/ Added = MaxEvents)
          /\ Added' \in Nat /\ Added' <= MaxEvents /\ Added' <= Len(c) + Len(f)
        <3>1. /\ Added' \in Nat /\ Added' <= MaxEvents /\ Added' <= Len(committed')
            <4>1. Len(committed') \in Nat /\ MaxEvents \in Nat
                BY ClientAssumption DEF TypeOK
            <4> QED
                BY <4>1 DEF Added
        <3> QED
            BY <2>4, <2>5, <3>1, AddedType
    <2>7. MaxEvents \in Nat
        BY ClientAssumption
    <2> HIDE DEF f
    <2>8. SameEnd(LastOf(base \o f, MaxEvents), c \o f, Added')
        BY <2>1, <2>2, <2>3, <2>6, <2>7, SameEndAdded
    <2> QED
        BY <2>3, <2>4, <2>8 DEF Latest
<1> QED
    BY <1>1, <1>2, <1>3, PageStep

-----------------------------------------------------------------------------
(* The theorems.                                                           *)

LEMMA InitInv ==
    ASSUME Init
    PROVE  IInv
<1>1. /\ 0 <= SeenCap /\ 0 <= MaxEvents /\ 0 \in 0..MaxEffects /\ 0 \in 0..MaxCloses
      /\ <<>> \in Seq(Event) /\ Len(<<>>) = 0 /\ Range(<<>>) = {}
    BY ClientAssumption DEF Range
<1>2. TypeOK
    BY <1>1, ClientAssumption DEF Init, TypeOK
<1>3. Running
    BY DEF Init, Running
<1>4. OfSession
    BY <1>1 DEF Init, OfSession
<1>5. Given
    BY DEF Init, Given
<1>6. Untouched
    BY DEF Init, Untouched
<1>7. Remembers
    <2>1. LastOf(<<>>, SeenCap) = <<>>
        BY ClientAssumption DEF LastOf
    <2> QED
        BY <2>1 DEF Init, Remembers
<1>8. Latest
    <2>1. Added = 0
        BY <1>1, ClientAssumption DEF Init, Added
    <2> QED
        BY <1>1, <2>1 DEF Init, Latest, SameEnd
<1> QED
    BY <1>2, <1>3, <1>4, <1>5, <1>6, <1>7, <1>8 DEF IInv

LEMMA StepInv ==
    ASSUME IInv, [Next]_vars
    PROVE  IInv'
<1>1. CASE Next
    <2>1. TypeOK'
        BY <1>1, TypeStep DEF IInv
    <2>2. Running'
        BY <1>1, RunningStep DEF IInv
    <2>3. OfSession'
        BY <1>1, OfSessionStep DEF IInv
    <2>4. Given'
        BY <1>1, GivenStep DEF IInv
    <2>5. Untouched'
        BY <1>1, UntouchedStep DEF IInv
    <2>6. Remembers'
        BY <1>1, RemembersStep DEF IInv
    <2>7. Latest'
        BY <1>1, <2>1, LatestStep DEF IInv
    <2> QED
        BY <2>1, <2>2, <2>3, <2>4, <2>5, <2>6, <2>7 DEF IInv
<1>2. CASE UNCHANGED vars
    BY <1>2 DEF vars, IInv, TypeOK, Running, OfSession, Given, Untouched, Remembers,
                Latest, Added, SameEnd, Cancelled
<1> QED
    BY <1>1, <1>2

LEMMA Invariance == Spec => []IInv
<1>1. Init => IInv
    BY InitInv
<1>2. IInv /\ [Next]_vars => IInv'
    BY StepInv
<1> QED
    BY <1>1, <1>2, PTL DEF Spec

\* Every variable of the hook and of the backend as it sees it keeps its type:
\* the list never exceeds MAX_EVENTS, nor what the hook remembers SEEN_CAP.
THEOREM TypeCorrect == Spec => []TypeOK
<1>1. IInv => TypeOK
    BY DEF IInv
<1> QED
    BY <1>1, Invariance, PTL

\* However fast the selection changes, only the effect that runs has a socket,
\* to the session that is selected.
THEOREM OneSocketHolds == Spec => []OneSocket
<1>1. IInv => OneSocket
    <2> SUFFICES ASSUME IInv
                 PROVE  OneSocket
        OBVIOUS
    <2>1. ASSUME NEW e \in Effect, conn[e] \in {"connecting", "open"}
          PROVE  ~Cancelled(e) /\ target[e] = selected
        BY <2>1 DEF IInv, Running, Cancelled
    <2> QED
        BY <2>1 DEF IInv, OneSocket
<1> QED
    BY <1>1, Invariance, PTL

\* Whatever an answer or an open socket gave the running effect is on the wire,
\* waits for a frame or was added; all that was added is of the selected session;
\* and no id is added again before SeenCap others.
THEOREM GivenIsAddedOnceHolds == Spec => []GivenIsAddedOnce
<1>1. IInv => GivenIsAddedOnce
    BY DEF IInv, Given, OfSession, Remembers, GivenIsAddedOnce
<1> QED
    BY <1>1, Invariance, PTL

\* The list ends with the last MAX_EVENTS of what the running effect added, or
\* with all of it.
THEOREM ListEndsWithLatestHolds == Spec => []ListEndsWithLatest
<1>1. IInv => ListEndsWithLatest
    <2> SUFFICES ASSUME IInv
                 PROVE  ListEndsWithLatest
        OBVIOUS
    <2>1. Added \in Nat /\ shown \in Seq(Event) /\ committed \in Seq(Event)
        BY AddedType DEF IInv, TypeOK
    <2>2. SameEnd(shown, committed, Added)
        BY DEF IInv, Latest
    <2>3. LastOf(shown, Added) = LastOf(committed, Added)
        BY <2>1, <2>2, SameLast
    <2>4. Len(shown) >= Added
        BY <2>1, <2>2 DEF SameEnd
    <2> QED
        BY <2>3, <2>4 DEF ListEndsWithLatest, Added
<1> QED
    BY <1>1, Invariance, PTL

=============================================================================
