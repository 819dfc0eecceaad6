--------------------------- MODULE Readers_proofs ---------------------------
(***************************************************************************)
(* Proofs about those who read what others are writing: the tools of the   *)
(* MCP bridge, the connections of the store, and the followers of a log.   *)
(***************************************************************************)
EXTENDS LogFiles, McpTools, StoreConnections, Queues_proofs, FiniteSetTheorems

-----------------------------------------------------------------------------
(***************************************************************************)
(* The log file and those who follow it, for every length of the lines,    *)
(* of the chunks and of the file, and any number of threads.               *)
(***************************************************************************)

\* Where line i of f ends.
Offset(f, i) == EndOf(f)[i]

LogLine == 1..MaxLines

LEMMA Lengths ==
    /\ MaxLines \in Nat /\ \A n \in LogLine : LenOf[n] \in Nat /\ 2 <= LenOf[n]
    /\ {MaxBytes, Chunk, TailLines, MaxEntries, Burst} \subseteq Nat \ {0}
    /\ {Backlog, MaxTails, MaxMoves} \subseteq Nat
<1>1. LenOf \in Seq(Nat \ {0, 1})
    BY LogFilesAssumption
<1>2. MaxLines \in Nat /\ \A n \in 1..MaxLines : LenOf[n] \in Nat \ {0, 1}
    BY <1>1, LenProperties, ElementOfSeq DEF MaxLines
<1>3. \A n \in LogLine : LenOf[n] \in Nat /\ 2 <= LenOf[n]
    BY <1>2 DEF LogLine
<1> QED
    BY <1>2, <1>3, LogFilesAssumption

\* The recursive function of EndOf exists, and is what its definition says.
Ends(g, f, n) == g = [i \in 0..n |-> IF i = 0 THEN 0 ELSE g[i - 1] + LenOf[f[i]]]

LEMMA EndOfExists ==
    ASSUME NEW f \in Seq(LogLine)
    PROVE  \E g : Ends(g, f, Len(f))
<1> DEFINE n == Len(f)
           step == [p \in Nat \X (1..n) |-> p[1] + LenOf[f[p[2]]]]
<1>1. n \in Nat /\ \A i \in 1..n : f[i] \in LogLine
    BY LenProperties, ElementOfSeq
<1>2. \A i \in 1..n : LenOf[f[i]] \in Nat
    BY <1>1, Lengths
<1> HIDE DEF n
<1>3. step \in [Nat \X (1..n) -> Nat]
    BY <1>2
<1>4. \A x \in Nat, i \in 1..n : step[<<x, i>>] = x + LenOf[f[i]]
    OBVIOUS
<1> HIDE DEF step
<1>5. Recursive(Nat, 0, step, n)
    BY <1>3 DEF Recursive
<1>6. PICK g : Follows(g, Nat, 0, step, n)
    BY <1>1, <1>5, Recursion
<1>7. /\ g \in [0..n -> Nat] /\ g[0] = 0
      /\ \A i \in 1..n : g[i] = step[<<g[i - 1], i>>]
    BY <1>6 DEF Follows
<1>8. ASSUME NEW i \in 0..n
      PROVE  g[i] = IF i = 0 THEN 0 ELSE g[i - 1] + LenOf[f[i]]
    <2>1. CASE i = 0
        BY <1>7, <2>1
    <2>2. CASE i # 0
        <3>1. i \in 1..n /\ i - 1 \in 0..n
            BY <1>1, <2>2
        <3> QED
            BY <1>4, <1>7, <2>2, <3>1
    <2> QED
        BY <2>1, <2>2
<1>9. Ends(g, f, n)
    BY <1>7, <1>8 DEF Ends
<1> QED
    BY <1>9 DEF n

\* Offsets are naturals that start at 0 and grow by the lengths of the lines.
LEMMA Offsets ==
    ASSUME NEW f \in Seq(LogLine)
    PROVE  /\ Offset(f, 0) = 0
           /\ \A i \in 1..Len(f) : /\ f[i] \in LogLine /\ Offset(f, i - 1) \in Nat
                                   /\ Offset(f, i) = Offset(f, i - 1) + LenOf[f[i]]
           /\ \A i \in 0..Len(f) : Offset(f, i) \in Nat
<1> DEFINE n == Len(f)
           g == CHOOSE e : Ends(e, f, n)
           G == {i \in 0..n : g[i] \in Nat}
<1>1. n \in Nat /\ \A i \in 1..n : f[i] \in LogLine /\ LenOf[f[i]] \in Nat
    BY Lengths, LenProperties, ElementOfSeq
<1>2. EndOf(f) = g
    BY DEF EndOf, Ends
<1>3. Ends(g, f, n)
    BY EndOfExists
<1> HIDE DEF n, g
<1>4. g[0] = 0 /\ \A i \in 1..n : g[i] = g[i - 1] + LenOf[f[i]]
    BY <1>1, <1>3 DEF Ends
<1>5. 0 \in G
    BY <1>1, <1>4
<1>6. ASSUME NEW i \in 1..n, i - 1 \in G
      PROVE  i \in G
    BY <1>1, <1>4, <1>6
<1> HIDE DEF G
<1>7. \A i \in 0..n : i \in G
    BY <1>1, <1>5, <1>6, Induction
<1>8. \A i \in 0..n : g[i] \in Nat
    BY <1>7 DEF G
<1>9. \A i \in 1..n : i - 1 \in 0..n
    BY <1>1
<1> QED
    BY <1>1, <1>2, <1>4, <1>8, <1>9 DEF Offset, n

\* The files that agree on their first n lines have the same offsets there.
LEMMA OffsetsAgree ==
    ASSUME NEW f \in Seq(LogLine), NEW h \in Seq(LogLine), NEW n \in 0..Len(f), n <= Len(h),
           \A i \in 1..n : f[i] = h[i]
    PROVE  \A i \in 0..n : Offset(f, i) = Offset(h, i)
<1> DEFINE G == {i \in 0..n : Offset(f, i) = Offset(h, i)}
<1>1. n \in Nat /\ \A i \in 1..n : i \in 1..Len(f) /\ i \in 1..Len(h)
    BY LenProperties
<1>2. 0 \in G
    BY <1>1, Offsets
<1>3. ASSUME NEW i \in 1..n, i - 1 \in G
      PROVE  i \in G
    <2>1. Offset(f, i) = Offset(f, i - 1) + LenOf[f[i]] /\ Offset(h, i) = Offset(h, i - 1) + LenOf[h[i]]
        BY <1>1, Offsets
    <2> QED
        BY <1>3, <2>1
<1> HIDE DEF G
<1>4. \A i \in 0..n : i \in G
    BY <1>1, <1>2, <1>3, Induction
<1> QED
    BY <1>4 DEF G

\* A later line ends at least two bytes later.
LEMMA OffsetsGrow ==
    ASSUME NEW f \in Seq(LogLine), NEW i \in 0..Len(f), NEW j \in 0..Len(f), i < j
    PROVE  Offset(f, i) + 2 <= Offset(f, j)
<1> DEFINE n == Len(f)
           G == {k \in 0..n : i < k => Offset(f, i) + 2 <= Offset(f, k)}
<1>1. n \in Nat /\ \A k \in 0..n : Offset(f, k) \in Nat
    BY Offsets, LenProperties
<1>2. \A k \in 1..n : LenOf[f[k]] \in Nat /\ 2 <= LenOf[f[k]] /\ Offset(f, k) = Offset(f, k - 1) + LenOf[f[k]]
    BY Offsets, Lengths
<1> HIDE DEF n
<1>3. 0 \in G
    BY <1>1 DEF n
<1>4. ASSUME NEW k \in 1..n, k - 1 \in G
      PROVE  k \in G
    <2> DEFINE x == Offset(f, i)
               y == Offset(f, k - 1)
               z == Offset(f, k)
               m == LenOf[f[k]]
    <2>1. k - 1 \in 0..n /\ k \in 0..n /\ i \in 0..n
        BY <1>1 DEF n
    <2>2. x \in Nat /\ y \in Nat /\ z \in Nat /\ m \in Nat /\ 2 <= m /\ z = y + m
        BY <1>1, <1>2, <2>1
    <2>3. i < k - 1 => x + 2 <= y
        BY <1>4
    <2>4. i = k - 1 => x = y
        OBVIOUS
    <2> HIDE DEF x, y, z, m
    <2>5. i < k => x + 2 <= z
        BY <2>1, <2>2, <2>3, <2>4
    <2> QED
        BY <2>1, <2>5 DEF x, z
<1> HIDE DEF G
<1>5. \A k \in 0..n : k \in G
    BY <1>1, <1>3, <1>4, Induction
<1> QED
    BY <1>5 DEF G, n

\* The size of a file is where its last line ends; an appended line leaves the
\* offsets there were.
LEMMA SizeIs ==
    ASSUME NEW f \in Seq(LogLine)
    PROVE  /\ Size(f) = Offset(f, Len(f)) /\ Size(f) \in Nat
           /\ \A i \in 0..Len(f) : Offset(f, i) <= Size(f)
<1>1. Len(f) \in Nat /\ Len(f) \in 0..Len(f)
    BY LenProperties
<1>2. Size(f) = Offset(f, Len(f)) /\ Size(f) \in Nat
    BY <1>1, Offsets DEF Size, Offset
<1>3. ASSUME NEW i \in 0..Len(f)
      PROVE  Offset(f, i) <= Size(f)
    <2>1. Offset(f, i) \in Nat
        BY Offsets
    <2>2. CASE i = Len(f)
        BY <1>2, <2>2
    <2>3. CASE i # Len(f)
        <3>1. i < Len(f)
            BY <1>1, <2>3
        <3>2. Offset(f, i) + 2 <= Offset(f, Len(f))
            BY <1>1, <3>1, OffsetsGrow
        <3> QED
            BY <1>2, <2>1, <3>2
    <2> QED
        BY <2>2, <2>3
<1> QED
    BY <1>2, <1>3

LEMMA OffsetsAppend ==
    ASSUME NEW f \in Seq(LogLine), NEW n \in LogLine
    PROVE  /\ Append(f, n) \in Seq(LogLine)
           /\ \A i \in 0..Len(f) : Offset(Append(f, n), i) = Offset(f, i)
           /\ Size(Append(f, n)) = Size(f) + LenOf[n]
<1> DEFINE h == Append(f, n)
           m == Len(f)
<1>1. h \in Seq(LogLine) /\ m \in Nat /\ Len(h) = m + 1 /\ h[m + 1] = n /\ \A i \in 1..m : f[i] = h[i]
    BY AppendProperties, LenProperties
<1> HIDE DEF h, m
<1>2. \A i \in 0..m : Offset(f, i) = Offset(h, i)
    BY <1>1, OffsetsAgree DEF m
<1>3. Offset(h, m + 1) = Offset(h, m) + LenOf[n]
    <2>1. m + 1 \in 1..Len(h) /\ (m + 1) - 1 = m
        BY <1>1
    <2> QED
        BY <1>1, <2>1, Offsets
<1>4. Size(h) = Offset(h, m + 1) /\ Size(f) = Offset(f, m) /\ m \in 0..m
    BY <1>1, SizeIs DEF m
<1> QED
    BY <1>1, <1>2, <1>3, <1>4 DEF h, m

\* Lines that follow each other in fewer writes than there are between two
\* polls take less than a third of what a file holds.
LEMMA LongestLine ==
    \E L \in Nat : 3 * (Burst * L) < MaxBytes /\ \A n \in LogLine : LenOf[n] <= L
<1> DEFINE G == {m \in 0..MaxLines : \E L \in Nat : 3 * (Burst * L) < MaxBytes
                                                    /\ \A n \in 1..m : LenOf[n] <= L}
<1>1. MaxLines \in Nat /\ Burst \in Nat /\ MaxBytes \in Nat /\ 0 < MaxBytes
      /\ \A n \in 1..MaxLines : LenOf[n] \in Nat
    BY Lengths DEF LogLine
<1>2. 0 \in G
    <2>1. 3 * (Burst * 0) < MaxBytes
        BY <1>1
    <2> QED
        BY <1>1, <2>1
<1>3. ASSUME NEW m \in 1..MaxLines, m - 1 \in G
      PROVE  m \in G
    <2>1. PICK L \in Nat : 3 * (Burst * L) < MaxBytes /\ \A n \in 1..(m - 1) : LenOf[n] <= L
        BY <1>3
    <2>2. 3 * (Burst * LenOf[m]) < MaxBytes
        <3> DEFINE l == LenOf[m]
        <3>1. 3 * Burst * l < MaxBytes /\ l \in Nat
            BY <1>1, LogFilesAssumption
        <3> HIDE DEF l
        <3>2. 3 * Burst * l = 3 * (Burst * l)
            BY <1>1, <3>1
        <3> QED
            BY <3>1, <3>2 DEF l
    <2>3. \A n \in 1..m : n \in 1..(m - 1) \/ n = m
        BY <1>1
    <2>4. CASE LenOf[m] <= L
        <3>1. \A n \in 1..m : LenOf[n] <= L
            BY <2>1, <2>3, <2>4
        <3> QED
            BY <1>1, <2>1, <3>1
    <2>5. CASE L < LenOf[m]
        <3>1. \A n \in 1..m : LenOf[n] <= LenOf[m]
            BY <1>1, <2>1, <2>3, <2>5
        <3> QED
            BY <1>1, <2>2, <3>1
    <2> QED
        BY <1>1, <2>1, <2>4, <2>5
<1> HIDE DEF G
<1>4. MaxLines \in G
    BY <1>1, <1>2, <1>3, Induction
<1> QED
    BY <1>4 DEF G, LogLine

\* Two places of f that are Burst lines apart at most.
LEMMA OffsetsNear ==
    ASSUME NEW f \in Seq(LogLine), NEW i \in 0..Len(f), NEW j \in 0..Len(f), i <= j, j <= i + Burst
    PROVE  3 * (Offset(f, j) - Offset(f, i)) < MaxBytes
<1>1. PICK L \in Nat : 3 * (Burst * L) < MaxBytes /\ \A n \in LogLine : LenOf[n] <= L
    BY LongestLine
<1> DEFINE d == j - i
           G == {m \in 0..d : Offset(f, i + m) - Offset(f, i) <= m * L}
<1>2. Burst \in Nat /\ MaxBytes \in Nat /\ d \in Nat /\ Len(f) \in Nat /\ i \in Nat /\ d <= Burst /\ i + d = j
    BY Lengths, LenProperties
<1>3. \A k \in 0..Len(f) : Offset(f, k) \in Nat
    BY Offsets
<1> HIDE DEF d
<1>4. 0 \in G
    <2>1. i + 0 = i /\ 0 * L = 0
        BY <1>2
    <2> QED
        BY <1>2, <1>3, <2>1
<1>5. ASSUME NEW m \in 1..d, m - 1 \in G
      PROVE  m \in G
    <2> DEFINE x == Offset(f, i + m)
               y == Offset(f, i + (m - 1))
               z == Offset(f, i)
               l == LenOf[f[i + m]]
    <2>1. i + m \in 1..Len(f) /\ i + (m - 1) = (i + m) - 1 /\ i + m \in 0..Len(f) /\ i + (m - 1) \in 0..Len(f)
        BY <1>2
    <2>2. x \in Nat /\ y \in Nat /\ z \in Nat
        BY <1>3, <2>1
    <2>3. x = y + l /\ f[i + m] \in LogLine
        BY <2>1, Offsets
    <2>4. l \in Nat /\ l <= L
        BY <1>1, <2>3, Lengths
    <2>5. y - z <= (m - 1) * L
        BY <1>5
    <2> HIDE DEF x, y, z, l
    <2>6. m \in Nat /\ (m - 1) * L \in Int /\ m * L = (m - 1) * L + L
        BY <1>2
    <2>7. x - z <= m * L
        BY <2>2, <2>3, <2>4, <2>5, <2>6
    <2> QED
        BY <2>7 DEF x, z
<1> HIDE DEF G
<1>6. d \in G
    <2>1. \A m \in 0..d : m \in G
        BY <1>2, <1>4, <1>5, Induction
    <2> QED
        BY <1>2, <2>1
<1>7. Offset(f, j) - Offset(f, i) <= d * L
    BY <1>2, <1>6 DEF G
<1>8. d * L <= Burst * L /\ d * L \in Nat /\ Burst * L \in Nat
    <2>1. PICK e \in Nat : Burst = d + e
        BY <1>2
    <2>2. (d + e) * L = d * L + e * L /\ d * L \in Nat /\ e * L \in Nat
        BY <1>2
    <2> QED
        BY <2>1, <2>2
<1> DEFINE u == d * L
           v == Burst * L
           x == Offset(f, j)
           z == Offset(f, i)
<1>9. u \in Nat /\ v \in Nat /\ u <= v /\ 3 * v < MaxBytes /\ x - z <= u /\ x \in Nat /\ z \in Nat
    BY <1>1, <1>3, <1>7, <1>8
<1> HIDE DEF u, v, x, z
<1>10. 3 * (x - z) < MaxBytes
    BY <1>2, <1>9
<1> QED
    BY <1>10 DEF x, z

-----------------------------------------------------------------------------
(* The end of a sequence.                                                  *)

\* t is the last c elements of s.
Kept(s, n) == IF n = 0 \/ n > Len(s) THEN Len(s) ELSE n

Ending(S, t, s, c) ==
    /\ c \in Nat /\ c <= Len(s)
    /\ t \in Seq(S) /\ Len(t) = c
    /\ \A j \in 1..c : t[j] = s[(Len(s) - c) + j]

LEMMA LastOfIs ==
    ASSUME NEW S, NEW s \in Seq(S), NEW n \in Nat
    PROVE  Ending(S, LastOf(s, n), s, Kept(s, n))
<1>0. PICK c : c = Kept(s, n)
    OBVIOUS
<1>1. Len(s) \in Nat /\ c \in Nat /\ c <= Len(s)
    BY <1>0, LenProperties DEF Kept
<1>2. CASE n = 0 \/ n > Len(s)
    <2>1. LastOf(s, n) = s /\ c = Len(s)
        BY <1>0, <1>2 DEF LastOf, Kept
    <2>2. \A j \in 1..c : (Len(s) - c) + j = j
        BY <1>1, <2>1
    <2> QED
        BY <1>0, <1>1, <2>1, <2>2 DEF Ending
<1>3. CASE ~ (n = 0 \/ n > Len(s))
    <2> DEFINE a == Len(s) - n + 1
               b == Len(s)
               t == SubSeq(s, a, b)
    <2>1. LastOf(s, n) = t /\ c = n
        BY <1>0, <1>3 DEF LastOf, Kept
    <2>2. a \in 1..Len(s) /\ b \in 1..Len(s) /\ a <= b /\ b - a + 1 = n
        BY <1>1, <1>3
    <2>3. t \in Seq(S) /\ Len(t) = n /\ \A j \in 1..n : t[j] = s[a + j - 1]
        <3> HIDE DEF a, b
        <3> QED
            BY <1>1, <2>2, SubSeqProperties
    <2>4. \A j \in 1..n : a + j - 1 = (Len(s) - n) + j
        BY <1>1
    <2> HIDE DEF a, b, t
    <2> QED
        BY <1>0, <1>1, <2>1, <2>3, <2>4 DEF Ending
<1> QED
    BY <1>2, <1>3

LEMMA LastOfIn ==
    ASSUME NEW S, NEW s \in Seq(S), NEW n \in Nat
    PROVE  /\ LastOf(s, n) \in Seq(S)
           /\ Len(LastOf(s, n)) = Kept(s, n)
BY LastOfIs DEF Ending

LEMMA LastOfAll ==
    ASSUME NEW S, NEW s \in Seq(S), NEW n \in Nat, Len(s) <= n
    PROVE  LastOf(s, n) = s
<1>1. Len(s) \in Nat
    BY LenProperties
<1>2. CASE n = 0 \/ n > Len(s)
    BY <1>2 DEF LastOf
<1>3. CASE ~ (n = 0 \/ n > Len(s))
    <2>1. n = Len(s)
        BY <1>1, <1>3
    <2> DEFINE t == LastOf(s, n)
               c == Len(s)
    <2>2. Ending(S, t, s, Kept(s, n)) /\ Kept(s, n) = c
        BY <2>1, LastOfIs DEF Kept
    <2> HIDE DEF t, c
    <2>3. t \in Seq(S) /\ Len(t) = c /\ c = Len(s) /\ \A j \in 1..c : t[j] = s[(Len(s) - c) + j]
        BY <2>2 DEF Ending, c
    <2>4. \A j \in 1..c : t[j] = s[j]
        BY <1>1, <2>3
    <2>5. t = s
        BY <2>3, <2>4, SeqEqual
    <2> QED
        BY <2>5 DEF t
<1> QED
    BY <1>2, <1>3

\* The last n elements depend on the last n elements only.
LEMMA LastOfSame ==
    ASSUME NEW S, NEW s \in Seq(S), NEW t \in Seq(S), NEW n \in Nat \ {0},
           n <= Len(s), n <= Len(t),
           \A j \in 1..n : s[(Len(s) - n) + j] = t[(Len(t) - n) + j]
    PROVE  LastOf(s, n) = LastOf(t, n)
<1>1. Len(s) \in Nat /\ Len(t) \in Nat /\ n \in Nat
    BY LenProperties
<1> DEFINE u == LastOf(s, n)
           v == LastOf(t, n)
<1>2. Kept(s, n) = n /\ Kept(t, n) = n
    BY <1>1 DEF Kept
<1>3. Ending(S, u, s, Kept(s, n)) /\ Ending(S, v, t, Kept(t, n))
    BY <1>1, LastOfIs
<1> HIDE DEF u, v
<1>5. u \in Seq(S) /\ Len(u) = n /\ \A j \in 1..n : u[j] = s[(Len(s) - n) + j]
    BY <1>2, <1>3 DEF Ending
<1>6. v \in Seq(S) /\ Len(v) = n /\ \A j \in 1..n : v[j] = t[(Len(t) - n) + j]
    BY <1>2, <1>3 DEF Ending
<1>7. \A j \in 1..n : u[j] = v[j]
    BY <1>5, <1>6
<1>8. u = v
    BY <1>5, <1>6, <1>7, SeqEqual
<1> QED
    BY <1>8 DEF u, v

\* The last n of the last m, if m is not less.
LEMMA LastOfLast ==
    ASSUME NEW S, NEW s \in Seq(S), NEW n \in Nat \ {0}, NEW m \in Nat, n <= m
    PROVE  LastOf(LastOf(s, m), n) = LastOf(s, n)
<1>1. Len(s) \in Nat
    BY LenProperties
<1> DEFINE t == LastOf(s, m)
           c == Kept(s, m)
<1>2. Ending(S, t, s, c)
    BY LastOfIs
<1>4. CASE Len(s) <= m
    BY <1>4, LastOfAll
<1>5. CASE m < Len(s)
    <2>1. c = m
        BY <1>1, <1>5 DEF Kept
    <2> HIDE DEF t, c
    <2>0. t \in Seq(S) /\ Len(t) = c /\ c <= Len(s) /\ \A j \in 1..c : t[j] = s[(Len(s) - c) + j]
        BY <1>2 DEF Ending
    <2>2. ASSUME NEW j \in 1..n
          PROVE  t[(Len(t) - n) + j] = s[(Len(s) - n) + j]
        <3>1. (c - n) + j \in 1..c /\ (Len(s) - c) + ((c - n) + j) = (Len(s) - n) + j
            BY <1>1, <2>1
        <3> QED
            BY <2>0, <3>1
    <2>3. n <= Len(t) /\ n <= Len(s)
        BY <1>1, <1>5, <2>0, <2>1
    <2>4. LastOf(t, n) = LastOf(s, n)
        BY <2>0, <2>2, <2>3, LastOfSame
    <2> QED
        BY <2>4 DEF t
<1> QED
    BY <1>1, <1>4, <1>5

\* What falls out of the front does not matter to what is appended later.
LEMMA LastOfJoined ==
    ASSUME NEW S, NEW o \in Seq(S), NEW f \in Seq(S), NEW n \in Nat \ {0}
    PROVE  LastOf(LastOf(o, n) \o f, n) = LastOf(o \o f, n)
<1>1. Len(o) \in Nat /\ Len(f) \in Nat /\ n \in Nat
    BY LenProperties
<1> DEFINE t == LastOf(o, n)
           c == Kept(o, n)
<1>2. Ending(S, t, o, c)
    BY <1>1, LastOfIs
<1>4. CASE Len(o) <= n
    BY <1>1, <1>4, LastOfAll
<1>5. CASE n < Len(o)
    <2> DEFINE p == Len(o)
               q == Len(f)
               x == t \o f
               y == o \o f
    <2>1. c = n
        BY <1>1, <1>5 DEF Kept
    <2> HIDE DEF t, c
    <2>0. t \in Seq(S) /\ Len(t) = n /\ \A j \in 1..n : t[j] = o[(Len(o) - n) + j]
        BY <1>2, <2>1 DEF Ending
    <2>2. /\ x \in Seq(S) /\ Len(x) = n + q
          /\ \A i \in 1..(n + q) : x[i] = IF i <= n THEN t[i] ELSE f[i - n]
        BY <2>0, ConcatProperties
    <2>3. /\ y \in Seq(S) /\ Len(y) = p + q
          /\ \A i \in 1..(p + q) : y[i] = IF i <= p THEN o[i] ELSE f[i - p]
        BY ConcatProperties
    <2>4. p \in Nat /\ q \in Nat /\ n < p
        BY <1>1, <1>5
    <2>5. \A j \in 1..n : t[j] = o[(p - n) + j]
        BY <2>0
    <2> HIDE DEF p, q, x, y
    <2>6. ASSUME NEW j \in 1..n
          PROVE  x[(Len(x) - n) + j] = y[(Len(y) - n) + j]
        <3>1. (Len(x) - n) + j = q + j /\ (Len(y) - n) + j = ((p + q) - n) + j
            BY <2>2, <2>3, <2>4
        <3>2. q + j \in 1..(n + q) /\ ((p + q) - n) + j \in 1..(p + q)
            BY <2>4
        <3>3. CASE q + j <= n
            <4>1. q + j \in 1..n /\ (p - n) + (q + j) = ((p + q) - n) + j /\ ((p + q) - n) + j <= p
                BY <2>4, <3>3
            <4> QED
                BY <2>2, <2>3, <2>5, <3>1, <3>2, <3>3, <4>1
        <3>4. CASE n < q + j
            <4>1. ~ (q + j <= n) /\ ~ (((p + q) - n) + j <= p) /\ (q + j) - n = (((p + q) - n) + j) - p
                BY <2>4, <3>4
            <4> QED
                BY <2>2, <2>3, <3>1, <3>2, <4>1
        <3> QED
            BY <2>4, <3>3, <3>4
    <2>7. n <= Len(x) /\ n <= Len(y)
        BY <2>2, <2>3, <2>4
    <2>8. LastOf(x, n) = LastOf(y, n)
        BY <2>2, <2>3, <2>6, <2>7, LastOfSame
    <2> QED
        BY <2>8 DEF x, y, t
<1> QED
    BY <1>1, <1>4, <1>5

-----------------------------------------------------------------------------
(* What is read from a file.                                               *)

\* The numbers from a + 1 to b.
Interval(a, b) == [j \in 1..(b - a) |-> a + j]

LEMMA IntervalIn ==
    ASSUME NEW a \in Nat, NEW b \in Nat, a <= b
    PROVE  /\ Interval(a, b) \in Seq(Nat) /\ Len(Interval(a, b)) = b - a
           /\ Range(Interval(a, b)) = (a + 1)..b
<1> DEFINE s == Interval(a, b)
           n == b - a
<1>1. n \in Nat /\ \A j \in 1..n : a + j \in Nat
    OBVIOUS
<1>2. s = [j \in 1..n |-> a + j]
    BY DEF Interval
<1> HIDE DEF s, n
<1>3. s \in Seq(Nat) /\ Len(s) = n /\ DOMAIN s = 1..n /\ \A j \in 1..n : s[j] = a + j
    BY <1>1, <1>2
<1>4. Range(s) = {a + j : j \in 1..n}
    BY <1>3 DEF Range
<1>5. {a + j : j \in 1..n} = (a + 1)..b
    <2>1. \A j \in 1..n : a + j \in (a + 1)..b
        BY DEF n
    <2>2. ASSUME NEW i \in (a + 1)..b
          PROVE  \E j \in 1..n : i = a + j
        <3>1. i - a \in 1..n /\ i = a + (i - a)
            BY DEF n
        <3> QED
            BY <3>1
    <2> QED
        BY <2>1, <2>2
<1> QED
    BY <1>3, <1>4, <1>5 DEF s, n

LEMMA IntervalJoined ==
    ASSUME NEW a \in Nat, NEW b \in Nat, NEW c \in Nat, a <= b, b <= c
    PROVE  Interval(a, c) = Joined(Interval(a, b), Interval(b, c))
<1> DEFINE p == Interval(a, b)
           q == Interval(b, c)
           s == Interval(a, c)
           m == b - a
           n == c - b
<1>1. m \in Nat /\ n \in Nat /\ c - a = m + n /\ b = a + m
    OBVIOUS
<1>2. p \in Seq(Nat) /\ Len(p) = m /\ \A j \in 1..m : p[j] = a + j
    BY <1>1, IntervalIn DEF Interval
<1>3. q \in Seq(Nat) /\ Len(q) = n /\ \A j \in 1..n : q[j] = b + j
    BY <1>1, IntervalIn DEF Interval
<1>4. s \in Seq(Nat) /\ Len(s) = m + n /\ \A j \in 1..(m + n) : s[j] = a + j
    <2>1. a <= c
        OBVIOUS
    <2>2. s \in Seq(Nat) /\ Len(s) = c - a
        BY <2>1, IntervalIn
    <2>3. \A j \in 1..(c - a) : s[j] = a + j
        BY DEF Interval
    <2> QED
        BY <1>1, <2>2, <2>3
<1> HIDE DEF p, q, s, m, n
<1> DEFINE t == p \o q
<1>5. t \in Seq(Nat) /\ Len(t) = m + n /\ \A j \in 1..(m + n) : t[j] = IF j <= m THEN p[j] ELSE q[j - m]
    BY <1>2, <1>3, ConcatProperties
<1> HIDE DEF t
<1>6. ASSUME NEW j \in 1..(m + n)
      PROVE  s[j] = t[j]
    <2>1. CASE j <= m
        <3>1. j \in 1..m
            BY <1>1, <2>1
        <3> QED
            BY <1>2, <1>4, <1>5, <2>1, <3>1
    <2>2. CASE ~ (j <= m)
        <3>1. j - m \in 1..n /\ b + (j - m) = a + j
            BY <1>1, <2>2
        <3> QED
            BY <1>3, <1>4, <1>5, <2>2, <3>1
    <2> QED
        BY <2>1, <2>2
<1>7. s = t
    BY <1>4, <1>5, <1>6, SeqEqual
<1> QED
    BY <1>7 DEF s, t, p, q, Joined

\* The positions that are in an interval are that interval.
LEMMA PositionsInterval ==
    ASSUME NEW S, NEW s \in Seq(S), NEW a \in Nat, NEW b \in Nat, a <= b, b <= Len(s), NEW K,
           \A i \in 1..Len(s) : i \in K <=> a < i /\ i <= b
    PROVE  Positions(s, K) = Interval(a, b)
<1> DEFINE n == Len(s)
           x == Interval(0, a)
           y == Interval(a, b)
           z == Interval(b, n)
<1>1. n \in Nat
    BY LenProperties
<1> HIDE DEF n
<1>2. b <= n /\ \A i \in 1..n : i \in K <=> a < i /\ i <= b
    BY DEF n
<1>3. x \in Seq(Nat) /\ Range(x) = 1..a
    <2>1. 0 \in Nat /\ 0 <= a /\ 0 + 1 = 1
        OBVIOUS
    <2>2. x \in Seq(Nat) /\ Range(x) = (0 + 1)..a
        BY <2>1, IntervalIn
    <2> QED
        BY <2>1, <2>2
<1>4. y \in Seq(Nat) /\ Range(y) = (a + 1)..b
    BY IntervalIn
<1>5. z \in Seq(Nat) /\ Range(z) = (b + 1)..n
    BY <1>1, <1>2, IntervalIn
<1>6. Interval(0, n) = Joined(x, Joined(y, z))
    <2>1. Interval(a, n) = Joined(y, z)
        BY <1>1, <1>2, IntervalJoined
    <2>2. a <= n /\ 0 <= a
        BY <1>1, <1>2
    <2>3. Interval(0, n) = Joined(x, Interval(a, n))
        BY <1>1, <2>2, IntervalJoined
    <2> QED
        BY <2>1, <2>3
<1>7. Range(x) \intersect K = {} /\ Range(y) \subseteq K /\ Range(z) \intersect K = {}
    BY <1>1, <1>2, <1>3, <1>4, <1>5
<1>8. Positions(s, K) = Filter(Interval(0, n), K)
    <2>1. [i \in 1..n |-> i] = Interval(0, n)
        BY <1>1 DEF Interval
    <2> QED
        BY <2>1 DEF Positions, n
<1> HIDE DEF x, y, z
<1>9. Filter(x, K) = <<>> /\ Filter(y, K) = y /\ Filter(z, K) = <<>>
    BY <1>3, <1>4, <1>5, <1>7, FilterAll
<1>10. Filter(Joined(y, z), K) = y
    <2>1. Filter(Joined(y, z), K) = Joined(Filter(y, K), Filter(z, K))
        BY <1>4, <1>5, FilterJoined
    <2>2. y \o <<>> = y
        BY <1>4, ConcatEmptySeq
    <2> QED
        BY <1>9, <2>1, <2>2 DEF Joined
<1>11. Filter(Joined(x, Joined(y, z)), K) = y
    <2>1. Joined(y, z) \in Seq(Nat)
        BY <1>4, <1>5, JoinedIn
    <2>2. Filter(Joined(x, Joined(y, z)), K) = Joined(Filter(x, K), Filter(Joined(y, z), K))
        BY <1>3, <2>1, FilterJoined
    <2>3. <<>> \o y = y
        BY <1>4, ConcatEmptySeq
    <2> QED
        BY <1>9, <1>10, <2>2, <2>3 DEF Joined
<1> QED
    BY <1>6, <1>8, <1>11 DEF y

\* Positions are positions, no more of them than there are.
LEMMA PositionsIn ==
    ASSUME NEW S, NEW s \in Seq(S), NEW K
    PROVE  Positions(s, K) \in Seq(1..Len(s)) /\ Len(Positions(s, K)) <= Len(s)
<1> DEFINE n == Len(s)
           t == [i \in 1..n |-> i]
<1>1. n \in Nat
    BY LenProperties
<1> HIDE DEF n
<1>2. t \in Seq(1..n) /\ Len(t) = n
    BY <1>1
<1> HIDE DEF t
<1>3. Filter(t, K) \in Seq(1..n) /\ Len(Filter(t, K)) <= n
    BY <1>2, FilterRange
<1> QED
    BY <1>3 DEF Positions, t, n

\* What is read is items, fewer than any number that the file has fewer of.
LEMMA ItemsIn ==
    ASSUME NEW from, NEW upto, file \in Seq(LogLine)
    PROVE  Items(from, upto) \in Seq(Item)
<1> DEFINE K == {i \in DOMAIN file : from < EndOf(file)[i] - 1 /\ EndOf(file)[i - 1] < upto}
           t == Positions(file, K)
           n == Len(file)
           m == Len(t)
           cut(i) == IF from <= EndOf(file)[i - 1] /\ EndOf(file)[i] - 1 <= upto THEN file[i] ELSE Torn
<1>1. t \in Seq(1..n)
    BY PositionsIn
<1>2. m \in Nat /\ \A j \in 1..m : t[j] \in 1..n
    <2> HIDE DEF t
    <2> QED
        BY <1>1, LenProperties, ElementOfSeq
<1>3. \A i \in 1..n : file[i] \in LogLine
    BY ElementOfSeq
<1>4. \A i \in 1..n : cut(i) \in Item
    BY <1>3 DEF Item, LogLine
<1>5. Items(from, upto) = [j \in 1..m |-> cut(t[j])]
    BY DEF Items
<1> HIDE DEF t, m, n, cut
<1>6. \A j \in 1..m : cut(t[j]) \in Item
    BY <1>2, <1>4
<1>7. [j \in 1..m |-> cut(t[j])] \in Seq(Item)
    BY <1>2, <1>6
<1> QED
    BY <1>5, <1>7

\* Reading from inside line a + 1, or from the end of line a, to the end of line
\* b gives one item for each of these lines, and those whole that begin at or
\* after the place where the reading starts.
LineOf(t, from, a, n) ==
    /\ t \in Seq(Item) /\ Len(t) = n
    /\ \A j \in 1..n : from <= Offset(file, (a + j) - 1) => t[j] = file[a + j]

LEMMA ItemsBetween ==
    ASSUME file \in Seq(LogLine), NEW a \in 0..Len(file), NEW b \in 0..Len(file), a <= b,
           NEW from \in Nat, NEW upto \in Nat, upto = Offset(file, b),
           Offset(file, a) <= from + 1,
           a < b => from + 1 < Offset(file, a + 1)
    PROVE  LineOf(Items(from, upto), from, a, b - a)
<1> DEFINE off(i) == Offset(file, i)
           K == {i \in DOMAIN file : from < off(i) - 1 /\ off(i - 1) < upto}
           t == Positions(file, K)
           n == Len(file)
           cut(i) == IF from <= off(i - 1) /\ off(i) - 1 <= upto THEN file[i] ELSE Torn
<1>1. n \in Nat /\ DOMAIN file = 1..n /\ a \in 0..n /\ b \in 0..n
    BY LenProperties
<1>2. \A i \in 0..n : off(i) \in Nat
    BY Offsets
<1>3. ASSUME NEW i \in 0..n, NEW j \in 0..n, i < j
      PROVE  off(i) + 2 <= off(j)
    BY <1>3, OffsetsGrow
<1>4. /\ upto = off(b) /\ off(a) <= from + 1 /\ (a < b => from + 1 < off(a + 1))
    OBVIOUS
<1>5. Items(from, upto) = [j \in 1..Len(t) |-> cut(t[j])]
    BY DEF Items, Offset
<1>6. \A i \in 1..n : i \in K <=> from < off(i) - 1 /\ off(i - 1) < upto
    BY <1>1
<1> HIDE DEF off, K, n, cut
<1>7. ASSUME NEW i \in 1..n
      PROVE  off(i - 1) < upto <=> i <= b
    <2>1. i - 1 \in 0..n /\ off(i - 1) \in Nat /\ off(b) \in Nat
        BY <1>1, <1>2
    <2>2. CASE i <= b
        <3>1. off(i - 1) + 2 <= off(b)
            BY <1>1, <1>3, <2>1, <2>2
        <3> QED
            BY <1>4, <2>1, <2>2, <3>1
    <2>3. CASE i - 1 = b
        BY <1>1, <1>4, <2>1, <2>3
    <2>4. CASE b < i - 1
        <3>1. off(b) + 2 <= off(i - 1)
            BY <1>1, <1>3, <2>1, <2>4
        <3> QED
            BY <1>1, <1>4, <2>1, <2>4, <3>1
    <2> QED
        BY <1>1, <2>2, <2>3, <2>4
<1>8. ASSUME NEW i \in 1..n, i <= b
      PROVE  from < off(i) - 1 <=> a < i
    <2>1. i \in 0..n /\ off(i) \in Nat /\ off(a) \in Nat
        BY <1>1, <1>2
    <2>2. CASE i = a
        BY <1>1, <1>4, <2>1, <2>2
    <2>3. CASE i < a
        <3>1. off(i) + 2 <= off(a)
            BY <1>1, <1>3, <2>1, <2>3
        <3> QED
            BY <1>1, <1>4, <2>1, <2>3, <3>1
    <2>4. CASE i = a + 1
        <3>1. a < b /\ off(i) = off(a + 1)
            BY <1>1, <1>8, <2>4
        <3> QED
            BY <1>1, <1>4, <2>1, <2>4, <3>1
    <2>5. CASE a + 1 < i
        <3>1. a < b /\ a + 1 \in 0..n
            BY <1>1, <1>8, <2>5
        <3>2. off(a + 1) + 2 <= off(i) /\ off(a + 1) \in Nat
            BY <1>2, <1>3, <2>1, <2>5, <3>1
        <3> QED
            BY <1>1, <1>4, <2>1, <2>5, <3>1, <3>2
    <2> QED
        BY <1>1, <2>2, <2>3, <2>4, <2>5
<1>9. \A i \in 1..n : i \in K <=> a < i /\ i <= b
    BY <1>6, <1>7, <1>8
<1>10. t = Interval(a, b)
    <2>1. \A i \in 1..Len(file) : i \in K <=> a < i /\ i <= b
        BY <1>9 DEF n
    <2>2. a \in Nat /\ b \in Nat /\ b <= Len(file)
        BY <1>1 DEF n
    <2> QED
        BY <2>1, <2>2, PositionsInterval
<1> HIDE DEF t
<1> DEFINE m == b - a
<1>11. Len(t) = m /\ m \in Nat /\ \A j \in 1..m : t[j] = a + j
    <2>1. a \in Nat /\ b \in Nat
        BY <1>1
    <2> QED
        BY <1>10, <2>1, IntervalIn DEF Interval
<1> HIDE DEF m
<1>12. ASSUME NEW j \in 1..m, from <= off((a + j) - 1)
       PROVE  cut(t[j]) = file[a + j]
    <2>1. a + j \in 1..n /\ a + j \in 0..n /\ a + j <= b
        BY <1>1, <1>11 DEF m
    <2>2. off(a + j) - 1 <= upto
        <3>1. off(a + j) \in Nat /\ off(b) \in Nat
            BY <1>1, <1>2, <2>1
        <3>2. CASE a + j = b
            BY <1>4, <3>1, <3>2
        <3>3. CASE a + j < b
            <4>1. off(a + j) + 2 <= off(b)
                BY <1>1, <1>3, <2>1, <3>3
            <4> QED
                BY <1>4, <3>1, <4>1
        <3> QED
            BY <1>1, <1>11, <2>1, <3>2, <3>3
    <2>3. cut(a + j) = file[a + j]
        BY <1>12, <2>2 DEF cut
    <2> QED
        BY <1>11, <2>3
<1> DEFINE s == Items(from, upto)
<1>13. s \in Seq(Item)
    BY ItemsIn
<1>14. s = [j \in 1..m |-> cut(t[j])]
    BY <1>5, <1>11
<1> HIDE DEF s
<1>15. Len(s) = m /\ \A j \in 1..m : s[j] = cut(t[j])
    BY <1>11, <1>13, <1>14, LenProperties
<1> QED
    BY <1>12, <1>13, <1>15 DEF LineOf, m, s, off

\* Beyond the end of the file there is nothing.
LEMMA ItemsBeyond ==
    ASSUME file \in Seq(LogLine), NEW from \in Nat, NEW upto, Size(file) <= from
    PROVE  Items(from, upto) = <<>>
<1> DEFINE K == {i \in DOMAIN file : from < EndOf(file)[i] - 1 /\ EndOf(file)[i - 1] < upto}
           t == Positions(file, K)
<1>1. Len(file) \in Nat /\ DOMAIN file = 1..Len(file)
    BY LenProperties
<1>2. \A i \in 1..Len(file) : i \notin K
    <2> SUFFICES ASSUME NEW i \in 1..Len(file)
                 PROVE  ~ (from < Offset(file, i) - 1)
        BY DEF Offset
    <2>1. i \in 0..Len(file)
        BY <1>1
    <2>2. Offset(file, i) <= Size(file) /\ Offset(file, i) \in Nat /\ Size(file) \in Nat
        BY <2>1, SizeIs, Offsets
    <2> QED
        BY <2>2
<1>3. \A i \in 1..Len(file) : i \in K <=> 0 < i /\ i <= 0
    BY <1>1, <1>2
<1>4. Items(from, upto) = [j \in 1..Len(t) |-> IF from <= EndOf(file)[t[j] - 1] /\ EndOf(file)[t[j]] - 1 <= upto
                                               THEN file[t[j]] ELSE Torn]
    BY DEF Items
<1> HIDE DEF K
<1>5. t = Interval(0, 0)
    <2>1. 0 \in Nat /\ 0 <= 0 /\ 0 <= Len(file)
        BY <1>1
    <2> QED
        BY <1>3, <2>1, PositionsInterval
<1>6. Len(t) = 0
    <2>1. 0 \in Nat /\ 0 <= 0 /\ 0 - 0 = 0
        OBVIOUS
    <2> QED
        BY <1>5, <2>1, IntervalIn
<1> HIDE DEF t
<1>7. 1..Len(t) = {}
    BY <1>6
<1> QED
    BY <1>4, <1>7

LEMMA FreshIn ==
    ASSUME NEW S, NEW s \in Seq(S), NEW old
    PROVE  Fresh(s, old) \in Seq(S) /\ Len(Fresh(s, old)) <= Len(s)
<1> DEFINE K == {i \in DOMAIN s : /\ Keys(s)[i] \notin Range(old)
                                  /\ \A j \in 1..(i - 1) : Keys(s)[j] # Keys(s)[i]}
           t == Positions(s, K)
           n == Len(t)
<1>1. t \in Seq(1..Len(s)) /\ Len(t) <= Len(s)
    BY PositionsIn
<1>2. Fresh(s, old) = [i \in 1..n |-> s[t[i]]]
    BY DEF Fresh
<1> HIDE DEF t
<1>3. n \in Nat /\ n <= Len(s) /\ \A i \in 1..n : t[i] \in 1..Len(s)
    BY <1>1, LenProperties, ElementOfSeq
<1>4. \A i \in 1..Len(s) : s[i] \in S
    BY ElementOfSeq
<1> HIDE DEF n
<1>5. \A i \in 1..n : s[t[i]] \in S
    BY <1>3, <1>4
<1>6. [i \in 1..n |-> s[t[i]]] \in Seq(S) /\ Len([i \in 1..n |-> s[t[i]]]) = n
    BY <1>3, <1>5
<1> QED
    BY <1>2, <1>3, <1>6

\* The keys of a sequence, one for each entry; those of its end and of a
\* concatenation are the end and the concatenation of the keys.
LEMMA KeysIn ==
    ASSUME NEW s \in Seq(Item)
    PROVE  /\ Keys(s) \in Seq(Nat) /\ Len(Keys(s)) = Len(s)
           /\ \A i \in 1..Len(s) : Keys(s)[i] = KeyOf[s[i]]
<1> DEFINE n == Len(s)
<1>1. n \in Nat /\ \A i \in 1..n : s[i] \in Item
    BY LenProperties, ElementOfSeq
<1>2. \A item \in Item : KeyOf[item] \in Nat
    BY LogFilesAssumption
<1>3. Keys(s) = [i \in 1..n |-> KeyOf[s[i]]]
    BY DEF Keys
<1> HIDE DEF n
<1>4. \A i \in 1..n : KeyOf[s[i]] \in Nat
    BY <1>1, <1>2
<1>5. [i \in 1..n |-> KeyOf[s[i]]] \in Seq(Nat) /\ Len([i \in 1..n |-> KeyOf[s[i]]]) = n
    BY <1>1, <1>4
<1> QED
    BY <1>3, <1>5 DEF n

LEMMA NoKeys ==
    ASSUME NEW s, s = <<>>
    PROVE  Keys(s) = LastOf(s, MaxEntries)
<1>1. s \in Seq(Item) /\ s \in Seq(Nat) /\ Len(s) = 0
    BY EmptySeq
<1>2. Keys(s) \in Seq(Nat) /\ Len(Keys(s)) = 0
    BY <1>1, KeysIn
<1>3. Keys(s) = s
    BY <1>1, <1>2, SeqEqual
<1>4. LastOf(s, MaxEntries) = s
    <2>1. MaxEntries \in Nat /\ Len(s) <= MaxEntries
        BY <1>1, Lengths
    <2> QED
        BY <1>1, <2>1, LastOfAll
<1> QED
    BY <1>3, <1>4

LEMMA KeysLastOf ==
    ASSUME NEW s \in Seq(Item), NEW n \in Nat
    PROVE  Keys(LastOf(s, n)) = LastOf(Keys(s), n)
<1> DEFINE t == LastOf(s, n)
           k == Keys(s)
           u == LastOf(k, n)
           c == Kept(s, n)
<1>1. k \in Seq(Nat) /\ Len(k) = Len(s) /\ \A i \in 1..Len(s) : k[i] = KeyOf[s[i]]
    BY KeysIn
<1>2. Ending(Item, t, s, c)
    BY LastOfIs
<1> HIDE DEF k
<1>3. Ending(Nat, u, k, Kept(k, n)) /\ Kept(k, n) = c
    BY <1>1, LastOfIs DEF Kept
<1> HIDE DEF t, u, c
<1>4. Len(s) \in Nat /\ c \in Nat /\ c <= Len(s) /\ t \in Seq(Item) /\ Len(t) = c
      /\ \A j \in 1..c : t[j] = s[(Len(s) - c) + j]
    BY <1>2, LenProperties DEF Ending
<1>5. u \in Seq(Nat) /\ Len(u) = c /\ \A j \in 1..c : u[j] = k[(Len(s) - c) + j]
    BY <1>1, <1>3 DEF Ending
<1> DEFINE v == Keys(t)
<1>6. v \in Seq(Nat) /\ Len(v) = c /\ \A j \in 1..c : v[j] = KeyOf[t[j]]
    BY <1>4, KeysIn
<1> HIDE DEF v
<1>7. ASSUME NEW j \in 1..c
      PROVE  v[j] = u[j]
    <2>1. (Len(s) - c) + j \in 1..Len(s)
        BY <1>4
    <2> QED
        BY <1>1, <1>4, <1>5, <1>6, <2>1
<1>8. v = u
    BY <1>5, <1>6, <1>7, SeqEqual
<1> QED
    BY <1>8 DEF v, u, t, k

LEMMA KeysJoined ==
    ASSUME NEW s \in Seq(Item), NEW t \in Seq(Item)
    PROVE  Keys(s \o t) = Keys(s) \o Keys(t)
<1> DEFINE x == s \o t
           k == Keys(s)
           l == Keys(t)
           y == k \o l
           m == Len(s)
           n == Len(t)
<1>1. m \in Nat /\ n \in Nat
    BY LenProperties
<1>2. k \in Seq(Nat) /\ Len(k) = m /\ \A i \in 1..m : k[i] = KeyOf[s[i]]
    BY KeysIn
<1>3. l \in Seq(Nat) /\ Len(l) = n /\ \A i \in 1..n : l[i] = KeyOf[t[i]]
    BY KeysIn
<1>4. x \in Seq(Item) /\ Len(x) = m + n /\ \A i \in 1..m + n : x[i] = IF i <= m THEN s[i] ELSE t[i - m]
    BY ConcatProperties
<1> HIDE DEF k, l, x, m, n
<1>5. y \in Seq(Nat) /\ Len(y) = m + n /\ \A i \in 1..m + n : y[i] = IF i <= m THEN k[i] ELSE l[i - m]
    <2>1. k \in Seq(Nat) /\ l \in Seq(Nat)
        BY <1>2, <1>3
    <2>2. /\ y \in Seq(Nat)
          /\ Len(y) = Len(k) + Len(l)
          /\ \A i \in 1..Len(k) + Len(l) : y[i] = IF i <= Len(k) THEN k[i] ELSE l[i - Len(k)]
        BY <2>1, ConcatProperties, Zenon
    <2> HIDE DEF y
    <2>3. Len(k) = m /\ Len(l) = n
        BY <1>2, <1>3
    <2> QED
        BY <2>2, <2>3, Zenon
<1> HIDE DEF y
<1> DEFINE z == Keys(x)
<1>6. z \in Seq(Nat) /\ Len(z) = m + n /\ \A i \in 1..m + n : z[i] = KeyOf[x[i]]
    BY <1>4, KeysIn
<1> HIDE DEF z
<1>7. ASSUME NEW i \in 1..m + n
      PROVE  z[i] = y[i]
    <2>1. CASE i <= m
        <3>1. i \in 1..m
            BY <1>1, <2>1
        <3>2. x[i] = s[i] /\ y[i] = k[i]
            BY <1>4, <1>5, <2>1, Zenon
        <3>3. k[i] = KeyOf[s[i]] /\ z[i] = KeyOf[x[i]]
            BY <1>2, <1>6, <3>1, Zenon
        <3> QED
            BY <3>2, <3>3, Zenon
    <2>2. CASE ~ (i <= m)
        <3>1. i - m \in 1..n
            BY <1>1, <2>2
        <3>2. x[i] = t[i - m] /\ y[i] = l[i - m]
            BY <1>4, <1>5, <2>2, Zenon
        <3>3. l[i - m] = KeyOf[t[i - m]] /\ z[i] = KeyOf[x[i]]
            BY <1>3, <1>6, <3>1, Zenon
        <3> QED
            BY <3>2, <3>3, Zenon
    <2> QED
        BY <2>1, <2>2
<1>8. z = y
    BY <1>5, <1>6, <1>7, SeqEqual
<1> QED
    BY <1>8 DEF z, x, y, k, l

-----------------------------------------------------------------------------
(* The backward read.                                                      *)

\* While the file is open it is only appended to: where it ended then is still
\* the end of a line, and the reading is before it.
ReadAt(rd, k) ==
    /\ k \in 0..Len(file) /\ rd.end = Offset(file, k)
    /\ rd.pos <= rd.end
    /\ 1 <= rd.want

ReadInv ==
    \A reader \in Reader : reading[reader].open => \E k \in 0..Len(file) : ReadAt(reading[reader], k)

\* The newlines between two offsets are those of the lines that end there.
LEMMA NewlinesBetween ==
    ASSUME file \in Seq(LogLine), NEW b \in 0..Len(file), NEW k \in 0..Len(file), b <= k,
           NEW from \in Nat, NEW upto, upto = Offset(file, k), Offset(file, b) <= from,
           b < k => from < Offset(file, b + 1)
    PROVE  Newlines(from, upto) = k - b
<1> DEFINE off(i) == Offset(file, i)
           n == Len(file)
           X == {i \in DOMAIN file : from < EndOf(file)[i] /\ EndOf(file)[i] <= upto}
<1>1. n \in Nat /\ DOMAIN file = 1..n /\ b \in 0..n /\ k \in 0..n
    BY LenProperties
<1>2. \A i \in 0..n : off(i) \in Nat
    BY Offsets
<1>3. ASSUME NEW i \in 0..n, NEW j \in 0..n, i < j
      PROVE  off(i) + 2 <= off(j)
    BY <1>3, OffsetsGrow
<1>4. upto = off(k) /\ off(b) <= from /\ (b < k => from < off(b + 1))
    OBVIOUS
<1>5. \A i \in 1..n : i \in X <=> from < off(i) /\ off(i) <= upto
    BY <1>1 DEF Offset
<1>6. X \subseteq 1..n
    BY <1>1
<1>7. Newlines(from, upto) = Cardinality(X)
    BY DEF Newlines
<1> HIDE DEF off, n, X
<1>8. ASSUME NEW i \in 1..n
      PROVE  off(i) <= upto <=> i <= k
    <2>1. i \in 0..n /\ off(i) \in Nat /\ off(k) \in Nat
        BY <1>1, <1>2
    <2>2. CASE i = k
        BY <1>1, <1>4, <2>1, <2>2
    <2>3. CASE i < k
        <3>1. off(i) + 2 <= off(k)
            BY <1>1, <1>3, <2>1, <2>3
        <3> QED
            BY <1>1, <1>4, <2>1, <2>3, <3>1
    <2>4. CASE k < i
        <3>1. off(k) + 2 <= off(i)
            BY <1>1, <1>3, <2>1, <2>4
        <3> QED
            BY <1>1, <1>4, <2>1, <2>4, <3>1
    <2> QED
        BY <1>1, <2>2, <2>3, <2>4
<1>9. ASSUME NEW i \in 1..n, i <= k
      PROVE  from < off(i) <=> b < i
    <2>1. i \in 0..n /\ off(i) \in Nat /\ off(b) \in Nat
        BY <1>1, <1>2
    <2>2. CASE i = b
        BY <1>1, <1>4, <2>1, <2>2
    <2>3. CASE i < b
        <3>1. off(i) + 2 <= off(b)
            BY <1>1, <1>3, <2>1, <2>3
        <3> QED
            BY <1>1, <1>4, <2>1, <2>3, <3>1
    <2>4. CASE i = b + 1
        <3>1. b < k /\ off(i) = off(b + 1)
            BY <1>1, <1>9, <2>4
        <3> QED
            BY <1>1, <1>4, <2>1, <2>4, <3>1
    <2>5. CASE b + 1 < i
        <3>1. b < k /\ b + 1 \in 0..n
            BY <1>1, <1>9, <2>5
        <3>2. off(b + 1) + 2 <= off(i) /\ off(b + 1) \in Nat
            BY <1>2, <1>3, <2>1, <2>5, <3>1
        <3> QED
            BY <1>1, <1>4, <2>1, <2>5, <3>1, <3>2
    <2> QED
        BY <1>1, <2>2, <2>3, <2>4, <2>5
<1>10. X = (b + 1)..k
    <2>1. \A i \in 1..n : i \in X <=> b < i /\ i <= k
        BY <1>5, <1>8, <1>9
    <2>2. \A i : i \in (b + 1)..k <=> i \in 1..n /\ b < i /\ i <= k
        BY <1>1
    <2> QED
        BY <1>6, <2>1, <2>2
<1>11. Cardinality((b + 1)..k) = k - b
    <2>1. b + 1 \in Int /\ k \in Int /\ (b + 1 > k => k - b = 0) /\ (k - (b + 1)) + 1 = k - b
        BY <1>1
    <2>2. Cardinality((b + 1)..k) = IF b + 1 > k THEN 0 ELSE (k - (b + 1)) + 1
        BY <2>1, FS_Interval
    <2> QED
        BY <2>1, <2>2
<1> QED
    BY <1>7, <1>10, <1>11

\* The last line that ends at or before a place.
LEMMA LineBefore ==
    ASSUME file \in Seq(LogLine), NEW k \in 0..Len(file), NEW from \in Nat, from <= Offset(file, k)
    PROVE  \E b \in 0..k : Offset(file, b) <= from /\ (b < k => from < Offset(file, b + 1))
<1> DEFINE T == {i \in 0..k : from <= Offset(file, i)}
<1>1. k \in Nat /\ \A i \in 0..k : Offset(file, i) \in Nat
    BY Offsets, LenProperties
<1>2. T \in SUBSET Nat /\ k \in T
    BY <1>1
<1>3. PICK m \in T : \A i \in T : m <= i
    <2> HIDE DEF T
    <2> QED
        BY <1>2, NatMin
<1>4. CASE Offset(file, m) = from
    <2>1. m \in 0..k
        BY <1>3
    <2>2. ASSUME m < k
          PROVE  from < Offset(file, m + 1)
        <3>1. m \in 0..Len(file) /\ m + 1 \in 0..Len(file) /\ m + 1 \in 0..k /\ m < m + 1
            BY <1>1, <2>1, <2>2, LenProperties
        <3>2. Offset(file, m) + 2 <= Offset(file, m + 1)
            BY <3>1, OffsetsGrow
        <3> QED
            BY <1>1, <1>4, <3>1, <3>2
    <2> QED
        BY <1>1, <1>4, <2>1, <2>2
<1>5. CASE Offset(file, m) # from
    <2>1. m \in 0..k /\ from < Offset(file, m)
        BY <1>1, <1>3, <1>5
    <2>2. m # 0
        <3>1. Offset(file, 0) = 0
            BY Offsets
        <3> QED
            BY <2>1, <3>1
    <2>3. m - 1 \in 0..k /\ m - 1 \notin T /\ (m - 1) + 1 = m
        BY <1>1, <1>3, <2>1, <2>2
    <2>4. Offset(file, m - 1) < from
        BY <1>1, <2>3
    <2> QED
        BY <1>1, <2>1, <2>3, <2>4
<1> QED
    BY <1>4, <1>5

\* The backward read returns the last lines of the file as it was when opened.
LEMMA ReadsLastLines ==
    ASSUME TypeOK, NEW reader \in Reader, NEW k, ReadAt(reading[reader], k), LoopEnds(reader)
    PROVE  /\ k \in 0..Len(file)
           /\ Size(SubSeq(file, 1, k)) = reading[reader].end
           /\ ReadItems(reader) = LastOf(SubSeq(file, 1, k), reading[reader].want)
<1> DEFINE p == reading[reader].pos
           e == reading[reader].end
           w == reading[reader].want
           n == Len(file)
           g == SubSeq(file, 1, k)
           t == Items(p, e)
<1>1. file \in Seq(LogLine) /\ p \in Nat /\ e \in Nat /\ w \in Nat /\ n \in Nat
    BY LenProperties DEF TypeOK, LogLine
<1>2. k \in 0..n /\ e = Offset(file, k) /\ p <= e /\ 1 <= w
    BY DEF ReadAt
<1>3. p = 0 \/ Newlines(p, e) > w
    BY DEF LoopEnds
<1>4. ReadItems(reader) = LastOf(t, w)
    BY DEF ReadItems
<1> HIDE DEF p, e, w, n
<1>5. g \in Seq(LogLine) /\ Len(g) = k /\ \A i \in 1..k : g[i] = file[i]
    BY <1>1, <1>2, SubSeqProperties DEF n
<1> HIDE DEF g
<1>6. Size(g) = e
    <2>1. \A i \in 0..k : Offset(g, i) = Offset(file, i)
        BY <1>1, <1>2, <1>5, OffsetsAgree DEF n
    <2>2. Size(g) = Offset(g, k) /\ k \in 0..k
        BY <1>2, <1>5, SizeIs
    <2> QED
        BY <1>2, <2>1, <2>2
<1>7. PICK b \in 0..k : Offset(file, b) <= p /\ (b < k => p < Offset(file, b + 1))
    BY <1>1, <1>2, LineBefore DEF n
<1>8. b \in 0..n /\ b <= k /\ b \in Nat /\ k \in Nat
    BY <1>1, <1>2, <1>7
<1>9. Newlines(p, e) = k - b
    BY <1>1, <1>2, <1>7, <1>8, NewlinesBetween DEF n
<1>10. \A i \in 0..n : Offset(file, i) \in Nat
    BY <1>1, Offsets DEF n
<1> DEFINE a == IF b < k /\ Offset(file, b + 1) = p + 1 THEN b + 1 ELSE b
<1>11. a \in 0..n /\ a <= k /\ b <= a /\ a <= b + 1
    BY <1>1, <1>2, <1>7, <1>8
<1>12. Offset(file, a) <= p + 1 /\ (a < k => p + 1 < Offset(file, a + 1))
    <2>1. CASE b < k /\ Offset(file, b + 1) = p + 1
        <3>1. ASSUME b + 1 < k
              PROVE  p + 1 < Offset(file, (b + 1) + 1)
            <4>1. b + 1 \in 0..n /\ (b + 1) + 1 \in 0..n /\ b + 1 < (b + 1) + 1
                BY <1>1, <1>2, <1>8, <3>1
            <4>2. Offset(file, b + 1) + 2 <= Offset(file, (b + 1) + 1)
                BY <1>1, <4>1, OffsetsGrow DEF n
            <4> QED
                BY <1>1, <1>10, <2>1, <4>1, <4>2
        <3> QED
            BY <1>1, <2>1, <3>1
    <2>2. CASE ~ (b < k /\ Offset(file, b + 1) = p + 1)
        <3>1. b < k => b + 1 \in 0..n
            BY <1>1, <1>2, <1>8
        <3> QED
            BY <1>1, <1>7, <1>8, <1>10, <2>2, <3>1
    <2> QED
        BY <2>1, <2>2
<1> HIDE DEF a
<1>13. LineOf(t, p, a, k - a)
    BY <1>1, <1>2, <1>11, <1>12, ItemsBetween DEF n
<1>14. /\ t \in Seq(Item) /\ Len(t) = k - a
       /\ \A j \in 1..(k - a) : p <= Offset(file, (a + j) - 1) => t[j] = file[a + j]
    BY <1>13 DEF LineOf
<1>15. g \in Seq(Item)
    BY <1>5, SeqMonotonic DEF Item, LogLine
<1> HIDE DEF t
<1>16. CASE p = 0
    <2>1. a = 0
        <3>1. ASSUME a # 0
              PROVE  FALSE
            <4>1. 0 \in 0..n /\ 0 < a /\ a \in Nat
                BY <1>1, <1>11, <3>1
            <4>2. Offset(file, 0) + 2 <= Offset(file, a) /\ Offset(file, 0) = 0
                BY <1>1, <1>11, <4>1, OffsetsGrow, Offsets DEF n
            <4> QED
                BY <1>10, <1>11, <1>12, <1>16, <4>2
        <3> QED
            BY <3>1
    <2>2. ASSUME NEW j \in 1..k
          PROVE  t[j] = g[j]
        <3>1. j \in 1..(k - a) /\ a + j = j /\ (a + j) - 1 \in 0..n
            BY <1>1, <1>2, <2>1
        <3> QED
            BY <1>5, <1>10, <1>14, <1>16, <3>1
    <2>3. Len(t) = k
        BY <1>8, <1>14, <2>1
    <2>4. t = g
        BY <1>5, <1>14, <1>15, <2>2, <2>3, SeqEqual
    <2> QED
        BY <1>2, <1>4, <1>6, <2>4 DEF n, e, w, g
<1>17. CASE k - b > w
    <2>1. w <= k - a /\ w <= k /\ w \in Nat \ {0} /\ a \in Nat
        BY <1>1, <1>2, <1>8, <1>11, <1>17
    <2>2. ASSUME NEW j \in 1..w
          PROVE  t[(Len(t) - w) + j] = g[(Len(g) - w) + j]
        <3> DEFINE i == (k - w) + j
                   c == ((k - a) - w) + j
        <3>1. i \in 1..k /\ c \in 1..(k - a) /\ a + c = i
            BY <1>8, <2>1
        <3>2. b + 1 <= i - 1 /\ i - 1 \in 0..n /\ b + 1 \in 0..n /\ b < k
            BY <1>1, <1>2, <1>8, <1>17, <2>1
        <3>3. (Len(t) - w) + j = c /\ (Len(g) - w) + j = i
            BY <1>5, <1>14
        <3> HIDE DEF i, c
        <3>4. p <= Offset(file, i - 1)
            <4>1. p < Offset(file, b + 1)
                BY <1>7, <3>2
            <4>2. CASE b + 1 = i - 1
                BY <1>1, <1>10, <3>2, <4>1, <4>2
            <4>3. CASE b + 1 < i - 1
                <5>1. Offset(file, b + 1) + 2 <= Offset(file, i - 1)
                    BY <1>1, <3>2, <4>3, OffsetsGrow DEF n
                <5> QED
                    BY <1>1, <1>10, <3>2, <4>1, <5>1
            <4> QED
                BY <1>8, <3>1, <3>2, <4>2, <4>3
        <3> QED
            BY <1>5, <1>14, <3>1, <3>3, <3>4
    <2>3. LastOf(t, w) = LastOf(g, w)
        <3>1. w <= Len(t) /\ w <= Len(g)
            BY <1>5, <1>14, <2>1
        <3> QED
            BY <1>14, <1>15, <2>1, <2>2, <3>1, LastOfSame
    <2> QED
        BY <1>2, <1>4, <1>6, <2>3 DEF n, e, w, g
<1> QED
    BY <1>3, <1>9, <1>16, <1>17

-----------------------------------------------------------------------------
(* The types.                                                              *)

LEMMA FileTypes ==
    ASSUME TypeOK
    PROVE  /\ file \in Seq(LogLine) /\ Size(file) \in Nat /\ written \in 0..MaxLines
           /\ \A from, upto : Items(from, upto) \in Seq(Item)
           /\ \A reader \in Reader : ReadItems(reader) \in Seq(Item)
<1>1. file \in Seq(LogLine) /\ written \in 0..MaxLines
    BY DEF TypeOK, LogLine
<1>2. Size(file) \in Nat
    BY <1>1, SizeIs
<1>3. \A from, upto : Items(from, upto) \in Seq(Item)
    BY <1>1, ItemsIn
<1>4. ASSUME NEW reader \in Reader
      PROVE  ReadItems(reader) \in Seq(Item)
    <2> DEFINE s == Items(reading[reader].pos, reading[reader].end)
               w == reading[reader].want
    <2>1. s \in Seq(Item) /\ w \in Nat
        BY <1>3 DEF TypeOK
    <2> HIDE DEF s, w
    <2>2. LastOf(s, w) \in Seq(Item)
        BY <2>1, LastOfIn
    <2> QED
        BY <2>2 DEF ReadItems, s, w
<1> QED
    BY <1>1, <1>2, <1>3, <1>4

\* The recursive function of Shown exists, for any queue of texts.
Text == [by : Thread, text : Seq(Item)]

Shows(g, pane, q, t, n) ==
    g = [i \in 0..n |-> IF i = 0 THEN pane
                        ELSE IF q[i].by = t THEN g[i - 1] \o q[i].text
                        ELSE g[i - 1]]

LEMMA TextIn ==
    ASSUME NEW q \in Seq(Text), NEW i \in 1..Len(q)
    PROVE  q[i].by \in Thread /\ q[i].text \in Seq(Item)
<1>1. q[i] \in Text
    BY ElementOfSeq
<1> QED
    BY <1>1 DEF Text

LEMMA ShownExists ==
    ASSUME NEW pane \in Seq(Item), NEW q \in Seq(Text), NEW t
    PROVE  \E g : Shows(g, pane, q, t, Len(q))
<1> DEFINE n == Len(q)
           step == [p \in Seq(Item) \X (1..n) |-> IF q[p[2]].by = t THEN p[1] \o q[p[2]].text ELSE p[1]]
<1>1. n \in Nat /\ \A i \in 1..n : q[i].text \in Seq(Item)
    BY LenProperties, TextIn
<1> HIDE DEF n
<1>2. step \in [Seq(Item) \X (1..n) -> Seq(Item)]
    <2>1. ASSUME NEW s \in Seq(Item), NEW i \in 1..n
          PROVE  s \o q[i].text \in Seq(Item)
        BY <1>1, ConcatProperties
    <2> QED
        BY <2>1
<1>3. \A s \in Seq(Item), i \in 1..n :
          step[<<s, i>>] = IF q[i].by = t THEN s \o q[i].text ELSE s
    OBVIOUS
<1> HIDE DEF step
<1>4. Recursive(Seq(Item), pane, step, n)
    BY <1>2 DEF Recursive
<1>5. PICK g : Follows(g, Seq(Item), pane, step, n)
    BY <1>1, <1>4, Recursion
<1>6. /\ g \in [0..n -> Seq(Item)] /\ g[0] = pane
      /\ \A i \in 1..n : g[i] = step[<<g[i - 1], i>>]
    BY <1>5 DEF Follows
<1>7. ASSUME NEW i \in 0..n
      PROVE  g[i] = IF i = 0 THEN pane
                    ELSE IF q[i].by = t THEN g[i - 1] \o q[i].text
                    ELSE g[i - 1]
    <2>1. CASE i = 0
        BY <1>6, <2>1
    <2>2. CASE i # 0
        <3>1. i \in 1..n /\ i - 1 \in 0..n
            BY <1>1, <2>2
        <3>2. g[i - 1] \in Seq(Item) /\ g[i] = step[<<g[i - 1], i>>]
            BY <1>6, <3>1
        <3> QED
            BY <1>3, <2>2, <3>1, <3>2
    <2> QED
        BY <2>1, <2>2
<1>8. g = [i \in 0..n |-> g[i]]
    BY <1>6
<1>9. Shows(g, pane, q, t, n)
    BY <1>7, <1>8 DEF Shows
<1> QED
    BY <1>9 DEF n

\* What a queue of texts adds to a pane.
Panes(pane, q, t) == CHOOSE g : Shows(g, pane, q, t, Len(q))
Pane(pane, q, t) == Panes(pane, q, t)[Len(q)]

PaneBy(g, pane, q, t, n) ==
    /\ g[0] = pane
    /\ \A i \in 1..n : g[i] = IF q[i].by = t THEN g[i - 1] \o q[i].text ELSE g[i - 1]
    /\ \A i \in 0..n : g[i] \in Seq(Item)

LEMMA PaneStep ==
    ASSUME NEW pane \in Seq(Item), NEW q \in Seq(Text), NEW t
    PROVE  PaneBy(Panes(pane, q, t), pane, q, t, Len(q))
<1> DEFINE g == Panes(pane, q, t)
           n == Len(q)
           G == {i \in 0..n : g[i] \in Seq(Item)}
<1>1. Shows(g, pane, q, t, n)
    BY ShownExists DEF Panes
<1>0. n \in Nat
    BY LenProperties
<1>3. \A i \in 1..n : q[i].text \in Seq(Item)
    BY TextIn
<1> HIDE DEF g, n, G
<1>2. g[0] = pane /\ \A i \in 1..n : g[i] = IF q[i].by = t THEN g[i - 1] \o q[i].text ELSE g[i - 1]
    <2> DEFINE f(i) == IF i = 0 THEN pane ELSE IF q[i].by = t THEN g[i - 1] \o q[i].text ELSE g[i - 1]
    <2>1. g = [i \in 0..n |-> f(i)]
        BY <1>1 DEF Shows
    <2> HIDE DEF f
    <2>2. \A i \in 0..n : g[i] = f(i)
        BY <2>1
    <2>3. 0 \in 0..n /\ \A i \in 1..n : i \in 0..n /\ i # 0
        BY <1>0
    <2>4. g[0] = f(0) /\ \A i \in 1..n : g[i] = f(i)
        BY <2>2, <2>3
    <2>5. f(0) = pane
        BY DEF f
    <2>6. ASSUME NEW i \in 1..n
          PROVE  f(i) = IF q[i].by = t THEN g[i - 1] \o q[i].text ELSE g[i - 1]
        BY <2>3 DEF f
    <2> QED
        BY <2>4, <2>5, <2>6
<1> USE DEF G
<1>4. 0 \in G
    BY <1>0, <1>2
<1>5. ASSUME NEW i \in 1..n, i - 1 \in G
      PROVE  i \in G
    <2> DEFINE x == g[i - 1]
               y == q[i].text
    <2>1. x \in Seq(Item) /\ y \in Seq(Item)
        BY <1>3, <1>5
    <2>2. g[i] = IF q[i].by = t THEN x \o y ELSE x
        BY <1>2
    <2>0. i \in 0..n
        BY <1>0
    <2> HIDE DEF x, y
    <2>3. x \o y \in Seq(Item)
        BY <2>1, ConcatProperties
    <2>4. g[i] \in Seq(Item)
        BY <2>1, <2>2, <2>3
    <2> QED
        BY <2>0, <2>4
<1> HIDE DEF G
<1>6. \A i \in 0..n : i \in G
    BY <1>0, <1>4, <1>5, Induction
<1>7. \A i \in 0..n : g[i] \in Seq(Item)
    BY <1>6 DEF G
<1> QED
    BY <1>2, <1>7 DEF PaneBy, g, n

LEMMA PaneIn ==
    ASSUME NEW pane \in Seq(Item), NEW q \in Seq(Text), NEW t
    PROVE  Pane(pane, q, t) \in Seq(Item)
<1>1. PaneBy(Panes(pane, q, t), pane, q, t, Len(q))
    BY PaneStep
<1>2. Len(q) \in 0..Len(q)
    BY LenProperties
<1> QED
    BY <1>1, <1>2 DEF PaneBy, Pane

\* Nothing is added by an empty queue.
LEMMA PaneEmpty ==
    ASSUME NEW pane \in Seq(Item), NEW q \in Seq(Text), q = <<>>, NEW t
    PROVE  Pane(pane, q, t) = pane
<1>1. PaneBy(Panes(pane, q, t), pane, q, t, Len(q))
    BY PaneStep
<1>2. Len(q) = 0
    BY EmptySeq
<1> QED
    BY <1>1, <1>2 DEF PaneBy, Pane

\* The text that is queued last is added last.
LEMMA PaneAppend ==
    ASSUME NEW pane \in Seq(Item), NEW q \in Seq(Text), NEW e \in Text, NEW t
    PROVE  Pane(pane, Append(q, e), t) = IF e.by = t THEN Joined(Pane(pane, q, t), e.text) ELSE Pane(pane, q, t)
<1> DEFINE p == Append(q, e)
<1>1. PICK n \in Nat : n = Len(q)
    BY LenProperties
<1>2. p \in Seq(Text) /\ Len(p) = n + 1 /\ p[n + 1] = e /\ \A i \in 1..n : p[i] = q[i]
    BY <1>1, AppendProperties
<1> HIDE DEF p
<1> DEFINE g == Panes(pane, q, t)
           h == Panes(pane, p, t)
<1>3. PaneBy(g, pane, q, t, Len(q)) /\ PaneBy(h, pane, p, t, Len(p))
    BY <1>2, PaneStep
<1>4. Pane(pane, q, t) = g[n] /\ Pane(pane, p, t) = h[n + 1]
    BY <1>1, <1>2 DEF Pane
<1> HIDE DEF g, h
<1>5. /\ g[0] = pane
      /\ \A i \in 1..n : g[i] = IF q[i].by = t THEN g[i - 1] \o q[i].text ELSE g[i - 1]
    BY <1>1, <1>3 DEF PaneBy
<1>6. /\ h[0] = pane
      /\ \A i \in 1..(n + 1) : h[i] = IF p[i].by = t THEN h[i - 1] \o p[i].text ELSE h[i - 1]
    BY <1>2, <1>3 DEF PaneBy
<1> DEFINE G == {i \in 0..n : g[i] = h[i]}
<1>7. 0 \in G
    BY <1>5, <1>6
<1>8. ASSUME NEW i \in 1..n, i - 1 \in G
      PROVE  i \in G
    <2>1. g[i - 1] = h[i - 1] /\ p[i] = q[i] /\ i \in 1..(n + 1)
        BY <1>2, <1>8
    <2> QED
        BY <1>5, <1>6, <2>1
<1> HIDE DEF G
<1>9. n \in G
    <2>1. \A i \in 0..n : i \in G
        BY <1>7, <1>8, Induction
    <2> QED
        BY <2>1
<1>10. h[n + 1] = IF e.by = t THEN g[n] \o e.text ELSE g[n]
    <2>1. n + 1 \in 1..(n + 1) /\ (n + 1) - 1 = n
        OBVIOUS
    <2>2. g[n] = h[n]
        BY <1>9 DEF G
    <2> QED
        BY <1>2, <1>6, <2>1, <2>2
<1> QED
    BY <1>4, <1>10 DEF p, Joined

LEMMA ShownIs ==
    ASSUME NEW t
    PROVE  Shown(t) = Pane(tails[t].pane, queue, t)
BY DEF Shown, Pane, Panes, Shows

\* The parts of the type that an action changes.
ReadingType == [Reader -> [open : BOOLEAN, want : Nat, end : Nat, pos : Nat]]
WsType == [pc : {"closed", "backlog", "first", "sleep", "read", "send"},
           size : Nat, now : Nat, out : Seq(Item), sent : Seq(Item), from : 0..MaxLines]
HookType == [mode : {"off", "live", "static"}, sock : {"none", "connecting", "open", "wait"},
             first : BOOLEAN, asked : BOOLEAN,
             entries : Seq(Item), order : Seq(Nat), pending : Seq(Item)]
TailType == [pc : {"none", "loop", "read", "ended"}, stop : BOOLEAN,
             pos : Nat, last : Nat, pane : Seq(Item)]

LEMMA LogsTypes ==
    TypeOK <=> /\ written \in 0..MaxLines
               /\ file \in Seq(LogLine)
               /\ reading \in ReadingType
               /\ ws \in WsType
               /\ since \in [{Stream} \union Thread -> 0..Burst]
               /\ hook \in HookType
               /\ tails \in [Thread -> TailType]
               /\ queue \in Seq(Text)
               /\ moves \in 0..MaxMoves
BY DEF TypeOK, ReadingType, WsType, HookType, TailType, Text, LogLine

LEMMA LogsInitType ==
    Init => TypeOK
<1> SUFFICES ASSUME Init PROVE TypeOK
    OBVIOUS
<1>1. MaxLines \in Nat /\ Burst \in Nat /\ MaxMoves \in Nat
    BY Lengths
<1>2. <<>> \in Seq(LogLine) /\ <<>> \in Seq(Item) /\ <<>> \in Seq(Text) /\ <<>> \in Seq(Nat)
    OBVIOUS
<1>3. written \in 0..MaxLines /\ file \in Seq(LogLine) /\ queue \in Seq(Text) /\ moves \in 0..MaxMoves
    BY <1>1, <1>2 DEF Init
<1>4. reading \in ReadingType
    BY DEF Init, NotReading, ReadingType
<1>5. ws \in WsType
    BY <1>1, <1>2 DEF Init, Closed, WsType
<1>6. since \in [{Stream} \union Thread -> 0..Burst]
    BY <1>1 DEF Init
<1>7. hook \in HookType
    BY <1>2 DEF Init, HookType
<1>8. tails \in [Thread -> TailType]
    <2>1. [NewTail EXCEPT !.pc = "none"] \in TailType
        BY <1>2 DEF NewTail, TailType
    <2> QED
        BY <2>1 DEF Init
<1> QED
    BY <1>3, <1>4, <1>5, <1>6, <1>7, <1>8, LogsTypes

LEMMA LogsTypesNext ==
    TypeOK' <=> /\ written' \in 0..MaxLines
                /\ file' \in Seq(LogLine)
                /\ reading' \in ReadingType
                /\ ws' \in WsType
                /\ since' \in [{Stream} \union Thread -> 0..Burst]
                /\ hook' \in HookType
                /\ tails' \in [Thread -> TailType]
                /\ queue' \in Seq(Text)
                /\ moves' \in 0..MaxMoves
BY DEF TypeOK, ReadingType, WsType, HookType, TailType, Text, LogLine

LEMMA ShownIn ==
    ASSUME TypeOK, NEW t \in Thread
    PROVE  Shown(t) \in Seq(Item)
<1>1. tails[t].pane \in Seq(Item) /\ queue \in Seq(Text)
    BY LogsTypes DEF TailType
<1> QED
    BY <1>1, ShownIs, PaneIn

LEMMA StopAllIn ==
    ASSUME TypeOK
    PROVE  StopAll \in [Thread -> TailType]
<1>1. ASSUME NEW t \in Thread
      PROVE  [tails[t] EXCEPT !.stop = tails[t].pc # "none"] \in TailType
    <2>1. tails[t] \in TailType
        BY LogsTypes
    <2> QED
        BY <2>1 DEF TailType
<1> QED
    BY <1>1 DEF StopAll

LEMMA SeenIn ==
    ASSUME NEW s \in Seq(Item), NEW old \in Seq(Nat), NEW show \in Seq(Item)
    PROVE  /\ Seen(s, old) \in Seq(Nat)
           /\ LastOf(show \o Fresh(s, old), MaxEntries) \in Seq(Item)
<1>1. MaxEntries \in Nat /\ 2 * MaxEntries \in Nat
    BY Lengths
<1> DEFINE f == Fresh(s, old)
           k == Keys(f)
<1>2. f \in Seq(Item)
    BY FreshIn
<1> HIDE DEF f
<1>3. k \in Seq(Nat)
    BY <1>2, KeysIn
<1> HIDE DEF k
<1> DEFINE x == old \o k
           y == show \o f
           m == 2 * MaxEntries
<1>4. x \in Seq(Nat) /\ y \in Seq(Item)
    BY <1>2, <1>3, ConcatProperties
<1> HIDE DEF x, y, m
<1>5. LastOf(x, m) \in Seq(Nat) /\ LastOf(y, MaxEntries) \in Seq(Item)
    BY <1>1, <1>4, LastOfIn DEF m
<1> QED
    BY <1>5 DEF Seen, f, k, x, y, m

\* What a step reads and writes has the right type.
LEMMA LogsTypeStep ==
    ASSUME TypeOK, Next
    PROVE  TypeOK'
<1>1. /\ written \in 0..MaxLines /\ file \in Seq(LogLine) /\ reading \in ReadingType /\ ws \in WsType
      /\ since \in [{Stream} \union Thread -> 0..Burst] /\ hook \in HookType
      /\ tails \in [Thread -> TailType] /\ queue \in Seq(Text) /\ moves \in 0..MaxMoves
    BY LogsTypes
<1>2. /\ Size(file) \in Nat
      /\ \A from, upto : Items(from, upto) \in Seq(Item)
      /\ \A reader \in Reader : ReadItems(reader) \in Seq(Item)
    BY FileTypes
<1>3. /\ MaxLines \in Nat /\ Burst \in Nat /\ MaxEntries \in Nat \ {0} /\ Chunk \in Nat \ {0} /\ MaxMoves \in Nat
      /\ Backlog \in Nat /\ TailLines \in Nat
    BY Lengths
<1>4. \A m \in Nat : Opened(m) \in [open : BOOLEAN, want : Nat, end : Nat, pos : Nat]
    BY <1>2 DEF Opened
<1>5. NotReading \in [open : BOOLEAN, want : Nat, end : Nat, pos : Nat] /\ Closed \in WsType
    BY <1>3 DEF NotReading, Closed, WsType
<1>6. "ws" \in Reader /\ "get" \in Reader /\ Stream \in {Stream} \union Thread
    BY DEF Reader
<1>7. CASE Emit
    <2>1. written' = written + 1 /\ written < MaxLines /\ written' \in LogLine /\ written' \in 0..MaxLines
        BY <1>1, <1>3, <1>7 DEF Emit, LogLine
    <2>2. Append(file, written') \in Seq(LogLine) /\ <<written'>> \in Seq(LogLine)
        BY <1>1, <2>1, AppendProperties
    <2>3. file' \in Seq(LogLine)
        BY <1>1, <1>7, <2>1, <2>2 DEF Emit
    <2>4. since' \in [{Stream} \union Thread -> 0..Burst]
        <3>1. since' = [f \in {Stream} \union Thread |-> IF f \in Following THEN since[f] + 1 ELSE 0]
            BY <1>1, <1>7 DEF Emit
        <3>2. \A f \in Following : since[f] < Burst
            BY <1>7 DEF Emit
        <3>3. \A f \in {Stream} \union Thread : since[f] \in 0..Burst
            BY <1>1
        <3> HIDE DEF Following
        <3> QED
            BY <1>3, <3>1, <3>2, <3>3
    <2>5. UNCHANGED <<reading, ws, hook, tails, queue, moves>>
        BY <1>7 DEF Emit, panes
    <2> QED
        BY <1>1, <2>1, <2>3, <2>4, <2>5, LogsTypesNext
<1>8. ASSUME NEW reader \in Reader, ReadChunk(reader)
      PROVE  TypeOK'
    <2>1. reading' \in ReadingType
        <3> DEFINE x == reading[reader].pos
                   y == IF Chunk < x THEN x - Chunk ELSE 0
        <3>1. reading' = [reading EXCEPT ![reader].pos = y]
            BY <1>8 DEF ReadChunk
        <3>2. x \in Nat
            BY <1>1 DEF ReadingType
        <3> HIDE DEF x
        <3>3. y \in Nat
            BY <1>3, <3>2
        <3> HIDE DEF y
        <3> QED
            BY <1>1, <3>1, <3>3 DEF ReadingType
    <2>2. UNCHANGED <<written, file, ws, since, hook, tails, queue, moves>>
        BY <1>8 DEF ReadChunk, panes
    <2> QED
        BY <1>1, <2>1, <2>2, LogsTypesNext
<1>9. CASE Accept
    <2>1. hook' \in HookType
        BY <1>1, <1>9 DEF Accept, HookType
    <2>2. ws' \in WsType
        BY <1>5, <1>9 DEF Accept, WsType
    <2>3. reading' \in ReadingType
        BY <1>1, <1>3, <1>4, <1>9 DEF Accept, ReadingType
    <2>4. UNCHANGED <<written, file, since, tails, queue, moves>>
        BY <1>9 DEF Accept, panes
    <2> QED
        BY <1>1, <2>1, <2>2, <2>3, <2>4, LogsTypesNext
<1>10. CASE BacklogRead
    <2>1. ReadItems("ws") \in Seq(Item)
        BY <1>2, <1>6
    <2>2. ws' \in WsType
        BY <1>1, <1>10, <2>1 DEF BacklogRead, WsType
    <2>3. reading' \in ReadingType
        BY <1>1, <1>5, <1>10 DEF BacklogRead, ReadingType
    <2>4. UNCHANGED <<written, file, since, hook, tails, queue, moves>>
        BY <1>10 DEF BacklogRead, panes
    <2> QED
        BY <1>1, <2>2, <2>3, <2>4, LogsTypesNext
<1>11. CASE Send
    <2>1. ws.out \in Seq(Item) /\ ws.sent \in Seq(Item) /\ hook.pending \in Seq(Item) /\ ws.out # <<>>
        BY <1>1, <1>11 DEF Send, WsType, HookType
    <2>2. Head(ws.out) \in Item /\ Tail(ws.out) \in Seq(Item)
        BY <2>1, HeadTailProperties
    <2>3. Append(ws.sent, Head(ws.out)) \in Seq(Item) /\ Append(hook.pending, Head(ws.out)) \in Seq(Item)
        BY <2>1, <2>2, AppendProperties
    <2>4. ws' \in WsType
        BY <1>1, <1>11, <2>1, <2>2, <2>3 DEF Send, WsType
    <2>5. hook' \in HookType
        BY <1>1, <1>11, <2>3 DEF Send, HookType
    <2>6. UNCHANGED <<written, file, reading, since, tails, queue, moves>>
        BY <1>11 DEF Send, panes
    <2> QED
        BY <1>1, <2>4, <2>5, <2>6, LogsTypesNext
<1>12. CASE TakeSize
    <2>1. ws' \in WsType
        BY <1>1, <1>2, <1>12 DEF TakeSize, WsType
    <2>2. since' \in [{Stream} \union Thread -> 0..Burst]
        BY <1>1, <1>3, <1>12 DEF TakeSize
    <2>3. UNCHANGED <<written, file, reading, hook, tails, queue, moves>>
        BY <1>12 DEF TakeSize, panes
    <2> QED
        BY <1>1, <2>1, <2>2, <2>3, LogsTypesNext
<1>13. CASE PollStat
    <2>1. ws' \in WsType
        BY <1>1, <1>2, <1>13 DEF PollStat, WsType
    <2>2. since' \in [{Stream} \union Thread -> 0..Burst]
        BY <1>1, <1>3, <1>13 DEF PollStat
    <2>3. UNCHANGED <<written, file, reading, hook, tails, queue, moves>>
        BY <1>13 DEF PollStat, panes
    <2> QED
        BY <1>1, <2>1, <2>2, <2>3, LogsTypesNext
<1>14. CASE PollRead
    <2>1. Items(ws.size, ws.now) \in Seq(Item)
        BY <1>2
    <2>2. ws' \in WsType
        BY <1>1, <1>14, <2>1 DEF PollRead, WsType
    <2>3. UNCHANGED <<written, file, reading, since, hook, tails, queue, moves>>
        BY <1>14 DEF PollRead, panes
    <2> QED
        BY <1>1, <2>2, <2>3, LogsTypesNext
<1>15. ASSUME NEW mode \in {"live", "static"}, Select(mode)
       PROVE  TypeOK'
    <2>1. hook' \in HookType
        BY <1>15 DEF Select, HookType
    <2>2. ws' \in WsType
        BY <1>5, <1>15 DEF Select
    <2>3. reading' \in ReadingType
        BY <1>1, <1>3, <1>4, <1>5, <1>15 DEF Select, ReadingType
    <2>4. moves' \in 0..MaxMoves /\ UNCHANGED <<written, file, since, tails, queue>>
        BY <1>1, <1>3, <1>15 DEF Select, Move, panes
    <2> QED
        BY <1>1, <2>1, <2>2, <2>3, <2>4, LogsTypesNext
<1>16. CASE Drop
    <2>1. hook' \in HookType
        BY <1>1, <1>16 DEF Drop, HookType
    <2>2. ws' \in WsType /\ reading' \in ReadingType
        BY <1>1, <1>5, <1>16 DEF Drop, ReadingType
    <2>3. moves' \in 0..MaxMoves /\ UNCHANGED <<written, file, since, tails, queue>>
        BY <1>1, <1>3, <1>16 DEF Drop, Move, panes
    <2> QED
        BY <1>1, <2>1, <2>2, <2>3, LogsTypesNext
<1>17. CASE Reconnect
    <2>1. hook' \in HookType
        BY <1>1, <1>17 DEF Reconnect, HookType
    <2>2. UNCHANGED <<written, file, reading, ws, since, tails, queue, moves>>
        BY <1>17 DEF Reconnect, panes
    <2> QED
        BY <1>1, <2>1, <2>2, LogsTypesNext
<1>18. CASE Flush
    <2>1. hook.order \in Seq(Nat) /\ hook.pending \in Seq(Item) /\ hook.entries \in Seq(Item)
        BY <1>1 DEF HookType
    <2>2. Seen(hook.pending, hook.order) \in Seq(Nat)
          /\ LastOf(hook.entries \o Fresh(hook.pending, hook.order), MaxEntries) \in Seq(Item)
        BY <2>1, SeenIn
    <2>3. hook' \in HookType
        <3> DEFINE x == Seen(hook.pending, hook.order)
                   y == LastOf(hook.entries \o Fresh(hook.pending, hook.order), MaxEntries)
        <3>0. PICK z : z = <<>>
            OBVIOUS
        <3>1. hook' = [hook EXCEPT !.pending = z, !.order = x, !.entries = y]
            BY <1>18, <3>0 DEF Flush
        <3>2. x \in Seq(Nat) /\ y \in Seq(Item) /\ z \in Seq(Item)
            BY <2>2, <3>0
        <3> HIDE DEF x, y
        <3> QED
            BY <1>1, <3>1, <3>2 DEF HookType
    <2>4. UNCHANGED <<written, file, reading, ws, since, tails, queue, moves>>
        BY <1>18 DEF Flush, panes
    <2> QED
        BY <1>1, <2>3, <2>4, LogsTypesNext
<1>19. CASE LogsAnswer
    <2>1. hook.order \in Seq(Nat) /\ LogsTail \in Seq(Item)
        BY <1>1, <1>2, <1>6 DEF HookType, LogsTail
    <2>2. Seen(LogsTail, hook.order) \in Seq(Nat) /\ Fresh(LogsTail, hook.order) \in Seq(Item)
        BY <2>1, SeenIn, FreshIn
    <2>3. hook' \in HookType
        BY <1>1, <1>19, <2>2 DEF LogsAnswer, HookType
    <2>4. reading' \in ReadingType
        BY <1>1, <1>5, <1>19 DEF LogsAnswer, ReadingType
    <2>5. UNCHANGED <<written, file, ws, since, tails, queue, moves>>
        BY <1>19 DEF LogsAnswer, panes
    <2> QED
        BY <1>1, <2>3, <2>4, <2>5, LogsTypesNext
<1>20. ASSUME NEW t \in Thread, StartTails(t)
       PROVE  TypeOK'
    <2>1. tails' \in [Thread -> TailType]
        <3>1. StopAll \in [Thread -> TailType] /\ NewTail \in TailType
            BY StopAllIn DEF NewTail, TailType
        <3>2. tails' = [StopAll EXCEPT ![t] = NewTail]
            BY <1>20 DEF StartTails
        <3> QED
            BY <3>1, <3>2
    <2>2. since' \in [{Stream} \union Thread -> 0..Burst]
        BY <1>1, <1>3, <1>20 DEF StartTails
    <2>3. moves' \in 0..MaxMoves /\ UNCHANGED <<written, file, reading, ws, hook, queue>>
        BY <1>1, <1>3, <1>20 DEF StartTails, Move
    <2> QED
        BY <1>1, <2>1, <2>2, <2>3, LogsTypesNext
<1>21. ASSUME NEW t \in Thread, TailStat(t)
       PROVE  TypeOK'
    <2>1. tails' \in [Thread -> TailType]
        <3> DEFINE r == tails[t]
                   new == IF r.stop THEN [r EXCEPT !.pc = "ended"]
                          ELSE [r EXCEPT !.pc = "read", !.last = Size(file),
                                         !.pos = IF Size(file) < r.last THEN 0 ELSE r.pos]
        <3>1. tails' = [tails EXCEPT ![t] = new]
            BY <1>21 DEF TailStat
        <3>2. r \in TailType
            BY <1>1
        <3> HIDE DEF r
        <3>3. new \in TailType
            BY <1>2, <3>2 DEF TailType
        <3> HIDE DEF new
        <3> QED
            BY <1>1, <3>1, <3>3
    <2>2. since' \in [{Stream} \union Thread -> 0..Burst]
        BY <1>1, <1>3, <1>21 DEF TailStat
    <2>3. UNCHANGED <<written, file, reading, ws, hook, queue, moves>>
        BY <1>21 DEF TailStat
    <2> QED
        BY <1>1, <2>1, <2>2, <2>3, LogsTypesNext
<1>22. ASSUME NEW t \in Thread, TailRead(t)
       PROVE  TypeOK'
    <2>1. tails' \in [Thread -> TailType]
        <3> DEFINE upto == Size(file)
        <3>1. tails' = [tails EXCEPT ![t].pc = "loop", ![t].pos = IF @ < upto THEN upto ELSE @]
            BY <1>22 DEF TailRead
        <3>2. upto \in Nat
            BY <1>2
        <3> HIDE DEF upto
        <3> DEFINE x == IF tails[t].pos < upto THEN upto ELSE tails[t].pos
        <3>3. tails[t] \in TailType
            BY <1>1
        <3>4. x \in Nat
            BY <3>2, <3>3 DEF TailType
        <3>5. tails' = [tails EXCEPT ![t].pc = "loop", ![t].pos = x]
            BY <3>1
        <3> HIDE DEF x
        <3> QED
            BY <1>1, <3>4, <3>5 DEF TailType
    <2>2. [by |-> t, text |-> Items(tails[t].pos, Size(file))] \in Text
        BY <1>2 DEF Text
    <2>3. queue' \in Seq(Text)
        <3> DEFINE e == [by |-> t, text |-> Items(tails[t].pos, Size(file))]
        <3>1. queue' = queue \/ queue' = Append(queue, e)
            BY <1>22 DEF TailRead, Appended
        <3>2. e \in Text
            BY <2>2
        <3> HIDE DEF e
        <3>3. Append(queue, e) \in Seq(Text)
            BY <1>1, <3>2, AppendProperties
        <3> QED
            BY <1>1, <3>1, <3>3
    <2>4. UNCHANGED <<written, file, reading, ws, since, hook, moves>>
        BY <1>22 DEF TailRead
    <2> QED
        BY <1>1, <2>1, <2>3, <2>4, LogsTypesNext
<1>23. CASE StopTails
    <2>1. tails' \in [Thread -> TailType]
        BY <1>23, StopAllIn DEF StopTails
    <2>2. moves' \in 0..MaxMoves /\ UNCHANGED <<written, file, reading, ws, since, hook, queue>>
        BY <1>1, <1>3, <1>23 DEF StopTails, Move
    <2> QED
        BY <1>1, <2>1, <2>2, LogsTypesNext
<1>24. CASE Drain
    <2>1. \A t \in Thread : Shown(t) \in Seq(Item)
        BY ShownIn
    <2>2. tails' \in [Thread -> TailType]
        BY <1>1, <1>24, <2>1 DEF Drain, TailType
    <2>3. queue' \in Seq(Text) /\ UNCHANGED <<written, file, reading, ws, since, hook, moves>>
        BY <1>24, EmptySeq DEF Drain
    <2> QED
        BY <1>1, <2>2, <2>3, LogsTypesNext
<1> QED
    BY <1>7, <1>8, <1>9, <1>10, <1>11, <1>12, <1>13, <1>14, <1>15, <1>16, <1>17, <1>18, <1>19,
       <1>20, <1>21, <1>22, <1>23, <1>24 DEF Next

-----------------------------------------------------------------------------
(* What holds of a read, in every step.                                    *)

\* A step that leaves the file alone opens it, closes it or reads on.
ReadsOn(reader) ==
    \/ reading'[reader] = reading[reader]
    \/ reading'[reader] = NotReading
    \/ \E m \in Nat \ {0} : reading'[reader] = Opened(m)
    \/ \E x \in Nat : x <= reading[reader].pos /\ reading'[reader] = [reading[reader] EXCEPT !.pos = x]

LEMMA ReadSteps ==
    ASSUME TypeOK, ReadInv, file' = file, \A reader \in Reader : ReadsOn(reader)
    PROVE  ReadInv'
<1> SUFFICES ASSUME NEW reader \in Reader, reading'[reader].open
             PROVE  \E k \in 0..Len(file) : ReadAt(reading'[reader], k)
    BY DEF ReadInv, ReadAt
<1> DEFINE old == reading[reader]
           new == reading'[reader]
<1>1. file \in Seq(LogLine) /\ Size(file) \in Nat /\ Len(file) \in Nat
    BY FileTypes, LenProperties
<1>2. old \in [open : BOOLEAN, want : Nat, end : Nat, pos : Nat]
    BY LogsTypes DEF ReadingType
<1>3. old.open => \E k \in 0..Len(file) : ReadAt(old, k)
    BY DEF ReadInv
<1>4. new.open /\ (\/ new = old \/ new = NotReading \/ (\E m \in Nat \ {0} : new = Opened(m))
                   \/ \E x \in Nat : x <= old.pos /\ new = [old EXCEPT !.pos = x])
    BY DEF ReadsOn
<1> HIDE DEF old, new
<1>5. CASE new = old
    BY <1>3, <1>4, <1>5 DEF new
<1>6. CASE new = NotReading
    BY <1>4, <1>6 DEF NotReading
<1>7. ASSUME NEW m \in Nat \ {0}, new = Opened(m)
      PROVE  \E k \in 0..Len(file) : ReadAt(new, k)
    <2>1. new.end = Size(file) /\ new.pos = Size(file) /\ new.want = m
        BY <1>7 DEF Opened
    <2>2. Size(file) = Offset(file, Len(file))
        BY <1>1, SizeIs
    <2>3. ReadAt(new, Len(file))
        BY <1>1, <2>1, <2>2 DEF ReadAt
    <2> QED
        BY <1>1, <2>3
<1>8. ASSUME NEW x \in Nat, x <= old.pos, new = [old EXCEPT !.pos = x]
      PROVE  \E k \in 0..Len(file) : ReadAt(new, k)
    <2>1. new.open = old.open /\ new.end = old.end /\ new.want = old.want /\ new.pos = x
          /\ old.pos \in Nat /\ old.end \in Nat
        BY <1>2, <1>8
    <2>2. PICK k \in 0..Len(file) : ReadAt(old, k)
        BY <1>3, <1>4, <2>1
    <2>3. ReadAt(new, k)
        BY <1>8, <2>1, <2>2 DEF ReadAt
    <2> QED
        BY <2>3
<1> QED
    BY <1>4, <1>5, <1>6, <1>7, <1>8 DEF new

\* While a file is open it is only appended to.
LEMMA EmitReadInv ==
    ASSUME TypeOK, ReadInv, Emit
    PROVE  ReadInv'
<1> SUFFICES ASSUME NEW reader \in Reader, reading[reader].open
             PROVE  \E k \in 0..Len(file') : ReadAt(reading[reader], k)'
    BY DEF ReadInv, ReadAt, Emit
<1>1. file \in Seq(LogLine) /\ written \in 0..MaxLines /\ MaxLines \in Nat /\ Len(file) \in Nat
    BY FileTypes, Lengths, LenProperties
<1>2. reading' = reading /\ (file' = file \/ file' = Append(file, written + 1)) /\ written + 1 \in LogLine
    BY <1>1 DEF Emit, HeldOpen, LogLine
<1>3. PICK k \in 0..Len(file) : ReadAt(reading[reader], k)
    BY DEF ReadInv
<1>4. k \in 0..Len(file') /\ Offset(file', k) = Offset(file, k)
    <2>1. CASE file' = file
        BY <2>1
    <2>2. CASE file' = Append(file, written + 1)
        <3> DEFINE m == written + 1
        <3> HIDE DEF m
        <3>1. Len(Append(file, m)) = Len(file) + 1 /\ \A i \in 0..Len(file) : Offset(Append(file, m), i) = Offset(file, i)
            BY <1>1, <1>2, AppendProperties, OffsetsAppend DEF m
        <3> QED
            BY <1>1, <2>2, <3>1 DEF m
    <2> QED
        BY <1>2, <2>1, <2>2
<1>5. ReadAt(reading[reader], k)'
    BY <1>2, <1>3, <1>4, SMTT(30) DEF ReadAt
<1> QED
    BY <1>4, <1>5

LEMMA ReadInvStep ==
    ASSUME TypeOK, ReadInv, Next
    PROVE  ReadInv'
<1>1. reading \in [Reader -> [open : BOOLEAN, want : Nat, end : Nat, pos : Nat]]
    BY LogsTypes DEF ReadingType
<1>2. Backlog \in Nat /\ TailLines \in Nat \ {0} /\ Chunk \in Nat
    BY Lengths
<1>3. CASE file' = file /\ reading' = reading
    BY <1>3, ReadSteps DEF ReadsOn
<1>4. CASE Emit
    BY <1>4, EmitReadInv
<1>5. ASSUME NEW reader \in Reader, ReadChunk(reader)
      PROVE  ReadInv'
    <2> DEFINE x == reading[reader].pos
               y == IF Chunk < x THEN x - Chunk ELSE 0
    <2>1. reading' = [reading EXCEPT ![reader].pos = y] /\ file' = file
        BY <1>5 DEF ReadChunk
    <2>2. y \in Nat /\ y <= x
        <3>1. x \in Nat
            BY <1>1
        <3> HIDE DEF x
        <3> QED
            BY <1>2, <3>1
    <2> HIDE DEF y
    <2>3. \A other \in Reader : ReadsOn(other)
        BY <1>1, <2>1, <2>2 DEF ReadsOn
    <2> QED
        BY <2>1, <2>3, ReadSteps
<1>6. CASE Accept
    <2>1. file' = file /\ (reading' = reading \/ (Backlog > 0 /\ reading' = [reading EXCEPT !["ws"] = Opened(Backlog)]))
        BY <1>6 DEF Accept
    <2>2. \A other \in Reader : ReadsOn(other)
        BY <1>1, <1>2, <2>1 DEF ReadsOn
    <2> QED
        BY <2>1, <2>2, ReadSteps
<1>7. CASE BacklogRead \/ Drop
    <2>1. file' = file /\ reading' = [reading EXCEPT !["ws"] = NotReading]
        BY <1>7 DEF BacklogRead, Drop
    <2>2. \A other \in Reader : ReadsOn(other)
        BY <1>1, <2>1 DEF ReadsOn
    <2> QED
        BY <2>1, <2>2, ReadSteps
<1>8. CASE LogsAnswer
    <2>1. file' = file /\ reading' = [reading EXCEPT !["get"] = NotReading]
        BY <1>8 DEF LogsAnswer
    <2>2. \A other \in Reader : ReadsOn(other)
        BY <1>1, <2>1 DEF ReadsOn
    <2> QED
        BY <2>1, <2>2, ReadSteps
<1>9. ASSUME NEW mode \in {"live", "static"}, Select(mode)
      PROVE  ReadInv'
    <2>1. file' = file
          /\ reading' = [reading EXCEPT !["ws"] = NotReading,
                                        !["get"] = IF mode = "static" THEN Opened(TailLines) ELSE @]
        BY <1>9 DEF Select
    <2>2. \A other \in Reader : ReadsOn(other)
        BY <1>1, <1>2, <2>1, SMTT(30) DEF ReadsOn
    <2> QED
        BY <2>1, <2>2, ReadSteps
<1> QED
    BY <1>3, <1>4, <1>5, <1>6, <1>7, <1>8, <1>9
    DEF Next, Send, TakeSize, PollStat, PollRead, Reconnect, Flush, StartTails, TailStat, TailRead,
        StopTails, Drain

-----------------------------------------------------------------------------
(* The hook.                                                               *)

\* There is a handler only for an open socket; a page that has asked for the
\* lines and not got them is empty, and no socket fills it.
HookInv ==
    /\ hook.sock # "open" => ws = Closed
    /\ hook.asked => /\ hook.sock = "none"
                     /\ hook.entries = <<>> /\ hook.order = <<>> /\ hook.pending = <<>>
    /\ reading["get"].open => reading["get"].want = TailLines

LEMMA HookInvStep ==
    ASSUME TypeOK, HookInv, Next
    PROVE  HookInv'
<1>1. /\ reading \in [Reader -> [open : BOOLEAN, want : Nat, end : Nat, pos : Nat]]
      /\ hook \in HookType /\ ws \in WsType
    BY LogsTypes DEF ReadingType
<1>2. "ws" \in Reader /\ "get" \in Reader
    BY DEF Reader
<1>3. Closed.pc = "closed" /\ Closed.out = <<>>
    BY DEF Closed
<1>4. CASE UNCHANGED <<hook, reading, ws>>
    BY <1>4 DEF HookInv
<1>5. ASSUME NEW reader \in Reader, ReadChunk(reader)
      PROVE  HookInv'
    <2>1. UNCHANGED <<hook, ws>> /\ reading' = [reading EXCEPT ![reader].pos = reading'[reader].pos]
        BY <1>1, <1>5 DEF ReadChunk
    <2>2. reading'["get"].open = reading["get"].open /\ reading'["get"].want = reading["get"].want
        BY <1>1, <1>2, <2>1
    <2> QED
        BY <2>1, <2>2 DEF HookInv
<1>6. CASE Accept
    <2>1. hook.sock = "connecting" /\ hook' = [hook EXCEPT !.sock = "open"]
          /\ reading'["get"] = reading["get"]
        BY <1>1, <1>2, <1>6 DEF Accept
    <2>2. ~hook.asked
        BY <2>1 DEF HookInv
    <2>3. hook'.sock = "open" /\ ~hook'.asked
        BY <1>1, <2>1, <2>2 DEF HookType
    <2> QED
        BY <2>1, <2>3 DEF HookInv
<1>7. CASE BacklogRead
    <2>1. UNCHANGED hook /\ ws.pc = "backlog" /\ reading'["get"] = reading["get"]
        BY <1>1, <1>2, <1>7 DEF BacklogRead
    <2>2. hook.sock = "open"
        BY <1>3, <2>1 DEF HookInv
    <2> QED
        BY <2>1, <2>2 DEF HookInv
<1>8. CASE Send
    <2>1. ws.out # <<>> /\ hook' = [hook EXCEPT !.pending = Append(@, Head(ws.out))] /\ UNCHANGED reading
        BY <1>8 DEF Send
    <2>2. hook.sock = "open"
        BY <1>3, <2>1 DEF HookInv
    <2>3. ~hook.asked
        BY <2>2 DEF HookInv
    <2>4. hook'.sock = "open" /\ ~hook'.asked
        BY <1>1, <2>1, <2>2, <2>3 DEF HookType
    <2> QED
        BY <2>1, <2>4 DEF HookInv
<1>9. CASE TakeSize \/ PollStat \/ PollRead
    <2>1. UNCHANGED <<hook, reading>> /\ ws.pc # "closed"
        BY <1>9 DEF TakeSize, PollStat, PollRead
    <2>2. hook.sock = "open"
        BY <1>3, <2>1 DEF HookInv
    <2> QED
        BY <2>1, <2>2 DEF HookInv
<1>10. ASSUME NEW mode \in {"live", "static"}, Select(mode)
       PROVE  HookInv'
    <2>1. /\ hook'.sock # "open" /\ ws' = Closed
          /\ hook'.asked => hook'.sock = "none"
          /\ hook'.entries = <<>> /\ hook'.order = <<>> /\ hook'.pending = <<>>
        BY <1>10 DEF Select
    <2>2. reading'["get"] = IF mode = "static" THEN Opened(TailLines) ELSE reading["get"]
        BY <1>1, <1>2, <1>10 DEF Select
    <2>3. Opened(TailLines).want = TailLines
        BY DEF Opened
    <2> QED
        BY <2>1, <2>2, <2>3 DEF HookInv
<1>11. CASE Drop
    <2>1. hook.sock # "none" /\ hook' = [hook EXCEPT !.sock = "wait"] /\ ws' = Closed
          /\ reading'["get"] = reading["get"]
        BY <1>1, <1>2, <1>11 DEF Drop
    <2>2. ~hook.asked
        BY <2>1 DEF HookInv
    <2>3. ~hook'.asked
        BY <1>1, <2>1, <2>2 DEF HookType
    <2> QED
        BY <2>1, <2>3 DEF HookInv
<1>12. CASE Reconnect
    <2>1. hook.sock = "wait" /\ hook' = [hook EXCEPT !.sock = "connecting", !.first = FALSE]
          /\ UNCHANGED <<ws, reading>>
        BY <1>12 DEF Reconnect
    <2>2. ~hook.asked /\ ws = Closed
        BY <2>1 DEF HookInv
    <2>3. ~hook'.asked
        BY <1>1, <2>1, <2>2 DEF HookType
    <2> QED
        BY <2>1, <2>2, <2>3 DEF HookInv
<1>13. CASE Flush
    <2> DEFINE x == Seen(hook.pending, hook.order)
               y == LastOf(hook.entries \o Fresh(hook.pending, hook.order), MaxEntries)
    <2>1. hook.pending # <<>> /\ hook' = [hook EXCEPT !.pending = <<>>, !.order = x, !.entries = y]
          /\ UNCHANGED <<ws, reading>>
        BY <1>13 DEF Flush
    <2> HIDE DEF x, y
    <2>2. ~hook.asked
        BY <2>1 DEF HookInv
    <2>3. ~hook'.asked /\ hook'.sock = hook.sock
        BY <1>1, <2>1, <2>2 DEF HookType
    <2> QED
        BY <2>1, <2>3 DEF HookInv
<1>14. CASE LogsAnswer
    <2> DEFINE x == Seen(LogsTail, hook.order)
               y == Fresh(LogsTail, hook.order)
    <2>1. /\ hook' = IF hook.asked THEN [hook EXCEPT !.asked = FALSE, !.order = x, !.entries = y] ELSE hook
          /\ UNCHANGED ws /\ reading'["get"] = NotReading
        BY <1>1, <1>2, <1>14 DEF LogsAnswer
    <2> HIDE DEF x, y
    <2>2. ~hook'.asked /\ hook'.sock = hook.sock
        BY <1>1, <2>1, SMTT(30) DEF HookType
    <2> QED
        BY <2>1, <2>2 DEF HookInv, NotReading
<1> QED
    BY <1>4, <1>5, <1>6, <1>7, <1>8, <1>9, <1>10, <1>11, <1>12, <1>13, <1>14
    DEF Next, Emit, StartTails, TailStat, TailRead, StopTails, Drain

\* The keys that are seen and those of what is shown have the same end.
LEMMA SeenIsShownStep ==
    ASSUME TypeOK, HookInv, SeenIsShown, Next
    PROVE  SeenIsShown'
<1> DEFINE M == MaxEntries
<1>1. /\ hook \in HookType /\ hook.entries \in Seq(Item) /\ hook.order \in Seq(Nat) /\ hook.pending \in Seq(Item)
    BY LogsTypes DEF HookType
<1>2. M \in Nat \ {0} /\ 2 * M \in Nat /\ M <= 2 * M /\ TailLines \in Nat \ {0} /\ TailLines <= M
    BY Lengths, LogFilesAssumption
<1>3. Keys(hook.entries) = LastOf(hook.order, M)
    BY DEF SeenIsShown
<1> HIDE DEF M
<1>4. CASE hook'.entries = hook.entries /\ hook'.order = hook.order
    BY <1>4 DEF SeenIsShown, Keys
<1>5. CASE Flush
    <2> DEFINE p == hook.pending
               o == hook.order
               e == hook.entries
               f == Fresh(p, o)
               k == Keys(f)
               s == o \o k
               t == e \o f
    <2>1. hook'.order = LastOf(s, 2 * M) /\ hook'.entries = LastOf(t, M)
        <3> DEFINE x == LastOf(s, 2 * M)
                   y == LastOf(t, M)
        <3>1. hook' = [hook EXCEPT !.pending = <<>>, !.order = x, !.entries = y]
            BY <1>5 DEF Flush, Seen, M
        <3> HIDE DEF x, y
        <3>2. hook'.order = x /\ hook'.entries = y
            BY <1>1, <3>1 DEF HookType
        <3> QED
            BY <3>2 DEF x, y
    <2>2. f \in Seq(Item)
        BY <1>1, FreshIn
    <2> HIDE DEF f
    <2>3. k \in Seq(Nat)
        BY <2>2, KeysIn
    <2>4. t \in Seq(Item) /\ Keys(t) = Keys(e) \o k
        BY <1>1, <2>2, ConcatProperties, KeysJoined
    <2> HIDE DEF k
    <2>5. s \in Seq(Nat)
        BY <1>1, <2>3, ConcatProperties
    <2>6. LastOf(LastOf(o, M) \o k, M) = LastOf(s, M)
        BY <1>1, <1>2, <2>3, LastOfJoined
    <2>7. LastOf(LastOf(s, 2 * M), M) = LastOf(s, M)
        <3> DEFINE m == 2 * M
        <3>1. m \in Nat /\ M <= m
            BY <1>2
        <3> HIDE DEF m, s
        <3>2. LastOf(LastOf(s, m), M) = LastOf(s, M)
            BY <1>2, <2>5, <3>1, LastOfLast
        <3> QED
            BY <3>2 DEF m
    <2> HIDE DEF s, t
    <2>8. Keys(LastOf(t, M)) = LastOf(Keys(t), M)
        BY <1>2, <2>4, KeysLastOf
    <2>9. Keys(e) = LastOf(o, M)
        BY <1>3
    <2> HIDE DEF o, e
    <2>10. Keys(hook'.entries) = LastOf(hook'.order, M)
        BY <2>1, <2>4, <2>6, <2>7, <2>8, <2>9
    <2> QED
        BY <2>10 DEF SeenIsShown, Keys, M
<1>6. CASE LogsAnswer /\ hook.asked
    <2> DEFINE f == Fresh(LogsTail, hook.order)
               k == Keys(f)
               t == Items(reading["get"].pos, reading["get"].end)
    <2>1. hook.order = <<>> /\ reading["get"].want = TailLines
        BY <1>6 DEF LogsAnswer, HookInv
    <2>2. t \in Seq(Item) /\ LogsTail = LastOf(t, TailLines)
        BY <2>1, FileTypes DEF LogsTail, ReadItems
    <2> HIDE DEF t
    <2>3. LogsTail \in Seq(Item) /\ Len(LogsTail) = Kept(t, TailLines)
        BY <1>2, <2>2, LastOfIn
    <2>4. Len(LogsTail) \in Nat /\ Len(LogsTail) <= TailLines
        BY <1>2, <2>2, <2>3, LenProperties DEF Kept
    <2>5. f \in Seq(Item) /\ Len(f) <= Len(LogsTail)
        BY <2>3, FreshIn
    <2>6. hook'.order = LastOf(hook.order \o k, 2 * M) /\ hook'.entries = f
        <3> DEFINE x == LastOf(hook.order \o k, 2 * M)
        <3>1. hook' = [hook EXCEPT !.asked = FALSE, !.order = x, !.entries = f]
            BY <1>6 DEF LogsAnswer, Seen, M
        <3> HIDE DEF x, f
        <3>2. hook'.order = x /\ hook'.entries = f
            BY <1>1, <3>1 DEF HookType
        <3> QED
            BY <3>2 DEF x
    <2> HIDE DEF f
    <2>7. k \in Seq(Nat) /\ Len(k) = Len(f)
        BY <2>5, KeysIn
    <2>8. Keys(hook'.entries) = k
        BY <2>6
    <2> HIDE DEF k
    <2>9. hook.order \o k = k
        BY <2>1, <2>7, ConcatEmptySeq
    <2>10. Len(k) \in Nat /\ Len(k) <= M /\ Len(k) <= 2 * M
        BY <1>2, <2>4, <2>5, <2>7, LenProperties
    <2>11. LastOf(k, M) = k
        BY <1>2, <2>7, <2>10, LastOfAll
    <2>12. LastOf(k, 2 * M) = k
        <3> DEFINE m == 2 * M
        <3>1. m \in Nat /\ Len(k) <= m
            BY <1>2, <2>10
        <3> HIDE DEF m
        <3>2. LastOf(k, m) = k
            BY <2>7, <3>1, LastOfAll
        <3> QED
            BY <3>2 DEF m
    <2>13. Keys(hook'.entries) = LastOf(hook'.order, M)
        BY <2>6, <2>8, <2>9, <2>11, <2>12
    <2> QED
        BY <2>13 DEF SeenIsShown, Keys, M
<1>7. ASSUME NEW mode \in {"live", "static"}, Select(mode)
      PROVE  SeenIsShown'
    <2>1. hook'.entries = <<>> /\ hook'.order = <<>>
        BY <1>7 DEF Select
    <2>2. PICK z : z = <<>>
        OBVIOUS
    <2>3. Keys(z) = LastOf(z, M)
        BY <1>2, <2>2, NoKeys DEF M
    <2>4. Keys(hook'.entries) = LastOf(hook'.order, M)
        BY <2>1, <2>2, <2>3
    <2> QED
        BY <2>4 DEF SeenIsShown, Keys, M
<1>8. ASSUME Accept \/ Drop \/ Reconnect \/ Send
      PROVE  hook'.entries = hook.entries /\ hook'.order = hook.order
    BY <1>1, <1>8 DEF Accept, Drop, Reconnect, Send, HookType
<1>9. ASSUME hook' = hook
      PROVE  hook'.entries = hook.entries /\ hook'.order = hook.order
    BY <1>9
<1> QED
    BY <1>4, <1>5, <1>6, <1>7, <1>8, <1>9
    DEF Next, Emit, ReadChunk, BacklogRead, TakeSize, PollStat, PollRead, LogsAnswer, StartTails,
        TailStat, TailRead, StopTails, Drain

-----------------------------------------------------------------------------
(* The reads and the page.                                                 *)

LogsInv == TypeOK /\ ReadInv /\ HookInv /\ SeenIsShown

LEMMA LogsInvInit ==
    Init => LogsInv
<1> SUFFICES ASSUME Init PROVE LogsInv
    OBVIOUS
<1>1. TypeOK
    BY LogsInitType
<1>2. ReadInv
    <2>1. \A reader \in Reader : reading[reader].open = FALSE
        BY DEF Init, NotReading
    <2> QED
        BY <2>1 DEF ReadInv
<1>3. HookInv
    <2>1. reading["get"].open = FALSE
        BY DEF Init, NotReading, Reader
    <2>2. ws = Closed /\ hook.asked = FALSE
        BY DEF Init
    <2> QED
        BY <2>1, <2>2 DEF HookInv
<1>4. SeenIsShown
    <2>1. hook.entries = <<>> /\ hook.order = <<>>
        BY DEF Init
    <2>2. PICK z : z = <<>>
        OBVIOUS
    <2>3. Keys(z) = LastOf(z, MaxEntries)
        BY <2>2, NoKeys
    <2> QED
        BY <2>1, <2>2, <2>3 DEF SeenIsShown
<1> QED
    BY <1>1, <1>2, <1>3, <1>4 DEF LogsInv

LEMMA LogsInvNext ==
    LogsInv /\ [Next]_vars => LogsInv'
<1> SUFFICES ASSUME LogsInv, [Next]_vars PROVE LogsInv'
    OBVIOUS
<1>1. TypeOK /\ ReadInv /\ HookInv /\ SeenIsShown
    BY DEF LogsInv
<1>2. CASE Next
    <2>1. TypeOK'
        BY <1>1, <1>2, LogsTypeStep
    <2>2. ReadInv'
        BY <1>1, <1>2, ReadInvStep
    <2>3. HookInv'
        BY <1>1, <1>2, HookInvStep
    <2>4. SeenIsShown'
        BY <1>1, <1>2, SeenIsShownStep
    <2> QED
        BY <2>1, <2>2, <2>3, <2>4 DEF LogsInv
<1>3. CASE UNCHANGED vars
    <2>1. UNCHANGED <<written, file, reading, ws, since, hook, tails, queue, moves>>
        BY <1>3 DEF vars, panes
    <2>2. TypeOK'
        BY <1>1, <2>1, LogsTypes, LogsTypesNext
    <2>3. ReadInv' /\ HookInv' /\ SeenIsShown'
        BY <1>1, <2>1 DEF ReadInv, ReadAt, HookInv, SeenIsShown, Keys, Offset
    <2> QED
        BY <2>2, <2>3 DEF LogsInv
<1> QED
    BY <1>2, <1>3

\* The reads and the page keep their invariant whatever the followers do: a
\* backward read stays inside the file it opened, and the memory of keys agrees
\* with the page, for every assignment of keys to lines, also one that gives
\* different lines the same key.
THEOREM LogsInvHolds ==
    Spec => []LogsInv
<1>1. Init => LogsInv
    BY LogsInvInit
<1>2. LogsInv /\ [Next]_vars => LogsInv'
    BY LogsInvNext
<1> QED
    BY <1>1, <1>2, PTL DEF Spec

\* read_log_tail returns exactly the last whole lines the file had when it was
\* opened, for every length of a chunk and of the lines, and for every file.
THEOREM TailsReturnLastLines ==
    Spec => []TailIsLastLines
<1>1. LogsInv => TailIsLastLines
    <2> SUFFICES ASSUME LogsInv
                 PROVE  TailIsLastLines
        OBVIOUS
    <2>1. TypeOK /\ ReadInv
        BY DEF LogsInv
    <2>2. ASSUME NEW reader \in Reader, reading[reader].open, LoopEnds(reader)
          PROVE  \E k \in 0..Len(file) :
                     /\ Size(SubSeq(file, 1, k)) = reading[reader].end
                     /\ ReadItems(reader) = LastOf(SubSeq(file, 1, k), reading[reader].want)
        <3>1. PICK k \in 0..Len(file) : ReadAt(reading[reader], k)
            BY <2>1, <2>2 DEF ReadInv
        <3> QED
            BY <2>1, <2>2, <3>1, ReadsLastLines
    <2> QED
        BY <2>1, <2>2 DEF TailIsLastLines
<1> QED
    BY <1>1, LogsInvHolds, PTL

\* The last keys that useLogStream has marked as seen are, in this order, the
\* keys of what the page shows: also after a late answer, a reconnect and any
\* number of flushes, and whichever lines have the same key.
THEOREM WhatIsSeenIsShown ==
    Spec => []SeenIsShown
<1>1. LogsInv => SeenIsShown
    BY DEF LogsInv
<1> QED
    BY <1>1, LogsInvHolds, PTL

-----------------------------------------------------------------------------
(* What a follower has read.                                              *)

\* The lines of a file are in the order of writing, none after the last.
InWriting(f, w) ==
    /\ f \in Seq(LogLine) /\ w \in 0..MaxLines
    /\ \A i \in 1..Len(f) : f[i] <= w /\ \A j \in 1..(i - 1) : f[j] < f[i]

\* s has the lines of f above `from`, up to the j-th and no others.
UpTo(f, s, from, j) ==
    /\ \A i \in 1..j : from < f[i] => f[i] \in Range(s)
    /\ \A i \in (j + 1)..Len(f) : from < f[i] /\ \A x \in Range(s) : x < f[i]

Has(f, w, s, from, j) ==
    /\ s \in Seq(Item) /\ Ascending(s) /\ \A x \in Range(s) : x <= w
    /\ from \in Nat /\ from <= w /\ j \in 0..Len(f)
    /\ UpTo(f, s, from, j)

\* t is the lines of f after the j-th, up to the k-th.
LinesOf(t, f, j, k) ==
    /\ t \in Seq(Item) /\ Len(t) = k - j
    /\ \A i \in 1..(k - j) : t[i] = f[j + i]

\* The file after a line m: with or without it.
Extends(f, g, m) ==
    /\ g \in Seq(LogLine) /\ Len(f) <= Len(g) /\ Len(g) <= Len(f) + 1
    /\ \A i \in 1..Len(f) : g[i] = f[i]
    /\ \A i \in (Len(f) + 1)..Len(g) : g[i] = m

Less == {p \in Nat \X Nat : p[1] < p[2]}

LEMMA LessIs ==
    \A x, y : <<x, y>> \in Less <=> x \in Nat /\ y \in Nat /\ x < y
<1> SUFFICES ASSUME NEW x, NEW y
             PROVE  <<x, y>> \in Less <=> x \in Nat /\ y \in Nat /\ x < y
    OBVIOUS
<1>1. <<x, y>>[1] = x /\ <<x, y>>[2] = y
    OBVIOUS
<1>2. <<x, y>> \in Nat \X Nat <=> x \in Nat /\ y \in Nat
    OBVIOUS
<1> QED
    BY <1>1, <1>2 DEF Less

LEMMA RangeIs ==
    ASSUME NEW S, NEW s \in Seq(S)
    PROVE  /\ \A i \in 1..Len(s) : s[i] \in Range(s)
           /\ \A x \in Range(s) : \E i \in 1..Len(s) : x = s[i]
           /\ Range(s) \subseteq S
<1>1. Len(s) \in Nat /\ DOMAIN s = 1..Len(s) /\ \A i \in 1..Len(s) : s[i] \in S
    BY LenProperties, ElementOfSeq
<1> QED
    BY <1>1 DEF Range

LEMMA AscendingIs ==
    ASSUME NEW s \in Seq(Item)
    PROVE  Ascending(s) <=> Range(s) \subseteq Nat /\ Pairwise(s, Less)
<1>1. Len(s) \in Nat /\ DOMAIN s = 1..Len(s)
    BY LenProperties
<1>2. ASSUME Ascending(s)
      PROVE  Range(s) \subseteq Nat /\ Pairwise(s, Less)
    <2>1. \A i \in 1..Len(s) : s[i] \in Nat
        BY <1>1, <1>2 DEF Ascending
    <2>2. Range(s) \subseteq Nat
        BY <2>1, RangeIs
    <2>3. ASSUME NEW i \in 1..Len(s), NEW j \in 1..Len(s), i < j
          PROVE  <<s[i], s[j]>> \in Less
        <3>1. i \in 1..(j - 1)
            BY <1>1, <2>3
        <3>2. s[i] < s[j]
            BY <1>1, <1>2, <3>1 DEF Ascending
        <3> QED
            BY <2>1, <3>2, LessIs
    <2> QED
        BY <2>2, <2>3 DEF Pairwise
<1>3. ASSUME Range(s) \subseteq Nat, Pairwise(s, Less)
      PROVE  Ascending(s)
    <2>1. \A i \in 1..Len(s) : s[i] \in Nat
        BY <1>3, RangeIs
    <2>2. ASSUME NEW i \in 1..Len(s), NEW j \in 1..(i - 1)
          PROVE  s[j] < s[i]
        <3>1. j \in 1..Len(s) /\ j < i
            BY <1>1, <2>2
        <3>2. <<s[j], s[i]>> \in Less
            BY <1>3, <3>1 DEF Pairwise
        <3> QED
            BY <3>2, LessIs
    <2> QED
        BY <1>1, <2>1, <2>2 DEF Ascending
<1> QED
    BY <1>2, <1>3

\* Two ascending sequences, one above the other.
LEMMA AscendingJoined ==
    ASSUME NEW a \in Seq(Item), NEW b \in Seq(Item)
    PROVE  Ascending(Joined(a, b)) <=> /\ Ascending(a) /\ Ascending(b)
                                       /\ \A x \in Range(a), y \in Range(b) : x < y
<1>1. /\ Joined(a, b) \in Seq(Item)
      /\ Range(Joined(a, b)) = Range(a) \union Range(b)
      /\ Pairwise(Joined(a, b), Less) <=> /\ Pairwise(a, Less) /\ Pairwise(b, Less)
                                          /\ \A x \in Range(a), y \in Range(b) : <<x, y>> \in Less
    <2>1. Joined(a, b) \in Seq(Item)
        BY JoinedIn
    <2>2. Range(Joined(a, b)) = Range(a) \union Range(b)
        BY RangeJoined
    <2>3. Pairwise(Joined(a, b), Less) <=> /\ Pairwise(a, Less) /\ Pairwise(b, Less)
                                           /\ \A x \in Range(a), y \in Range(b) : <<x, y>> \in Less
        BY PairwiseJoined
    <2> QED
        BY <2>1, <2>2, <2>3
<1> DEFINE j == Joined(a, b)
<1> HIDE DEF j
<1>2. Ascending(j) <=> Range(j) \subseteq Nat /\ Pairwise(j, Less)
    BY <1>1, AscendingIs DEF j
<1>3. Ascending(a) <=> Range(a) \subseteq Nat /\ Pairwise(a, Less)
    BY AscendingIs
<1>4. Ascending(b) <=> Range(b) \subseteq Nat /\ Pairwise(b, Less)
    BY AscendingIs
<1> QED
    BY <1>1, <1>2, <1>3, <1>4, LessIs DEF j

LEMMA AscendingNone ==
    Ascending(<<>>) /\ Range(<<>>) = {} /\ <<>> \in Seq(Item)
<1>1. DOMAIN <<>> = {}
    OBVIOUS
<1> QED
    BY <1>1 DEF Ascending, Range

LEMMA WritingFacts ==
    ASSUME NEW f, NEW w, InWriting(f, w)
    PROVE  /\ f \in Seq(LogLine) /\ Len(f) \in Nat /\ w \in Nat
           /\ \A i \in 1..Len(f) : /\ f[i] \in LogLine /\ f[i] \in Nat /\ 0 < f[i] /\ f[i] <= w
                                   /\ \A h \in 1..(i - 1) : f[h] < f[i]
<1>1. f \in Seq(LogLine) /\ w \in 0..MaxLines /\ MaxLines \in Nat
    BY Lengths DEF InWriting
<1>2. Len(f) \in Nat /\ \A i \in 1..Len(f) : f[i] \in LogLine
    BY <1>1, LenProperties, ElementOfSeq
<1> QED
    BY <1>1, <1>2 DEF InWriting, LogLine

\* Some lines of a file.
LEMMA LinesIn ==
    ASSUME NEW f, NEW w, InWriting(f, w), NEW j \in 0..Len(f), NEW k \in 0..Len(f), j <= k,
           NEW t, LinesOf(t, f, j, k)
    PROVE  /\ Ascending(t)
           /\ \A i \in (j + 1)..k : f[i] \in Range(t)
           /\ \A x \in Range(t) : \E i \in (j + 1)..k : x = f[i]
<1>1. t \in Seq(Item) /\ Len(t) = k - j /\ \A i \in 1..(k - j) : t[i] = f[j + i]
    BY DEF LinesOf
<1>2. Len(f) \in Nat
    BY WritingFacts
<1>3. \A i \in 1..Len(f) : f[i] \in Nat /\ \A h \in 1..(i - 1) : f[h] < f[i]
    BY WritingFacts
<1>4. DOMAIN t = 1..(k - j)
    BY <1>1, LenProperties
<1>5. Ascending(t)
    <2> SUFFICES ASSUME NEW i \in 1..(k - j)
                 PROVE  t[i] \in Nat /\ \A h \in 1..(i - 1) : t[h] < t[i]
        BY <1>4 DEF Ascending
    <2>1. j + i \in 1..Len(f) /\ t[i] = f[j + i]
        BY <1>1, <1>2
    <2>2. ASSUME NEW h \in 1..(i - 1)
          PROVE  t[h] < t[i]
        <3>1. h \in 1..(k - j) /\ j + h \in 1..((j + i) - 1)
            BY <1>2, <2>2
        <3>2. t[h] = f[j + h]
            BY <1>1, <3>1
        <3>3. f[j + h] < f[j + i]
            BY <1>3, <2>1, <3>1
        <3> QED
            BY <2>1, <3>2, <3>3
    <2> QED
        BY <1>3, <2>1, <2>2
<1>6. ASSUME NEW i \in (j + 1)..k
      PROVE  f[i] \in Range(t)
    <2>1. i - j \in 1..(k - j) /\ j + (i - j) = i
        BY <1>2
    <2>2. t[i - j] = f[i]
        BY <1>1, <2>1
    <2> QED
        BY <1>1, <2>1, <2>2, RangeIs
<1>7. ASSUME NEW x \in Range(t)
      PROVE  \E i \in (j + 1)..k : x = f[i]
    <2>1. PICK h \in 1..(k - j) : x = t[h]
        BY <1>1, RangeIs
    <2>2. j + h \in (j + 1)..k /\ x = f[j + h]
        BY <1>1, <1>2, <2>1
    <2> QED
        BY <2>2
<1> QED
    BY <1>5, <1>6, <1>7

\* The next lines continue what there is.
LEMMA HasMore ==
    ASSUME NEW f, NEW w, InWriting(f, w), NEW s, NEW from, NEW j \in 0..Len(f), Has(f, w, s, from, j),
           NEW k \in 0..Len(f), j <= k, NEW t, LinesOf(t, f, j, k)
    PROVE  Has(f, w, Joined(s, t), from, k)
<1>1. /\ s \in Seq(Item) /\ Ascending(s) /\ \A x \in Range(s) : x <= w
      /\ from \in Nat /\ from <= w /\ t \in Seq(Item)
      /\ \A i \in 1..j : from < f[i] => f[i] \in Range(s)
      /\ \A i \in (j + 1)..Len(f) : from < f[i] /\ \A x \in Range(s) : x < f[i]
    BY DEF Has, UpTo, LinesOf
<1>2. /\ Ascending(t)
      /\ \A i \in (j + 1)..k : f[i] \in Range(t)
      /\ \A x \in Range(t) : \E i \in (j + 1)..k : x = f[i]
    BY LinesIn
<1>3. /\ Len(f) \in Nat /\ \A i \in (j + 1)..k : i \in (j + 1)..Len(f) /\ i \in 1..Len(f)
      /\ \A i \in (k + 1)..Len(f) : i \in (j + 1)..Len(f) /\ i \in 1..Len(f) /\ \A h \in (j + 1)..k : h \in 1..(i - 1)
      /\ \A i \in 1..k : i \in 1..j \/ i \in (j + 1)..k
    BY LenProperties DEF InWriting
<1>4. \A i \in 1..Len(f) : f[i] <= w /\ \A h \in 1..(i - 1) : f[h] < f[i]
    BY DEF InWriting
<1>5. Range(Joined(s, t)) = Range(s) \union Range(t) /\ Joined(s, t) \in Seq(Item)
    BY <1>1, RangeJoined, JoinedIn
<1>6. \A x \in Range(s), y \in Range(t) : x < y
    BY <1>1, <1>2, <1>3
<1>7. Ascending(Joined(s, t))
    BY <1>1, <1>2, <1>6, AscendingJoined
<1>8. \A x \in Range(t) : x <= w
    BY <1>2, <1>3, <1>4
<1>9. UpTo(f, Joined(s, t), from, k)
    <2>1. \A i \in 1..k : from < f[i] => f[i] \in Range(Joined(s, t))
        BY <1>1, <1>2, <1>3, <1>5
    <2>2. ASSUME NEW i \in (k + 1)..Len(f)
          PROVE  from < f[i] /\ \A x \in Range(Joined(s, t)) : x < f[i]
        <3>1. from < f[i] /\ \A x \in Range(s) : x < f[i]
            BY <1>1, <1>3, <2>2
        <3>2. \A x \in Range(t) : x < f[i]
            BY <1>2, <1>3, <1>4, <2>2
        <3> QED
            BY <1>5, <3>1, <3>2
    <2> QED
        BY <2>1, <2>2 DEF UpTo
<1> QED
    BY <1>1, <1>5, <1>7, <1>8, <1>9 DEF Has

\* A line that is written now follows all there is, or is alone in the file.
LEMMA WritingNext ==
    ASSUME NEW f, NEW w, InWriting(f, w), w + 1 \in LogLine, NEW g,
           \/ Extends(f, g, w + 1)
           \/ g \in Seq(LogLine) /\ Len(g) = 1 /\ g[1] = w + 1
    PROVE  InWriting(g, w + 1)
<1>1. /\ f \in Seq(LogLine) /\ w \in Nat /\ MaxLines \in Nat /\ Len(f) \in Nat
      /\ \A i \in 1..Len(f) : f[i] \in Nat /\ f[i] <= w /\ \A h \in 1..(i - 1) : f[h] < f[i]
    BY WritingFacts, Lengths
<1>2. w + 1 \in 0..MaxLines
    BY <1>1 DEF LogLine
<1>3. CASE Extends(f, g, w + 1)
    <2>1. /\ g \in Seq(LogLine) /\ Len(g) \in Nat /\ Len(f) <= Len(g) /\ Len(g) <= Len(f) + 1
          /\ \A i \in 1..Len(f) : g[i] = f[i]
          /\ \A i \in (Len(f) + 1)..Len(g) : g[i] = w + 1
        BY <1>3, LenProperties DEF Extends
    <2> SUFFICES ASSUME NEW i \in 1..Len(g)
                 PROVE  g[i] <= w + 1 /\ \A h \in 1..(i - 1) : g[h] < g[i]
        BY <1>2, <2>1 DEF InWriting
    <2>2. CASE i <= Len(f)
        <3>1. i \in 1..Len(f) /\ \A h \in 1..(i - 1) : h \in 1..Len(f)
            BY <1>1, <2>1, <2>2
        <3> QED
            BY <1>1, <2>1, <3>1
    <2>3. CASE Len(f) < i
        <3>1. i \in (Len(f) + 1)..Len(g) /\ \A h \in 1..(i - 1) : h \in 1..Len(f)
            BY <1>1, <2>1, <2>3
        <3>2. g[i] = w + 1 /\ \A h \in 1..(i - 1) : g[h] = f[h] /\ f[h] \in Nat /\ f[h] <= w
            BY <1>1, <2>1, <3>1
        <3> QED
            BY <1>1, <3>2
    <2> QED
        BY <1>1, <2>1, <2>2, <2>3
<1>4. CASE g \in Seq(LogLine) /\ Len(g) = 1 /\ g[1] = w + 1
    BY <1>1, <1>2, <1>4 DEF InWriting
<1> QED
    BY <1>3, <1>4

LEMMA HasFacts ==
    ASSUME NEW f, NEW w, InWriting(f, w), NEW s, NEW from, NEW j, Has(f, w, s, from, j)
    PROVE  /\ s \in Seq(Item) /\ Ascending(s) /\ \A x \in Range(s) : x \in Nat /\ x <= w
           /\ from \in Nat /\ from <= w /\ j \in 0..Len(f)
           /\ \A i \in 1..j : from < f[i] => f[i] \in Range(s)
           /\ \A i \in (j + 1)..Len(f) : from < f[i] /\ \A x \in Range(s) : x < f[i]
<1>1. s \in Seq(Item) /\ Ascending(s) /\ \A x \in Range(s) : x <= w
    BY DEF Has
<1>2. Range(s) \subseteq Nat
    BY <1>1, AscendingIs
<1> QED
    BY <1>1, <1>2 DEF Has, UpTo

LEMMA HasExtended ==
    ASSUME NEW f, NEW w, InWriting(f, w), NEW s, NEW from, NEW j, Has(f, w, s, from, j),
           NEW g, Extends(f, g, w + 1)
    PROVE  Has(g, w + 1, s, from, j)
<1>1. /\ f \in Seq(LogLine) /\ w \in Nat /\ Len(f) \in Nat
      /\ s \in Seq(Item) /\ Ascending(s) /\ \A x \in Range(s) : x \in Nat /\ x <= w
      /\ from \in Nat /\ from <= w /\ j \in 0..Len(f)
      /\ \A i \in 1..j : from < f[i] => f[i] \in Range(s)
      /\ \A i \in (j + 1)..Len(f) : from < f[i] /\ \A x \in Range(s) : x < f[i]
    BY WritingFacts, HasFacts
<1>2. /\ Len(g) \in Nat /\ Len(f) <= Len(g)
      /\ \A i \in 1..Len(f) : g[i] = f[i]
      /\ \A i \in (Len(f) + 1)..Len(g) : g[i] = w + 1
    BY LenProperties DEF Extends
<1>3. \A i \in 1..j : from < g[i] => g[i] \in Range(s)
    <2>1. \A i \in 1..j : i \in 1..Len(f)
        BY <1>1
    <2> QED
        BY <1>1, <1>2, <2>1
<1>4. ASSUME NEW i \in (j + 1)..Len(g)
      PROVE  from < g[i] /\ \A x \in Range(s) : x < g[i]
    <2>1. CASE i <= Len(f)
        <3>1. i \in (j + 1)..Len(f) /\ i \in 1..Len(f)
            BY <1>1, <1>2, <2>1
        <3> QED
            BY <1>1, <1>2, <3>1
    <2>2. CASE Len(f) < i
        <3>1. g[i] = w + 1
            BY <1>1, <1>2, <2>2
        <3> QED
            BY <1>1, <3>1
    <2> QED
        BY <1>1, <1>2, <2>1, <2>2
<1>5. j \in 0..Len(g) /\ from <= w + 1 /\ \A x \in Range(s) : x <= w + 1
    BY <1>1, <1>2
<1> QED
    BY <1>1, <1>3, <1>4, <1>5 DEF Has, UpTo

LEMMA HasRotated ==
    ASSUME NEW f, NEW w, InWriting(f, w), NEW s, NEW from, NEW j, Has(f, w, s, from, j),
           NEW g, g \in Seq(LogLine), Len(g) = 1, g[1] = w + 1
    PROVE  Has(g, w + 1, s, from, 0)
<1>1. /\ w \in Nat /\ s \in Seq(Item) /\ Ascending(s) /\ \A x \in Range(s) : x \in Nat /\ x <= w
      /\ from \in Nat /\ from <= w
    BY WritingFacts, HasFacts
<1>2. from < w + 1 /\ (\A x \in Range(s) : x < w + 1) /\ from <= w + 1 /\ \A x \in Range(s) : x <= w + 1
    BY <1>1
<1>3. UpTo(g, s, from, 0)
    BY <1>2 DEF UpTo
<1> QED
    BY <1>1, <1>2, <1>3 DEF Has

\* Who starts at the end, and who starts at the beginning.
LEMMA HasNone ==
    ASSUME NEW f, NEW w, InWriting(f, w)
    PROVE  /\ Has(f, w, <<>>, w, Len(f))
           /\ Has(f, w, <<>>, 0, 0)
<1>1. /\ w \in Nat /\ Len(f) \in Nat
      /\ \A i \in 1..Len(f) : f[i] \in Nat /\ 0 < f[i] /\ f[i] <= w
    BY WritingFacts
<1>2. PICK z : z = <<>>
    OBVIOUS
<1>3. z \in Seq(Item) /\ Ascending(z) /\ Range(z) = {}
    BY <1>2, AscendingNone
<1>4. UpTo(f, z, w, Len(f)) /\ UpTo(f, z, 0, 0)
    BY <1>1, <1>3 DEF UpTo
<1>5. Has(f, w, z, w, Len(f)) /\ Has(f, w, z, 0, 0)
    BY <1>1, <1>3, <1>4 DEF Has
<1> QED
    BY <1>2, <1>5

\* What is missing before the last of them is no longer in the file.
MissingIn(f, s, from) ==
    s # <<>> => (from + 1 .. Last(s)) \intersect Range(f) \subseteq Range(s)

LEMMA HasNotMissed ==
    ASSUME NEW f, NEW w, InWriting(f, w), NEW s \in Seq(Item), NEW out \in Seq(Item), NEW from, NEW j,
           Has(f, w, Joined(s, out), from, j)
    PROVE  Ascending(s) /\ MissingIn(f, s, from)
<1>1. /\ Ascending(s) /\ Ascending(out)
      /\ \A x \in Range(s), y \in Range(out) : x < y
    BY AscendingJoined DEF Has
<1>2. Range(Joined(s, out)) = Range(s) \union Range(out) /\ Range(s) \subseteq Nat /\ Range(out) \subseteq Nat
    BY <1>1, RangeJoined, AscendingIs
<1>3. /\ f \in Seq(LogLine) /\ Len(f) \in Nat /\ from \in Nat /\ j \in 0..Len(f)
      /\ \A i \in 1..Len(f) : f[i] \in Nat
      /\ \A i \in 1..j : from < f[i] => f[i] \in Range(Joined(s, out))
      /\ \A i \in (j + 1)..Len(f) : \A x \in Range(Joined(s, out)) : x < f[i]
    <2> DEFINE q == Joined(s, out)
    <2> HIDE DEF q
    <2>1. Has(f, w, q, from, j)
        BY DEF q
    <2>2. f \in Seq(LogLine) /\ Len(f) \in Nat /\ \A i \in 1..Len(f) : f[i] \in Nat
        BY WritingFacts
    <2>3. /\ from \in Nat /\ j \in 0..Len(f)
          /\ \A i \in 1..j : from < f[i] => f[i] \in Range(q)
          /\ \A i \in (j + 1)..Len(f) : \A x \in Range(q) : x < f[i]
        BY <2>1 DEF Has, UpTo
    <2> QED
        BY <2>2, <2>3 DEF q
<1>4. ASSUME s # <<>>, NEW x \in (from + 1 .. Last(s)) \intersect Range(f)
      PROVE  x \in Range(s)
    <2>1. Len(s) \in 1..Len(s)
        BY <1>4, EmptySeq, LenProperties
    <2>2. Last(s) \in Range(s)
        BY <2>1, RangeIs DEF Last
    <2>3. PICK i \in 1..Len(f) : x = f[i]
        BY <1>3, RangeIs
    <2>4. x \in Nat /\ from < x /\ x <= Last(s) /\ Last(s) \in Nat
        BY <1>2, <1>3, <2>2, <2>3
    <2>5. i \in 1..j
        <3> SUFFICES ASSUME i \notin 1..j
                     PROVE  FALSE
            OBVIOUS
        <3>1. i \in (j + 1)..Len(f)
            BY <1>3
        <3>2. Last(s) < f[i]
            BY <1>2, <1>3, <2>2, <3>1
        <3> QED
            BY <2>3, <2>4, <3>2
    <2>6. x \in Range(s) \/ x \in Range(out)
        BY <1>2, <1>3, <2>3, <2>4, <2>5
    <2>7. x \notin Range(out)
        BY <1>1, <1>2, <2>2, <2>4
    <2> QED
        BY <2>6, <2>7
<1> QED
    BY <1>1, <1>4 DEF MissingIn

\* What two joined sequences are made of.
LEMMA JoinedIs ==
    ASSUME NEW S, NEW a \in Seq(S), NEW b \in Seq(S)
    PROVE  /\ SubSeq(Joined(a, b), 1, Len(a)) = a
           /\ SubSeq(Joined(a, b), Len(a) + 1, Len(Joined(a, b))) = b
<1> DEFINE q == Joined(a, b)
           m == Len(a)
           n == Len(b)
<1>1. m \in Nat /\ n \in Nat
    BY LenProperties
<1>2. /\ q \in Seq(S) /\ Len(q) = m + n
      /\ \A i \in 1..(m + n) : q[i] = IF i <= m THEN a[i] ELSE b[i - m]
    BY ConcatProperties DEF Joined
<1> HIDE DEF q, m, n
<1>3. \A i \in 1..(m + n) : q[i] \in S
    BY <1>1, <1>2, ElementOfSeq
<1>4. SubSeq(q, 1, m) = a
    <2> DEFINE c == SubSeq(q, 1, m)
    <2>1. c \in Seq(S) /\ Len(c) = m /\ \A i \in 1..m : c[i] = q[i]
        <3>1. \A i \in 1..m : q[i] \in S
            BY <1>1, <1>3
        <3>2. /\ c \in Seq(S) /\ Len(c) = IF 1 <= m THEN (m - 1) + 1 ELSE 0
              /\ \A i \in 1..((m - 1) + 1) : c[i] = q[(1 + i) - 1]
            BY <1>1, <3>1, SubSeqProperties
        <3> HIDE DEF c
        <3> QED
            BY <1>1, <3>2
    <2> HIDE DEF c
    <2>2. \A i \in 1..m : c[i] = a[i]
        BY <1>1, <1>2, <2>1
    <2>3. c = a
        BY <2>1, <2>2, SeqEqual DEF m
    <2> QED
        BY <2>3 DEF c
<1>5. SubSeq(q, m + 1, m + n) = b
    <2> DEFINE c == SubSeq(q, m + 1, m + n)
    <2>1. c \in Seq(S) /\ Len(c) = n /\ \A i \in 1..n : c[i] = q[m + i]
        <3>1. \A i \in (m + 1)..(m + n) : q[i] \in S
            BY <1>1, <1>3
        <3>2. /\ c \in Seq(S) /\ Len(c) = IF m + 1 <= m + n THEN ((m + n) - (m + 1)) + 1 ELSE 0
              /\ \A i \in 1..(((m + n) - (m + 1)) + 1) : c[i] = q[((m + 1) + i) - 1]
            BY <1>1, <3>1, SubSeqProperties
        <3> HIDE DEF c
        <3>3. \A i \in 1..n : ((m + 1) + i) - 1 = m + i
            BY <1>1
        <3> QED
            BY <1>1, <3>2, <3>3
    <2> HIDE DEF c
    <2>2. \A i \in 1..n : c[i] = b[i]
        <3> SUFFICES ASSUME NEW i \in 1..n
                     PROVE  c[i] = b[i]
            OBVIOUS
        <3>1. m + i \in 1..(m + n) /\ ~ (m + i <= m) /\ (m + i) - m = i
            BY <1>1
        <3> QED
            BY <1>2, <2>1, <3>1
    <2>3. c = b
        BY <2>1, <2>2, SeqEqual DEF n
    <2> QED
        BY <2>3 DEF c
<1> QED
    BY <1>2, <1>4, <1>5 DEF q, m

\* What a thread shows: the lines up to the j-th, and before them a first part
\* of them a second time.
Repeats(X, A, B, C) ==
    /\ A \in Seq(Item) /\ B \in Seq(Item) /\ C \in Seq(Item)
    /\ X = Joined(A, B) /\ B = Joined(A, C)

Replayed(f, w, X, j) ==
    \E A, B, C : Repeats(X, A, B, C) /\ Has(f, w, B, 0, j)

InOrderIn(f, pane) ==
    \E k \in 0..Len(pane) :
        LET again == SubSeq(pane, k + 1, Len(pane))
        IN  /\ Ascending(again) /\ MissingIn(f, again, 0)
            /\ IsPrefix(SubSeq(pane, 1, k), again)

LEMMA RepeatedInOrder ==
    ASSUME NEW f, NEW w, InWriting(f, w), NEW X, NEW j, Replayed(f, w, X, j)
    PROVE  /\ X \in Seq(Item) /\ InOrderIn(f, X)
           /\ Range(X) \subseteq 0..w
<1>1. PICK A, B, C : Repeats(X, A, B, C) /\ Has(f, w, B, 0, j)
    BY DEF Replayed
<1>2. /\ A \in Seq(Item) /\ B \in Seq(Item) /\ C \in Seq(Item)
      /\ X = Joined(A, B) /\ B = Joined(A, C)
    BY <1>1 DEF Repeats
<1>3. /\ SubSeq(X, 1, Len(A)) = A /\ SubSeq(X, Len(A) + 1, Len(X)) = B
      /\ SubSeq(B, 1, Len(A)) = A
    BY <1>2, JoinedIs
<1>4. /\ X \in Seq(Item) /\ Len(X) = Len(A) + Len(B)
      /\ Len(B) = Len(A) + Len(C)
      /\ Range(X) = Range(A) \union Range(B) /\ Range(B) = Range(A) \union Range(C)
      /\ Len(A) \in Nat /\ Len(B) \in Nat /\ Len(C) \in Nat
    <2>0. A \in Seq(Item) /\ B \in Seq(Item) /\ C \in Seq(Item)
        BY <1>2
    <2>1. /\ Joined(A, B) \in Seq(Item) /\ Len(Joined(A, B)) = Len(A) + Len(B)
          /\ Range(Joined(A, B)) = Range(A) \union Range(B)
        BY <2>0, JoinedIn, RangeJoined
    <2>2. Len(Joined(A, C)) = Len(A) + Len(C) /\ Range(Joined(A, C)) = Range(A) \union Range(C)
        BY <2>0, JoinedIn, RangeJoined
    <2>3. Len(A) \in Nat /\ Len(B) \in Nat /\ Len(C) \in Nat
        BY <2>0, LenProperties
    <2> QED
        BY <1>2, <2>1, <2>2, <2>3
<1>5. Ascending(B) /\ MissingIn(f, B, 0)
    <2>1. PICK z : z = <<>>
        OBVIOUS
    <2>2. z \in Seq(Item) /\ Joined(B, z) = B
        BY <1>2, <2>1, ConcatEmptySeq, AscendingNone DEF Joined
    <2>3. Has(f, w, Joined(B, z), 0, j)
        BY <1>1, <2>2
    <2> QED
        BY <1>2, <2>2, <2>3, HasNotMissed
<1>6. IsPrefix(A, B)
    <2>1. SubSeq(A, 1, Len(A)) = A
        BY <1>2, SubSeqFull
    <2> QED
        BY <1>3, <1>4, <2>1 DEF IsPrefix
<1>7. InOrderIn(f, X)
    <2>1. Len(A) \in 0..Len(X)
        BY <1>4
    <2> QED
        BY <1>3, <1>5, <1>6, <2>1 DEF InOrderIn
<1>8. Range(X) \subseteq 0..w
    <2>1. Range(B) \subseteq Nat /\ \A x \in Range(B) : x <= w
        BY <1>1, <1>2, <1>5, AscendingIs DEF Has
    <2> QED
        BY <1>4, <2>1, WritingFacts
<1> QED
    BY <1>4, <1>7, <1>8

LEMMA JoinedTwice ==
    ASSUME NEW S, NEW a \in Seq(S), NEW b \in Seq(S), NEW c \in Seq(S)
    PROVE  Joined(Joined(a, b), c) = Joined(a, Joined(b, c))
BY ConcatAssociative DEF Joined

LEMMA RepeatedMore ==
    ASSUME NEW f, NEW w, InWriting(f, w), NEW X, NEW j \in 0..Len(f), Replayed(f, w, X, j),
           NEW k \in 0..Len(f), j <= k, NEW t, LinesOf(t, f, j, k)
    PROVE  Replayed(f, w, Joined(X, t), k)
<1>1. PICK A, B, C : Repeats(X, A, B, C) /\ Has(f, w, B, 0, j)
    BY DEF Replayed
<1>2. /\ A \in Seq(Item) /\ B \in Seq(Item) /\ C \in Seq(Item) /\ t \in Seq(Item)
      /\ X = Joined(A, B) /\ B = Joined(A, C)
    BY <1>1 DEF Repeats, LinesOf
<1>3. Joined(X, t) = Joined(A, Joined(B, t)) /\ Joined(B, t) = Joined(A, Joined(C, t))
    <2>1. A \in Seq(Item) /\ B \in Seq(Item) /\ C \in Seq(Item) /\ t \in Seq(Item)
        BY <1>2
    <2>2. Joined(Joined(A, B), t) = Joined(A, Joined(B, t))
        BY <2>1, JoinedTwice
    <2>3. Joined(Joined(A, C), t) = Joined(A, Joined(C, t))
        BY <2>1, JoinedTwice
    <2> QED
        BY <1>2, <2>2, <2>3
<1>4. Joined(B, t) \in Seq(Item) /\ Joined(C, t) \in Seq(Item)
    BY <1>2, JoinedIn
<1>5. Repeats(Joined(X, t), A, Joined(B, t), Joined(C, t))
    BY <1>2, <1>3, <1>4 DEF Repeats
<1>6. Has(f, w, Joined(B, t), 0, k)
    BY <1>1, HasMore
<1> QED
    BY <1>5, <1>6 DEF Replayed

LEMMA RepeatedExtended ==
    ASSUME NEW f, NEW w, InWriting(f, w), NEW X, NEW j, Replayed(f, w, X, j), NEW g, Extends(f, g, w + 1)
    PROVE  Replayed(g, w + 1, X, j)
BY HasExtended DEF Replayed

LEMMA RepeatedRotated ==
    ASSUME NEW f, NEW w, InWriting(f, w), NEW X, NEW j, Replayed(f, w, X, j),
           NEW g, g \in Seq(LogLine), Len(g) = 1, g[1] = w + 1
    PROVE  Replayed(g, w + 1, X, 0)
BY HasRotated DEF Replayed

\* Nothing is shown, or only the first lines of the file.
LEMMA RepeatedFirst ==
    ASSUME NEW f, NEW w, InWriting(f, w)
    PROVE  /\ Replayed(f, w, <<>>, 0)
           /\ \A X : \A j \in 0..Len(f) : LinesOf(X, f, 0, j) => Replayed(f, w, X, j)
<1>1. PICK z : z = <<>>
    OBVIOUS
<1>2. z \in Seq(Item) /\ Has(f, w, z, 0, 0)
    BY <1>1, AscendingNone, HasNone
<1>3. \A t \in Seq(Item) : Joined(z, t) = t
    BY <1>1, ConcatEmptySeq DEF Joined
<1>4. Replayed(f, w, z, 0)
    BY <1>2, <1>3 DEF Replayed, Repeats
<1>5. ASSUME NEW X, NEW j \in 0..Len(f), LinesOf(X, f, 0, j)
      PROVE  Replayed(f, w, X, j)
    <2>1. X \in Seq(Item) /\ 0 \in 0..Len(f) /\ 0 <= j
        BY <1>5, WritingFacts DEF LinesOf
    <2>2. Replayed(f, w, Joined(z, X), j)
        BY <1>4, <1>5, <2>1, RepeatedMore
    <2> QED
        BY <1>3, <2>1, <2>2
<1> QED
    BY <1>1, <1>4, <1>5

\* The first lines are shown, then all from the first on.
LEMMA RepeatedAgain ==
    ASSUME NEW f, NEW w, InWriting(f, w), NEW j \in 0..Len(f), NEW X, LinesOf(X, f, 0, j),
           NEW t, LinesOf(t, f, 0, Len(f))
    PROVE  Replayed(f, w, Joined(X, t), Len(f))
<1> DEFINE n == Len(f)
           C == [i \in 1..(n - j) |-> f[j + i]]
<1>1. n \in Nat /\ \A i \in 1..n : f[i] \in Item
    BY WritingFacts DEF LogLine, Item
<1> HIDE DEF n
<1>2. /\ X \in Seq(Item) /\ Len(X) = j /\ \A i \in 1..j : X[i] = f[i]
      /\ t \in Seq(Item) /\ Len(t) = n /\ \A i \in 1..n : t[i] = f[i]
    BY <1>1 DEF LinesOf, n
<1>3. j \in 0..n /\ n - j \in Nat
    BY <1>1 DEF n
<1>4. C \in Seq(Item) /\ Len(C) = n - j /\ \A i \in 1..(n - j) : C[i] = f[j + i]
    <2>1. \A i \in 1..(n - j) : f[j + i] \in Item
        BY <1>1, <1>3
    <2>2. C \in [1..(n - j) -> Item]
        BY <2>1
    <2>3. C \in Seq(Item)
        BY <1>3, <2>2, SeqDef
    <2> QED
        BY <1>3, <2>2, <2>3, LenProperties
<1> HIDE DEF C
<1>5. t = Joined(X, C)
    <2> DEFINE q == Joined(X, C)
    <2>1. /\ q \in Seq(Item) /\ Len(q) = j + (n - j)
          /\ \A i \in 1..(j + (n - j)) : q[i] = IF i <= j THEN X[i] ELSE C[i - j]
        BY <1>2, <1>4, ConcatProperties DEF Joined
    <2> HIDE DEF q
    <2>2. \A i \in 1..n : q[i] = f[i]
        <3> SUFFICES ASSUME NEW i \in 1..n
                     PROVE  q[i] = f[i]
            OBVIOUS
        <3>1. i \in 1..(j + (n - j)) /\ (i <= j => i \in 1..j)
              /\ (~ (i <= j) => i - j \in 1..(n - j) /\ j + (i - j) = i)
            BY <1>1, <1>3
        <3> QED
            BY <1>2, <1>4, <2>1, <3>1
    <2>3. Len(q) = Len(t) /\ \A i \in 1..Len(t) : t[i] = q[i]
        <3>1. Len(q) = n
            BY <1>1, <1>3, <2>1
        <3> QED
            BY <1>2, <2>2, <3>1
    <2>4. t = q
        BY <1>2, <2>1, <2>3, SeqEqual
    <2> QED
        BY <2>4 DEF q
<1>6. Repeats(Joined(X, t), X, t, C)
    BY <1>2, <1>4, <1>5 DEF Repeats
<1>7. Has(f, w, t, 0, n)
    <2>1. PICK z : z = <<>>
        OBVIOUS
    <2>2. Has(f, w, z, 0, 0) /\ Joined(z, t) = t
        BY <1>2, <2>1, HasNone, ConcatEmptySeq DEF Joined
    <2>3. n \in 0..Len(f) /\ 0 \in 0..Len(f) /\ 0 <= n /\ LinesOf(t, f, 0, n)
        BY <1>1 DEF n
    <2>4. Has(f, w, Joined(z, t), 0, n)
        BY <2>2, <2>3, HasMore
    <2> QED
        BY <2>2, <2>4
<1> QED
    BY <1>6, <1>7 DEF Replayed, n

-----------------------------------------------------------------------------
(* What a line does to the file, and to a follower that waits.             *)

\* The line does not fit: the file is started again.
Full(f, m) == MaxBytes <= Offset(f, Len(f)) + LenOf[m]

Written(f, g, m) ==
    \/ Extends(f, g, m)
    \/ g \in Seq(LogLine) /\ Len(g) = 1 /\ g[1] = m /\ Full(f, m)

LEMMA ExtendsOffsets ==
    ASSUME NEW f \in Seq(LogLine), NEW g, NEW m, Extends(f, g, m)
    PROVE  \A i \in 0..Len(f) : i \in 0..Len(g) /\ Offset(g, i) = Offset(f, i)
<1> DEFINE n == Len(f)
<1>1. /\ g \in Seq(LogLine) /\ n \in Nat /\ Len(g) \in Nat /\ n <= Len(g)
      /\ \A i \in 1..n : f[i] = g[i]
    BY LenProperties DEF Extends
<1>2. n \in 0..Len(f)
    BY <1>1
<1> HIDE DEF n
<1>3. \A i \in 0..n : Offset(f, i) = Offset(g, i)
    BY <1>1, <1>2, OffsetsAgree
<1> QED
    BY <1>1, <1>3 DEF n

\* Who has seen all but a few lines of a full file has read two thirds of it.
LEMMA FullIsLate ==
    ASSUME NEW f \in Seq(LogLine), NEW m \in LogLine, Full(f, m), NEW k \in 0..Len(f), Len(f) + 1 <= k + Burst
    PROVE  2 * MaxBytes < 3 * Offset(f, k)
<1> DEFINE g == Append(f, m)
           n == Len(f)
<1>1. n \in Nat /\ MaxBytes \in Nat /\ Burst \in Nat /\ LenOf[m] \in Nat
    BY LenProperties, Lengths
<1>2. /\ g \in Seq(LogLine) /\ Len(g) = n + 1 /\ \A i \in 0..n : Offset(g, i) = Offset(f, i)
      /\ Size(g) = Size(f) + LenOf[m]
    BY OffsetsAppend, AppendProperties
<1> HIDE DEF g
<1>3. Size(f) = Offset(f, n) /\ Size(g) = Offset(g, n + 1)
    BY <1>2, SizeIs DEF n
<1>4. Offset(f, k) \in Nat /\ Offset(f, n) \in Nat
    BY <1>1, Offsets DEF n
<1> HIDE DEF n
<1>5. k \in 0..n /\ k \in 0..Len(g) /\ n + 1 \in 0..Len(g) /\ k <= n + 1 /\ n + 1 <= k + Burst
    BY <1>1, <1>2 DEF n
<1>6. 3 * (Offset(g, n + 1) - Offset(g, k)) < MaxBytes
    BY <1>2, <1>5, OffsetsNear
<1>7. Offset(g, k) = Offset(f, k) /\ Offset(g, n + 1) = Offset(f, n) + LenOf[m]
    BY <1>2, <1>3, <1>5
<1>8. MaxBytes <= Offset(f, n) + LenOf[m]
    BY DEF Full, n
<1> DEFINE a == Offset(f, k)
           b == Offset(f, n)
           c == LenOf[m]
<1>9. a \in Nat /\ b \in Nat /\ c \in Nat /\ 3 * ((b + c) - a) < MaxBytes /\ MaxBytes <= b + c
    BY <1>1, <1>4, <1>6, <1>7, <1>8
<1> HIDE DEF a, b, c
<1>10. 2 * MaxBytes < 3 * a
    BY <1>1, <1>9
<1> QED
    BY <1>10 DEF a

\* A file of a few lines is less than a third of what it may hold.
LEMMA ShortFile ==
    ASSUME NEW f \in Seq(LogLine), Len(f) <= Burst
    PROVE  /\ 3 * Offset(f, Len(f)) < MaxBytes
           /\ \A m \in LogLine : Len(f) + 1 <= Burst => ~ Full(f, m)
<1>1. Len(f) \in Nat /\ Burst \in Nat /\ MaxBytes \in Nat /\ 0 < MaxBytes
    BY LenProperties, Lengths
<1>2. 0 \in 0..Len(f) /\ Len(f) \in 0..Len(f) /\ 0 <= Len(f) /\ Len(f) <= 0 + Burst
    BY <1>1
<1>3. 3 * (Offset(f, Len(f)) - Offset(f, 0)) < MaxBytes /\ Offset(f, 0) = 0 /\ Offset(f, Len(f)) \in Nat
    BY <1>2, OffsetsNear, Offsets
<1>4. ASSUME NEW m \in LogLine, Len(f) + 1 <= Burst, Full(f, m)
      PROVE  FALSE
    <2>1. 2 * MaxBytes < 3 * Offset(f, 0)
        BY <1>1, <1>2, <1>4, FullIsLate
    <2> QED
        BY <1>1, <1>3, <2>1
<1> QED
    BY <1>3, <1>4

-----------------------------------------------------------------------------
(* The live stream.  What it has read ends where it will read on, with at  *)
(* most `lag` lines after it, or the file was started again since.         *)

Sleeping(f, w, s, from, size, lag) ==
    \/ \E k \in 0..Len(f) : Offset(f, k) = size /\ Len(f) <= k + lag /\ Has(f, w, s, from, k)
    \/ 2 * MaxBytes < 3 * size /\ Len(f) <= lag /\ Has(f, w, s, from, 0)

\* Between the look at the size and the read.
Polling(f, w, s, from, size, now, lag) ==
    \/ \E j, k \in 0..Len(f) :
           /\ j <= k /\ Offset(f, j) = size /\ Offset(f, k) = now /\ Len(f) <= k + lag
           /\ 3 * (now - size) < MaxBytes /\ Has(f, w, s, from, j)
    \/ /\ 2 * MaxBytes < 3 * now /\ MaxBytes < 3 * size /\ Len(f) <= lag
       /\ Has(f, w, s, from, 0)

LEMMA SleepingWritten ==
    ASSUME NEW f, NEW w, InWriting(f, w), w + 1 \in LogLine, NEW s, NEW from, NEW size, NEW lag \in Nat,
           lag < Burst, Sleeping(f, w, s, from, size, lag), NEW g, Written(f, g, w + 1)
    PROVE  Sleeping(g, w + 1, s, from, size, lag + 1)
<1>1. f \in Seq(LogLine) /\ Len(f) \in Nat /\ Burst \in Nat
    BY WritingFacts, Lengths
<1>2. CASE Extends(f, g, w + 1)
    <2>1. Len(g) \in Nat /\ Len(f) <= Len(g) /\ Len(g) <= Len(f) + 1
        BY <1>2, LenProperties DEF Extends
    <2>2. \A i \in 0..Len(f) : i \in 0..Len(g) /\ Offset(g, i) = Offset(f, i)
        BY <1>1, <1>2, ExtendsOffsets
    <2>3. \A j : Has(f, w, s, from, j) => Has(g, w + 1, s, from, j)
        BY <1>2, HasExtended
    <2>4. ASSUME NEW k \in 0..Len(f), Offset(f, k) = size, Len(f) <= k + lag, Has(f, w, s, from, k)
          PROVE  Sleeping(g, w + 1, s, from, size, lag + 1)
        <3>1. k \in 0..Len(g) /\ Offset(g, k) = size /\ Len(g) <= k + (lag + 1)
            BY <1>1, <2>1, <2>2, <2>4
        <3> QED
            BY <2>3, <2>4, <3>1 DEF Sleeping
    <2>5. ASSUME 2 * MaxBytes < 3 * size, Len(f) <= lag, Has(f, w, s, from, 0)
          PROVE  Sleeping(g, w + 1, s, from, size, lag + 1)
        <3>1. Len(g) <= lag + 1
            BY <1>1, <2>1, <2>5
        <3> QED
            BY <2>3, <2>5, <3>1 DEF Sleeping
    <2> QED
        BY <2>4, <2>5 DEF Sleeping
<1>3. CASE g \in Seq(LogLine) /\ Len(g) = 1 /\ g[1] = w + 1 /\ Full(f, w + 1)
    <2>1. \A j : Has(f, w, s, from, j) => Has(g, w + 1, s, from, 0)
        BY <1>3, HasRotated
    <2>2. Len(g) <= lag + 1
        BY <1>3
    <2>3. ASSUME NEW k \in 0..Len(f), Offset(f, k) = size, Len(f) <= k + lag, Has(f, w, s, from, k)
          PROVE  2 * MaxBytes < 3 * size
        <3>1. Len(f) + 1 <= k + Burst
            BY <1>1, <2>3
        <3> QED
            BY <1>1, <1>3, <2>3, <3>1, FullIsLate
    <2> QED
        BY <2>1, <2>2, <2>3 DEF Sleeping
<1> QED
    BY <1>2, <1>3 DEF Written

LEMMA PollingWritten ==
    ASSUME NEW f, NEW w, InWriting(f, w), w + 1 \in LogLine, NEW s, NEW from, NEW size \in Nat, NEW now \in Nat,
           NEW lag \in Nat, lag < Burst, Polling(f, w, s, from, size, now, lag),
           NEW g, Written(f, g, w + 1)
    PROVE  Polling(g, w + 1, s, from, size, now, lag + 1)
<1>1. f \in Seq(LogLine) /\ Len(f) \in Nat /\ Burst \in Nat /\ MaxBytes \in Nat
    BY WritingFacts, Lengths
<1>2. CASE Extends(f, g, w + 1)
    <2>1. Len(g) \in Nat /\ Len(f) <= Len(g) /\ Len(g) <= Len(f) + 1
        BY <1>2, LenProperties DEF Extends
    <2>2. \A i \in 0..Len(f) : i \in 0..Len(g) /\ Offset(g, i) = Offset(f, i)
        BY <1>1, <1>2, ExtendsOffsets
    <2>3. \A j : Has(f, w, s, from, j) => Has(g, w + 1, s, from, j)
        BY <1>2, HasExtended
    <2>4. ASSUME NEW j \in 0..Len(f), NEW k \in 0..Len(f), j <= k, Offset(f, j) = size, Offset(f, k) = now,
                 Len(f) <= k + lag, 3 * (now - size) < MaxBytes, Has(f, w, s, from, j)
          PROVE  Polling(g, w + 1, s, from, size, now, lag + 1)
        <3>1. /\ j \in 0..Len(g) /\ k \in 0..Len(g) /\ Offset(g, j) = size /\ Offset(g, k) = now
              /\ Len(g) <= k + (lag + 1)
            BY <1>1, <2>1, <2>2, <2>4
        <3> QED
            BY <2>3, <2>4, <3>1 DEF Polling
    <2>5. ASSUME 2 * MaxBytes < 3 * now, MaxBytes < 3 * size, Len(f) <= lag, Has(f, w, s, from, 0)
          PROVE  Polling(g, w + 1, s, from, size, now, lag + 1)
        <3>1. Len(g) <= lag + 1
            BY <1>1, <2>1, <2>5
        <3> QED
            BY <2>3, <2>5, <3>1 DEF Polling
    <2> QED
        BY <2>4, <2>5 DEF Polling
<1>3. CASE g \in Seq(LogLine) /\ Len(g) = 1 /\ g[1] = w + 1 /\ Full(f, w + 1)
    <2>1. \A j : Has(f, w, s, from, j) => Has(g, w + 1, s, from, 0)
        BY <1>3, HasRotated
    <2>2. Len(g) <= lag + 1
        BY <1>3
    <2>3. ASSUME NEW j \in 0..Len(f), NEW k \in 0..Len(f), j <= k, Offset(f, j) = size, Offset(f, k) = now,
                 Len(f) <= k + lag, 3 * (now - size) < MaxBytes, Has(f, w, s, from, j)
          PROVE  2 * MaxBytes < 3 * now /\ MaxBytes < 3 * size
        <3>1. Len(f) + 1 <= k + Burst
            BY <1>1, <2>3
        <3>2. 2 * MaxBytes < 3 * now
            BY <1>1, <1>3, <2>3, <3>1, FullIsLate
        <3> QED
            BY <1>1, <2>3, <3>2
    <2> QED
        BY <2>1, <2>2, <2>3 DEF Polling
<1> QED
    BY <1>2, <1>3 DEF Written

\* What is read between the ends of two lines is the lines between them.
LEMMA ItemsAre ==
    ASSUME file \in Seq(LogLine), NEW j \in 0..Len(file), NEW k \in 0..Len(file), j <= k
    PROVE  LinesOf(Items(Offset(file, j), Offset(file, k)), file, j, k)
<1> DEFINE n == Len(file)
           a == Offset(file, j)
           b == Offset(file, k)
           t == Items(a, b)
<1>1. n \in Nat
    BY LenProperties
<1>2. a \in Nat /\ b \in Nat /\ \A i \in 0..n : Offset(file, i) \in Nat
    BY Offsets
<1>3. \A i \in 0..n : j < i => a + 2 <= Offset(file, i)
    BY OffsetsGrow
<1>4. j < k => j + 1 \in 0..n
    BY <1>1
<1>5. j < k => a + 1 < Offset(file, j + 1)
    <2>1. j < j + 1
        BY <1>1
    <2>2. j < k => a + 2 <= Offset(file, j + 1)
        BY <1>3, <1>4, <2>1
    <2> DEFINE c == Offset(file, j + 1)
    <2>3. j < k => c \in Nat /\ a + 2 <= c
        BY <1>2, <1>4, <2>2
    <2> HIDE DEF a, c
    <2>4. j < k => a + 1 < c
        BY <1>2, <2>3
    <2> QED
        BY <2>4 DEF c
<1>6. LineOf(t, a, j, k - j)
    <2>1. Offset(file, j) <= a + 1
        BY <1>2
    <2> HIDE DEF a
    <2> HIDE DEF b
    <2>2. b = Offset(file, k)
        BY DEF b
    <2> QED
        BY <1>2, <1>5, <2>1, <2>2, ItemsBetween
<1> HIDE DEF t
<1>7. ASSUME NEW i \in 1..(k - j)
      PROVE  t[i] = file[j + i]
    <2>1. (j + i) - 1 \in 0..n /\ ((j + i) - 1 = j \/ j < (j + i) - 1)
        BY <1>1
    <2>2. a <= Offset(file, (j + i) - 1)
        <3> DEFINE c == Offset(file, (j + i) - 1)
        <3>1. c \in Nat /\ (c = a \/ a + 2 <= c)
            BY <1>2, <1>3, <2>1
        <3> HIDE DEF a, c
        <3>2. a <= c
            BY <1>2, <3>1
        <3> QED
            BY <3>2 DEF c
    <2> HIDE DEF a
    <2> QED
        BY <1>6, <2>2 DEF LineOf
<1>8. t \in Seq(Item) /\ Len(t) = k - j
    BY <1>6 DEF LineOf
<1>9. LinesOf(t, file, j, k)
    BY <1>7, <1>8 DEF LinesOf
<1> QED
    BY <1>9 DEF t

\* An end of a line tells which line.
LEMMA OffsetIs ==
    ASSUME NEW f \in Seq(LogLine), NEW i \in 0..Len(f), NEW j \in 0..Len(f), Offset(f, i) = Offset(f, j)
    PROVE  i = j
<1>1. Offset(f, i) \in Nat /\ Offset(f, j) \in Nat
    BY Offsets
<1>2. ~ (i < j)
    BY <1>1, OffsetsGrow
<1>3. ~ (j < i)
    BY <1>1, OffsetsGrow
<1> QED
    BY <1>2, <1>3

\* A poll looks at the size: it is as before, or more, or the file is another one.
LEMMA SleepingStat ==
    ASSUME NEW f, NEW w, InWriting(f, w), NEW s, NEW from, NEW size \in Nat, NEW lag \in 0..Burst,
           Sleeping(f, w, s, from, size, lag),
           NEW now, now = Offset(f, Len(f)), NEW start, start = IF now < size THEN 0 ELSE size
    PROVE  IF now = start THEN Sleeping(f, w, s, from, start, 0)
           ELSE Polling(f, w, s, from, start, now, 0)
<1>1. f \in Seq(LogLine) /\ Len(f) \in Nat /\ Burst \in Nat /\ MaxBytes \in Nat /\ now \in Nat
    BY WritingFacts, Lengths, Offsets
<1>2. Len(f) \in 0..Len(f) /\ 0 \in 0..Len(f) /\ Offset(f, 0) = 0
    BY <1>1, Offsets
<1>3. ASSUME NEW k \in 0..Len(f), Offset(f, k) = size, Len(f) <= k + lag, Has(f, w, s, from, k)
      PROVE  IF now = start THEN Sleeping(f, w, s, from, start, 0)
             ELSE Polling(f, w, s, from, start, now, 0)
    <2>1. size <= now /\ start = size
        <3>1. size <= now
            BY <1>1, <1>3, SizeIs
        <3> QED
            BY <1>1, <3>1
    <2>2. k <= Len(f) /\ Len(f) <= k + Burst /\ Len(f) <= Len(f) + 0 /\ 0 \in Nat
        BY <1>1, <1>3
    <2>3. 3 * (now - size) < MaxBytes
        BY <1>1, <1>2, <1>3, <2>2, OffsetsNear
    <2>4. CASE now = start
        <3>1. k = Len(f)
            BY <1>1, <1>2, <1>3, <2>1, <2>4, OffsetIs
        <3> QED
            BY <1>2, <1>3, <2>1, <2>2, <2>4, <3>1 DEF Sleeping
    <2>5. CASE now # start
        BY <1>2, <1>3, <2>1, <2>2, <2>3, <2>5 DEF Polling
    <2> QED
        BY <2>4, <2>5
<1>4. ASSUME 2 * MaxBytes < 3 * size, Len(f) <= lag, Has(f, w, s, from, 0)
      PROVE  IF now = start THEN Sleeping(f, w, s, from, start, 0)
             ELSE Polling(f, w, s, from, start, now, 0)
    <2>1. 3 * now < MaxBytes
        <3>1. Len(f) <= Burst
            BY <1>1, <1>4
        <3> QED
            BY <1>1, <3>1, ShortFile
    <2>2. start = 0
        BY <1>1, <1>4, <2>1
    <2>3. 0 <= Len(f) /\ Len(f) <= Len(f) + 0 /\ 3 * (now - 0) < MaxBytes
        BY <1>1, <2>1
    <2>4. CASE now = start
        <3>1. Len(f) = 0
            BY <1>1, <1>2, <2>2, <2>4, OffsetIs
        <3> QED
            BY <1>2, <1>4, <2>2, <2>4, <3>1 DEF Sleeping
    <2>5. CASE now # start
        BY <1>2, <1>4, <2>2, <2>3, <2>5 DEF Polling
    <2> QED
        BY <2>4, <2>5
<1> QED
    BY <1>3, <1>4 DEF Sleeping

\* It reads up to the size it saw, whatever the file is by now.
LEMMA PollingRead ==
    ASSUME NEW w, InWriting(file, w), NEW s, NEW from, NEW size \in Nat, NEW now \in Nat, NEW lag \in 0..Burst,
           Polling(file, w, s, from, size, now, lag)
    PROVE  Sleeping(file, w, Joined(s, Items(size, now)), from, now, lag)
<1>1. file \in Seq(LogLine) /\ Len(file) \in Nat /\ Burst \in Nat /\ MaxBytes \in Nat
    BY WritingFacts, Lengths
<1>2. ASSUME NEW j \in 0..Len(file), NEW k \in 0..Len(file), j <= k, Offset(file, j) = size,
             Offset(file, k) = now, Len(file) <= k + lag, Has(file, w, s, from, j)
      PROVE  Sleeping(file, w, Joined(s, Items(size, now)), from, now, lag)
    <2> DEFINE t == Items(Offset(file, j), Offset(file, k))
    <2>1. LinesOf(t, file, j, k)
        BY <1>1, <1>2, ItemsAre
    <2>2. t = Items(size, now)
        BY <1>2
    <2> HIDE DEF t
    <2>3. Has(file, w, Joined(s, t), from, k)
        BY <1>2, <2>1, HasMore
    <2> QED
        BY <1>2, <2>2, <2>3 DEF Sleeping
<1>3. ASSUME 2 * MaxBytes < 3 * now, MaxBytes < 3 * size, Len(file) <= lag, Has(file, w, s, from, 0)
      PROVE  Sleeping(file, w, Joined(s, Items(size, now)), from, now, lag)
    <2>1. Len(file) <= Burst
        BY <1>1, <1>3
    <2>2. Size(file) <= size
        <3>1. 3 * Offset(file, Len(file)) < MaxBytes /\ Size(file) = Offset(file, Len(file)) /\ Size(file) \in Nat
            BY <1>1, <2>1, ShortFile, SizeIs
        <3> QED
            BY <1>1, <1>3, <3>1
    <2>3. Items(size, now) = <<>>
        BY <1>1, <2>2, ItemsBeyond
    <2>4. Joined(s, <<>>) = s
        BY <1>3, ConcatEmptySeq DEF Has, Joined
    <2> QED
        BY <1>3, <2>3, <2>4 DEF Sleeping
<1> QED
    BY <1>2, <1>3 DEF Polling

-----------------------------------------------------------------------------
(* A thread of the launcher.  It remembers where it read to and what its   *)
(* last stat saw, which is all it has to notice another file: what it has  *)
(* read may be more than the stat saw, also on the first read.             *)

\* The file was started again after the last stat.
Restarted(f, w, X, pos, last, lag) ==
    2 * MaxBytes < 3 * last /\ MaxBytes < 3 * pos /\ Len(f) <= lag /\ Replayed(f, w, X, 0)

\* In front of the stat
Waiting(f, w, X, pos, last, lag) ==
    \/ pos = 0 /\ last = 0 /\ X = <<>>
    \/ \E j, k \in 0..Len(f) :
           /\ k <= j /\ Offset(f, j) = pos /\ Offset(f, k) = last /\ Len(f) <= k + lag
           /\ Replayed(f, w, X, j)
    \/ Restarted(f, w, X, pos, last, lag)
    \/ /\ 2 * MaxBytes < 3 * last /\ Len(f) <= lag
       /\ \E j \in 0..Len(f) : Offset(f, j) = pos /\ LinesOf(X, f, 0, j)

\* Between the stat and the open
Opening(f, w, X, pos, last, lag) ==
    \/ \E j, k \in 0..Len(f) :
           /\ j <= k /\ Offset(f, j) = pos /\ Offset(f, k) = last /\ Len(f) <= k + lag
           /\ 3 * (last - pos) < MaxBytes /\ Replayed(f, w, X, j)
    \/ /\ pos = 0 /\ X = <<>>
       /\ \E k \in 0..Len(f) : Offset(f, k) = last /\ Len(f) <= k + lag
    \/ Restarted(f, w, X, pos, last, lag)
    \/ pos = 0 /\ X = <<>> /\ 2 * MaxBytes < 3 * last /\ Len(f) <= lag
    \/ /\ pos = 0 /\ 3 * last < MaxBytes
       /\ \E j, k \in 0..Len(f) : LinesOf(X, f, 0, j) /\ Offset(f, k) = last /\ Len(f) <= k + lag

LEMMA NoneOf ==
    ASSUME NEW f \in Seq(LogLine)
    PROVE  LinesOf(<<>>, f, 0, 0) /\ \A X : LinesOf(X, f, 0, 0) => X = <<>>
<1>1. PICK z : z = <<>>
    OBVIOUS
<1>2. z \in Seq(Item) /\ Len(z) = 0
    BY <1>1, EmptySeq
<1>3. LinesOf(z, f, 0, 0)
    BY <1>2 DEF LinesOf
<1>4. \A X : LinesOf(X, f, 0, 0) => X = <<>>
    BY EmptySeq DEF LinesOf
<1> QED
    BY <1>1, <1>3, <1>4

\* Whatever it does, what it shows is in order.
LEMMA TailInOrder ==
    ASSUME NEW f, NEW w, InWriting(f, w), NEW X, NEW pos, NEW last, NEW lag,
           Waiting(f, w, X, pos, last, lag) \/ Opening(f, w, X, pos, last, lag)
    PROVE  /\ X \in Seq(Item) /\ InOrderIn(f, X)
           /\ Range(X) \subseteq 0..w
<1>1. Replayed(f, w, <<>>, 0) /\ \A j \in 0..Len(f) : LinesOf(X, f, 0, j) => Replayed(f, w, X, j)
    BY RepeatedFirst
<1>2. \E j : Replayed(f, w, X, j)
    BY <1>1 DEF Waiting, Opening, Restarted
<1> QED
    BY <1>2, RepeatedInOrder

LEMMA LinesOfExtended ==
    ASSUME NEW f, NEW g, NEW m, Extends(f, g, m), NEW X, NEW j \in 0..Len(f), f \in Seq(LogLine), LinesOf(X, f, 0, j)
    PROVE  LinesOf(X, g, 0, j)
<1>1. Len(f) \in Nat /\ j - 0 = j /\ \A i \in 1..j : 0 + i = i /\ i \in 1..Len(f)
    BY LenProperties
<1> QED
    BY <1>1 DEF LinesOf, Extends

LEMMA WaitingWritten ==
    ASSUME NEW f, NEW w, InWriting(f, w), w + 1 \in LogLine, NEW X, NEW pos \in Nat, NEW last \in Nat,
           NEW lag \in Nat, lag < Burst, Waiting(f, w, X, pos, last, lag), NEW g, Written(f, g, w + 1)
    PROVE  Waiting(g, w + 1, X, pos, last, lag + 1)
<1>1. f \in Seq(LogLine) /\ Len(f) \in Nat /\ Burst \in Nat /\ MaxBytes \in Nat
    BY WritingFacts, Lengths
<1>2. CASE Extends(f, g, w + 1)
    <2>1. Len(g) \in Nat /\ Len(f) <= Len(g) /\ Len(g) <= Len(f) + 1
        BY <1>2, LenProperties DEF Extends
    <2>2. \A i \in 0..Len(f) : i \in 0..Len(g) /\ Offset(g, i) = Offset(f, i)
        BY <1>1, <1>2, ExtendsOffsets
    <2>3. \A j : Replayed(f, w, X, j) => Replayed(g, w + 1, X, j)
        BY <1>2, RepeatedExtended
    <2>4. \A j \in 0..Len(f) : LinesOf(X, f, 0, j) => LinesOf(X, g, 0, j)
        BY <1>1, <1>2, LinesOfExtended
    <2>5. ASSUME NEW j \in 0..Len(f), NEW k \in 0..Len(f), k <= j, Offset(f, j) = pos, Offset(f, k) = last,
                 Len(f) <= k + lag, Replayed(f, w, X, j)
          PROVE  Waiting(g, w + 1, X, pos, last, lag + 1)
        <3>1. /\ j \in 0..Len(g) /\ k \in 0..Len(g) /\ Offset(g, j) = pos /\ Offset(g, k) = last
              /\ Len(g) <= k + (lag + 1)
            BY <1>1, <2>1, <2>2, <2>5
        <3> QED
            BY <2>3, <2>5, <3>1 DEF Waiting
    <2>6. Len(f) <= lag => Len(g) <= lag + 1
        BY <1>1, <2>1
    <2>7. Restarted(f, w, X, pos, last, lag) => Waiting(g, w + 1, X, pos, last, lag + 1)
        BY <2>3, <2>6 DEF Restarted, Waiting
    <2>8. ASSUME 2 * MaxBytes < 3 * last, Len(f) <= lag, NEW j \in 0..Len(f), Offset(f, j) = pos, LinesOf(X, f, 0, j)
          PROVE  Waiting(g, w + 1, X, pos, last, lag + 1)
        BY <2>2, <2>4, <2>6, <2>8 DEF Waiting
    <2> QED
        BY <2>5, <2>7, <2>8 DEF Waiting
<1>3. CASE g \in Seq(LogLine) /\ Len(g) = 1 /\ g[1] = w + 1 /\ Full(f, w + 1)
    <2>1. \A j : Replayed(f, w, X, j) => Replayed(g, w + 1, X, 0)
        BY <1>3, RepeatedRotated
    <2>2. Len(g) <= lag + 1
        BY <1>3
    <2>3. ~ (Len(f) <= lag)
        <3> SUFFICES ASSUME Len(f) <= lag
                     PROVE  FALSE
            OBVIOUS
        <3>1. Len(f) <= Burst /\ Len(f) + 1 <= Burst
            BY <1>1
        <3> QED
            BY <1>1, <1>3, <3>1, ShortFile
    <2>4. ASSUME NEW j \in 0..Len(f), NEW k \in 0..Len(f), k <= j, Offset(f, j) = pos, Offset(f, k) = last,
                 Len(f) <= k + lag, Replayed(f, w, X, j)
          PROVE  Waiting(g, w + 1, X, pos, last, lag + 1)
        <3>1. Len(f) + 1 <= k + Burst
            BY <1>1, <2>4
        <3>2. 2 * MaxBytes < 3 * last
            BY <1>1, <1>3, <2>4, <3>1, FullIsLate
        <3>3. last <= pos
            BY <1>1, <2>4, OffsetsGrow
        <3>4. MaxBytes < 3 * pos
            BY <1>1, <3>2, <3>3
        <3> QED
            BY <2>1, <2>2, <2>4, <3>2, <3>4 DEF Restarted, Waiting
    <2> QED
        BY <2>3, <2>4 DEF Waiting, Restarted
<1> QED
    BY <1>2, <1>3 DEF Written

LEMMA OpeningWritten ==
    ASSUME NEW f, NEW w, InWriting(f, w), w + 1 \in LogLine, NEW X, NEW pos \in Nat, NEW last \in Nat,
           NEW lag \in Nat, lag < Burst, Opening(f, w, X, pos, last, lag), NEW g, Written(f, g, w + 1)
    PROVE  Opening(g, w + 1, X, pos, last, lag + 1)
<1>1. f \in Seq(LogLine) /\ Len(f) \in Nat /\ Burst \in Nat /\ MaxBytes \in Nat
    BY WritingFacts, Lengths
<1>2. CASE Extends(f, g, w + 1)
    <2>1. Len(g) \in Nat /\ Len(f) <= Len(g) /\ Len(g) <= Len(f) + 1
        BY <1>2, LenProperties DEF Extends
    <2>2. \A i \in 0..Len(f) : i \in 0..Len(g) /\ Offset(g, i) = Offset(f, i)
        BY <1>1, <1>2, ExtendsOffsets
    <2>3. \A j : Replayed(f, w, X, j) => Replayed(g, w + 1, X, j)
        BY <1>2, RepeatedExtended
    <2>4. \A j \in 0..Len(f) : LinesOf(X, f, 0, j) => LinesOf(X, g, 0, j)
        BY <1>1, <1>2, LinesOfExtended
    <2>5. \A k \in 0..Len(f) : Len(f) <= k + lag => Len(g) <= k + (lag + 1)
        BY <1>1, <2>1
    <2>6. Len(f) <= lag => Len(g) <= lag + 1
        BY <1>1, <2>1
    <2>7. ASSUME NEW j \in 0..Len(f), NEW k \in 0..Len(f), j <= k, Offset(f, j) = pos, Offset(f, k) = last,
                 Len(f) <= k + lag, 3 * (last - pos) < MaxBytes, Replayed(f, w, X, j)
          PROVE  Opening(g, w + 1, X, pos, last, lag + 1)
        BY <2>2, <2>3, <2>5, <2>7 DEF Opening
    <2>8. ASSUME pos = 0, X = <<>>, NEW k \in 0..Len(f), Offset(f, k) = last, Len(f) <= k + lag
          PROVE  Opening(g, w + 1, X, pos, last, lag + 1)
        BY <2>2, <2>5, <2>8 DEF Opening
    <2>9. Restarted(f, w, X, pos, last, lag) => Opening(g, w + 1, X, pos, last, lag + 1)
        BY <2>3, <2>6 DEF Restarted, Opening
    <2>10. ASSUME pos = 0, X = <<>>, 2 * MaxBytes < 3 * last, Len(f) <= lag
           PROVE  Opening(g, w + 1, X, pos, last, lag + 1)
        BY <2>6, <2>10 DEF Opening
    <2>11. ASSUME pos = 0, 3 * last < MaxBytes, NEW j \in 0..Len(f), NEW k \in 0..Len(f), LinesOf(X, f, 0, j),
                  Offset(f, k) = last, Len(f) <= k + lag
           PROVE  Opening(g, w + 1, X, pos, last, lag + 1)
        BY <2>2, <2>4, <2>5, <2>11 DEF Opening
    <2> QED
        BY <2>7, <2>8, <2>9, <2>10, <2>11 DEF Opening
<1>3. CASE g \in Seq(LogLine) /\ Len(g) = 1 /\ g[1] = w + 1 /\ Full(f, w + 1)
    <2>1. \A j : Replayed(f, w, X, j) => Replayed(g, w + 1, X, 0)
        BY <1>3, RepeatedRotated
    <2>2. Len(g) <= lag + 1
        BY <1>3
    <2>3. ~ (Len(f) <= lag)
        <3> SUFFICES ASSUME Len(f) <= lag
                     PROVE  FALSE
            OBVIOUS
        <3>1. Len(f) <= Burst /\ Len(f) + 1 <= Burst
            BY <1>1
        <3> QED
            BY <1>1, <1>3, <3>1, ShortFile
    <2>4. ASSUME NEW k \in 0..Len(f), Offset(f, k) = last, Len(f) <= k + lag
          PROVE  2 * MaxBytes < 3 * last
        <3>1. Len(f) + 1 <= k + Burst
            BY <1>1, <2>4
        <3> QED
            BY <1>1, <1>3, <2>4, <3>1, FullIsLate
    <2>5. ASSUME NEW j \in 0..Len(f), NEW k \in 0..Len(f), j <= k, Offset(f, j) = pos, Offset(f, k) = last,
                 Len(f) <= k + lag, 3 * (last - pos) < MaxBytes, Replayed(f, w, X, j)
          PROVE  Opening(g, w + 1, X, pos, last, lag + 1)
        <3>1. 2 * MaxBytes < 3 * last
            BY <2>4, <2>5
        <3>2. MaxBytes < 3 * pos
            BY <1>1, <2>5, <3>1
        <3> QED
            BY <2>1, <2>2, <2>5, <3>1, <3>2 DEF Restarted, Opening
    <2>6. ASSUME pos = 0, X = <<>>, NEW k \in 0..Len(f), Offset(f, k) = last, Len(f) <= k + lag
          PROVE  Opening(g, w + 1, X, pos, last, lag + 1)
        <3>1. 2 * MaxBytes < 3 * last
            BY <2>4, <2>6
        <3> QED
            BY <2>2, <2>6, <3>1 DEF Opening
    <2>7. ASSUME 3 * last < MaxBytes, NEW k \in 0..Len(f), Offset(f, k) = last, Len(f) <= k + lag
          PROVE  FALSE
        <3>1. 2 * MaxBytes < 3 * last
            BY <2>4, <2>7
        <3> QED
            BY <1>1, <2>7, <3>1
    <2> QED
        BY <2>3, <2>5, <2>6, <2>7 DEF Opening, Restarted
<1> QED
    BY <1>2, <1>3 DEF Written

\* The stat notices that the file was started again, except on the first read.
LEMMA WaitingStat ==
    ASSUME NEW f, NEW w, InWriting(f, w), NEW X, NEW pos \in Nat, NEW last \in Nat, NEW lag \in 0..Burst,
           Waiting(f, w, X, pos, last, lag), NEW now, now = Offset(f, Len(f)),
           NEW start, start = IF now < last THEN 0 ELSE pos
    PROVE  Opening(f, w, X, start, now, 0)
<1>1. f \in Seq(LogLine) /\ Len(f) \in Nat /\ Burst \in Nat /\ MaxBytes \in Nat /\ now \in Nat
    BY WritingFacts, Lengths, Offsets
<1>2. /\ Len(f) \in 0..Len(f) /\ 0 \in 0..Len(f) /\ Offset(f, 0) = 0 /\ 0 <= Len(f) /\ Len(f) <= Len(f) + 0
    BY <1>1, Offsets
<1>3. ASSUME Len(f) <= lag
      PROVE  3 * now < MaxBytes /\ 3 * (now - 0) < MaxBytes
    <2>1. Len(f) <= Burst
        BY <1>1, <1>3
    <2> QED
        BY <1>1, <2>1, ShortFile
<1>4. CASE pos = 0 /\ last = 0 /\ X = <<>>
    <2>1. start = 0
        BY <1>1, <1>4
    <2> QED
        BY <1>2, <1>4, <2>1 DEF Opening
<1>5. ASSUME NEW j \in 0..Len(f), NEW k \in 0..Len(f), k <= j, Offset(f, j) = pos, Offset(f, k) = last,
             Len(f) <= k + lag, Replayed(f, w, X, j)
      PROVE  Opening(f, w, X, start, now, 0)
    <2>1. last <= now /\ start = pos
        <3>1. last <= now
            BY <1>1, <1>5, SizeIs
        <3> QED
            BY <1>1, <3>1
    <2>2. j <= Len(f) /\ Len(f) <= j + Burst
        BY <1>1, <1>5
    <2>3. 3 * (now - pos) < MaxBytes
        BY <1>1, <1>2, <1>5, <2>2, OffsetsNear
    <2> QED
        BY <1>2, <1>5, <2>1, <2>2, <2>3 DEF Opening
<1>6. CASE Restarted(f, w, X, pos, last, lag)
    <2>1. 2 * MaxBytes < 3 * last /\ Len(f) <= lag /\ Replayed(f, w, X, 0)
        BY <1>6 DEF Restarted
    <2>2. start = 0
        BY <1>1, <1>3, <2>1
    <2> QED
        BY <1>2, <1>3, <2>1, <2>2 DEF Opening
<1>7. ASSUME 2 * MaxBytes < 3 * last, Len(f) <= lag, NEW j \in 0..Len(f), LinesOf(X, f, 0, j)
      PROVE  Opening(f, w, X, start, now, 0)
    <2>1. start = 0
        BY <1>1, <1>3, <1>7
    <2> QED
        BY <1>2, <1>3, <1>7, <2>1 DEF Opening
<1> QED
    BY <1>4, <1>5, <1>6, <1>7 DEF Waiting

\* The open reads from where the thread is to the end of the file there is then.
LEMMA OpeningRead ==
    ASSUME NEW w, InWriting(file, w), NEW X, NEW pos \in Nat, NEW last \in Nat, NEW lag \in 0..Burst,
           Opening(file, w, X, pos, last, lag),
           NEW upto, upto = Offset(file, Len(file)),
           NEW Y, Y = IF pos < upto THEN Joined(X, Items(pos, upto)) ELSE X,
           NEW next, next = IF pos < upto THEN upto ELSE pos
    PROVE  Waiting(file, w, Y, next, last, lag)
<1> DEFINE n == Len(file)
<1>1. file \in Seq(LogLine) /\ n \in Nat /\ Burst \in Nat /\ MaxBytes \in Nat /\ upto \in Nat
    BY WritingFacts, Lengths, Offsets
<1>2. n \in 0..n /\ 0 \in 0..n /\ Offset(file, 0) = 0 /\ 0 <= n
    BY <1>1, Offsets
<1>3. ASSUME NEW j \in 0..n, Offset(file, j) = pos
      PROVE  /\ next = upto
             /\ pos < upto => LinesOf(Items(pos, upto), file, j, n)
             /\ ~ (pos < upto) => j = n
    <2>1. pos <= upto /\ j <= n
        BY <1>1, <1>3, SizeIs
    <2>2. LinesOf(Items(pos, upto), file, j, n)
        BY <1>1, <1>2, <1>3, <2>1, ItemsAre
    <2>3. pos = upto => j = n
        BY <1>1, <1>2, <1>3, OffsetIs
    <2> QED
        BY <1>1, <2>1, <2>2, <2>3
<1>4. ASSUME NEW j \in 0..n, Offset(file, j) = pos, Replayed(file, w, X, j)
      PROVE  Replayed(file, w, Y, n) /\ next = Offset(file, n)
    <2>1. CASE pos < upto
        <3>1. LinesOf(Items(pos, upto), file, j, n)
            BY <1>3, <1>4, <2>1
        <3>2. j <= n
            BY <1>1
        <3>3. Replayed(file, w, Joined(X, Items(pos, upto)), n)
            BY <1>2, <1>4, <3>1, <3>2, RepeatedMore
        <3> QED
            BY <1>3, <1>4, <2>1, <3>3
    <2>2. CASE ~ (pos < upto)
        BY <1>3, <1>4, <2>2
    <2> QED
        BY <2>1, <2>2
<1>5. \A k \in 0..n : k <= n
    BY <1>1
<1>6. Replayed(file, w, <<>>, 0)
    BY RepeatedFirst
<1>7. ASSUME pos = 0, X = <<>>
      PROVE  LinesOf(Y, file, 0, n) /\ next = Offset(file, n)
    <2>1. PICK z : z = <<>>
        OBVIOUS
    <2>2. CASE pos < upto
        <3>1. LinesOf(Items(pos, upto), file, 0, n)
            BY <1>2, <1>3, <1>7, <2>2
        <3> DEFINE t == Items(pos, upto)
        <3>2. t \in Seq(Item)
            BY <3>1 DEF LinesOf
        <3> HIDE DEF t
        <3>3. Joined(z, t) = t
            BY <2>1, <3>2, ConcatEmptySeq DEF Joined
        <3>4. Y = t
            BY <1>7, <2>1, <2>2, <3>3 DEF t
        <3> QED
            BY <1>2, <1>3, <1>7, <3>1, <3>4 DEF t
    <2>3. CASE ~ (pos < upto)
        <3>1. n = 0 /\ Y = <<>>
            BY <1>2, <1>3, <1>7, <2>3
        <3>2. LinesOf(<<>>, file, 0, 0)
            BY <1>1, NoneOf
        <3> QED
            BY <1>2, <1>3, <1>7, <3>1, <3>2
    <2> QED
        BY <2>2, <2>3
<1>8. ASSUME NEW j \in 0..n, NEW k \in 0..n, j <= k, Offset(file, j) = pos, Offset(file, k) = last,
             n <= k + lag, Replayed(file, w, X, j)
      PROVE  Waiting(file, w, Y, next, last, lag)
    BY <1>2, <1>4, <1>5, <1>8 DEF Waiting
<1>9. ASSUME pos = 0, X = <<>>, NEW k \in 0..n, Offset(file, k) = last, n <= k + lag
      PROVE  Waiting(file, w, Y, next, last, lag)
    <2>1. Replayed(file, w, Y, n) /\ next = Offset(file, n)
        BY <1>2, <1>4, <1>6, <1>9
    <2> QED
        BY <1>2, <1>5, <1>9, <2>1 DEF Waiting
<1>10. CASE Restarted(file, w, X, pos, last, lag)
    <2>1. MaxBytes < 3 * pos /\ n <= lag
        BY <1>10 DEF Restarted
    <2>2. n <= Burst
        BY <1>1, <2>1
    <2>3. 3 * upto < MaxBytes
        BY <1>1, <2>2, ShortFile
    <2>4. ~ (pos < upto)
        BY <1>1, <2>1, <2>3
    <2>5. Y = X /\ next = pos
        BY <2>4
    <2> QED
        BY <1>10, <2>5 DEF Waiting
<1>11. ASSUME pos = 0, X = <<>>, 2 * MaxBytes < 3 * last, n <= lag
       PROVE  Waiting(file, w, Y, next, last, lag)
    BY <1>2, <1>7, <1>11 DEF Waiting
<1>12. ASSUME pos = 0, NEW j \in 0..n, NEW k \in 0..n, LinesOf(X, file, 0, j), Offset(file, k) = last, n <= k + lag
       PROVE  Waiting(file, w, Y, next, last, lag)
    <2>1. Replayed(file, w, Y, n) /\ next = Offset(file, n)
        <3>1. CASE pos < upto
            <4>1. LinesOf(Items(pos, upto), file, 0, n)
                BY <1>2, <1>3, <1>12, <3>1
            <4>2. Replayed(file, w, Joined(X, Items(pos, upto)), n)
                BY <1>12, <4>1, RepeatedAgain
            <4> QED
                BY <3>1, <4>2
        <3>2. CASE ~ (pos < upto)
            <4>1. n = 0 /\ next = Offset(file, n)
                BY <1>2, <1>3, <1>12, <3>2
            <4>2. j = 0
                BY <4>1
            <4>3. X = <<>>
                BY <1>1, <1>12, <4>2, NoneOf
            <4> QED
                BY <1>6, <3>2, <4>1, <4>3
        <3> QED
            BY <3>1, <3>2
    <2> QED
        BY <1>2, <1>5, <1>12, <2>1 DEF Waiting
<1> QED
    BY <1>8, <1>9, <1>10, <1>11, <1>12 DEF Opening

-----------------------------------------------------------------------------
(* The steps.                                                              *)

LEMMA EmitWrites ==
    ASSUME TypeOK, InWriting(file, written), Emit
    PROVE  /\ written' = written + 1 /\ written + 1 \in LogLine
           /\ Written(file, file', written + 1)
           /\ InWriting(file', written')
           /\ \A f \in {Stream} \union Thread :
                  f \in Following => since[f] < Burst /\ since'[f] = since[f] + 1
           /\ UNCHANGED <<tails, queue, ws>>
<1> DEFINE n == written + 1
<1>1. /\ file \in Seq(LogLine) /\ Len(file) \in Nat /\ written \in 0..MaxLines /\ MaxLines \in Nat
      /\ since \in [{Stream} \union Thread -> 0..Burst]
    BY FileTypes, LogsTypes, LenProperties, Lengths
<1>2. written' = n /\ n \in LogLine
    BY <1>1 DEF Emit, LogLine
<1>3. \/ file' = Append(file, n)
      \/ file' = <<n>> /\ Size(file) + LenOf[n] >= MaxBytes
      \/ file' = file
    BY DEF Emit
<1>4. ASSUME file' = Append(file, n)
      PROVE  Written(file, file', n)
    <2> DEFINE g == Append(file, n)
    <2> HIDE DEF n
    <2>1. g \in Seq(LogLine) /\ Len(g) = Len(file) + 1 /\ g[Len(file) + 1] = n /\ \A i \in 1..Len(file) : g[i] = file[i]
        BY <1>1, <1>2, AppendProperties
    <2> HIDE DEF g
    <2>2. Extends(file, g, n)
        BY <1>1, <2>1 DEF Extends
    <2> QED
        BY <1>4, <2>2 DEF Written, n, g
<1>5. ASSUME file' = <<n>>, Size(file) + LenOf[n] >= MaxBytes
      PROVE  Written(file, file', n)
    <2>1. <<n>> \in Seq(LogLine) /\ Len(<<n>>) = 1 /\ <<n>>[1] = n
        BY <1>2
    <2>2. Size(file) = Offset(file, Len(file)) /\ Size(file) \in Nat /\ LenOf[n] \in Nat /\ MaxBytes \in Nat
        BY <1>1, <1>2, SizeIs, Lengths
    <2>3. Full(file, n)
        <3> DEFINE a == Size(file)
                   b == LenOf[n]
        <3>1. a \in Nat /\ b \in Nat /\ MaxBytes \in Nat /\ a + b >= MaxBytes
            BY <1>5, <2>2
        <3> HIDE DEF a, b
        <3>2. MaxBytes <= a + b
            BY <3>1
        <3> QED
            BY <2>2, <3>2 DEF Full, a, b
    <2> QED
        BY <1>5, <2>1, <2>3 DEF Written
<1>6. ASSUME file' = file
      PROVE  Written(file, file', n)
    <2> HIDE DEF n
    <2>1. Len(file) <= Len(file) /\ Len(file) <= Len(file) + 1 /\ (Len(file) + 1)..Len(file) = {}
        BY <1>1
    <2>2. Extends(file, file, n)
        BY <1>1, <2>1 DEF Extends
    <2> QED
        BY <1>6, <2>2 DEF Written, n
<1>7. Written(file, file', n)
    BY <1>3, <1>4, <1>5, <1>6
<1>8. InWriting(file', written')
    <2> DEFINE g == file'
    <2>1. Written(file, g, n)
        BY <1>7
    <2> HIDE DEF g
    <2>2. InWriting(g, n)
        BY <1>2, <2>1, WritingNext DEF Written
    <2> QED
        BY <1>2, <2>2 DEF g
<1>9. \A f \in {Stream} \union Thread :
          f \in Following => since[f] < Burst /\ since'[f] = since[f] + 1
    BY <1>1 DEF Emit
<1>10. UNCHANGED <<tails, queue, ws>>
    BY DEF Emit, panes
<1> QED
    BY <1>2, <1>7, <1>8, <1>9, <1>10

\* What was in order stays so when a line is written: it is after all of it.
LEMMA InOrderWritten ==
    ASSUME NEW f, NEW w, InWriting(f, w), w + 1 \in LogLine, NEW g, Written(f, g, w + 1),
           NEW X \in Seq(Item), InOrderIn(f, X), Range(X) \subseteq 0..w
    PROVE  InOrderIn(g, X) /\ Range(X) \subseteq 0..(w + 1)
<1>1. f \in Seq(LogLine) /\ Len(f) \in Nat /\ w \in Nat /\ g \in Seq(LogLine) /\ Len(g) \in Nat
    BY WritingFacts, LenProperties DEF Written, Extends
<1>2. PICK k \in 0..Len(X) :
          /\ Ascending(SubSeq(X, k + 1, Len(X))) /\ MissingIn(f, SubSeq(X, k + 1, Len(X)), 0)
          /\ IsPrefix(SubSeq(X, 1, k), SubSeq(X, k + 1, Len(X)))
    BY DEF InOrderIn
<1> DEFINE s == SubSeq(X, k + 1, Len(X))
<1>3. Len(X) \in Nat /\ \A i \in 1..Len(X) : X[i] \in Range(X) /\ X[i] \in Item
    BY LenProperties, RangeIs, ElementOfSeq
<1>4. s \in Seq(Item) /\ s \in Seq(Range(X))
    <2>1. k + 1 \in Int /\ Len(X) \in Int /\ \A i \in (k + 1)..Len(X) : X[i] \in Range(X) /\ X[i] \in Item
        BY <1>3
    <2>2. \A i \in (k + 1)..Len(X) : X[i] \in Item
        BY <2>1
    <2>3. \A i \in (k + 1)..Len(X) : X[i] \in Range(X)
        BY <2>1
    <2>4. s \in Seq(Item)
        BY <2>1, <2>2, SubSeqProperties
    <2>5. s \in Seq(Range(X))
        BY <2>1, <2>3, SubSeqProperties
    <2> QED
        BY <2>4, <2>5
<1>5. Ascending(s) /\ MissingIn(f, s, 0)
    BY <1>2
<1> HIDE DEF s
<1>6. Range(s) \subseteq Range(X) /\ Range(s) \subseteq Nat
    BY <1>4, <1>5, RangeIs, AscendingIs
<1>7. MissingIn(g, s, 0)
    <2> SUFFICES ASSUME s # <<>>, NEW x \in (0 + 1 .. Last(s)) \intersect Range(g)
                 PROVE  x \in Range(s)
        BY DEF MissingIn
    <2>1. Len(s) \in 1..Len(s)
        BY <1>4, EmptySeq, LenProperties
    <2>2. Last(s) \in Range(s)
        BY <1>4, <2>1, RangeIs DEF Last
    <2>3. Last(s) \in Nat /\ Last(s) <= w
        BY <1>1, <1>6, <2>2
    <2>4. x # w + 1
        BY <1>1, <2>3
    <2>5. x \in Range(f)
        <3>1. PICK i \in 1..Len(g) : x = g[i]
            BY <1>1, RangeIs
        <3>2. CASE Extends(f, g, w + 1)
            <4>1. i \in 1..Len(f)
                <5>1. ~ (i \in (Len(f) + 1)..Len(g))
                    BY <2>4, <3>1, <3>2 DEF Extends
                <5> QED
                    BY <1>1, <5>1
            <4>2. x = f[i]
                BY <3>1, <3>2, <4>1 DEF Extends
            <4> QED
                BY <1>1, <4>1, <4>2, RangeIs
        <3>3. CASE Len(g) = 1 /\ g[1] = w + 1
            BY <2>4, <3>1, <3>3
        <3> QED
            BY <3>2, <3>3 DEF Written
    <2> QED
        BY <1>5, <2>5 DEF MissingIn
<1>8. InOrderIn(g, X)
    BY <1>2, <1>5, <1>7 DEF InOrderIn, s
<1>9. Range(X) \subseteq 0..(w + 1)
    BY <1>1
<1> QED
    BY <1>8, <1>9

\* The handler: what it has sent and holds to send is what it has read.
StreamOf(f, w, s, lag) ==
    IF s.pc \in {"sleep", "read", "send"}
    THEN /\ s.pc # "send" => s.out = <<>>
         /\ IF s.pc = "read"
            THEN Polling(f, w, Joined(s.sent, s.out), s.from, s.size, s.now, lag)
            ELSE Sleeping(f, w, Joined(s.sent, s.out), s.from, s.size, lag)
    ELSE s.sent = <<>>

\* A thread: X is what it shows when all that is queued is shown.
TailOf(f, w, tail, X, lag) ==
    /\ InOrderIn(f, tail.pane) /\ Range(tail.pane) \subseteq 0..w
    /\ InOrderIn(f, X) /\ Range(X) \subseteq 0..w
    /\ tail.pc = "none" => tail.pane = <<>> /\ X = <<>>
    /\ tail.pc = "loop" => Waiting(f, w, X, tail.pos, tail.last, lag)
    /\ tail.pc = "read" => Opening(f, w, X, tail.pos, tail.last, lag)

StreamInv == StreamOf(file, written, ws, since[Stream])
LogTailInv(t) == TailOf(file, written, tails[t], Pane(tails[t].pane, queue, t), since[t])

FollowInv ==
    /\ InWriting(file, written)
    /\ StreamInv
    /\ \A t \in Thread : LogTailInv(t)

LEMMA StreamWritten ==
    ASSUME TypeOK, FollowInv, Emit
    PROVE  StreamInv'
<1>1. /\ InWriting(file, written) /\ StreamOf(file, written, ws, since[Stream])
      /\ ws \in WsType /\ since[Stream] \in 0..Burst
    BY LogsTypes DEF FollowInv, StreamInv
<1>2. /\ written' = written + 1 /\ written + 1 \in LogLine /\ Written(file, file', written + 1)
      /\ Stream \in Following => since[Stream] < Burst /\ since'[Stream] = since[Stream] + 1
      /\ ws' = ws
    BY <1>1, EmitWrites
<1> DEFINE g == file'
           lag == since[Stream]
<1>3. Written(file, g, written + 1)
    BY <1>2
<1>4. lag \in Nat /\ ws.size \in Nat /\ ws.now \in Nat
    BY <1>1, Lengths DEF WsType
<1> HIDE DEF g
<1>5. CASE ws.pc \in {"sleep", "read", "send"}
    <2>1. lag < Burst /\ since'[Stream] = lag + 1
        BY <1>2, <1>5 DEF Following
    <2> HIDE DEF lag
    <2>2. StreamOf(g, written + 1, ws, lag + 1)
        <3> DEFINE s == Joined(ws.sent, ws.out)
        <3> HIDE DEF s
        <3>1. CASE ws.pc = "read"
            <4>1. Polling(file, written, s, ws.from, ws.size, ws.now, lag)
                BY <1>1, <3>1 DEF StreamOf, s, lag
            <4>2. Polling(g, written + 1, s, ws.from, ws.size, ws.now, lag + 1)
                BY <1>1, <1>2, <1>3, <1>4, <2>1, <4>1, PollingWritten
            <4> QED
                BY <1>1, <3>1, <4>2 DEF StreamOf, s
        <3>2. CASE ws.pc # "read"
            <4>1. Sleeping(file, written, s, ws.from, ws.size, lag)
                BY <1>1, <1>5, <3>2 DEF StreamOf, s, lag
            <4>2. Sleeping(g, written + 1, s, ws.from, ws.size, lag + 1)
                BY <1>1, <1>2, <1>3, <1>4, <2>1, <4>1, SleepingWritten
            <4> QED
                BY <1>1, <1>5, <3>2, <4>2 DEF StreamOf, s
        <3> QED
            BY <3>1, <3>2
    <2> QED
        BY <1>2, <2>1, <2>2 DEF StreamInv, g
<1>6. CASE ws.pc \notin {"sleep", "read", "send"}
    <2>1. ws.sent = <<>>
        BY <1>1, <1>6 DEF StreamOf
    <2> QED
        BY <1>2, <1>6, <2>1 DEF StreamInv, StreamOf
<1> QED
    BY <1>5, <1>6

\* Sending one of them leaves the whole as it is.
LEMMA SentOne ==
    ASSUME NEW a \in Seq(Item), NEW b \in Seq(Item), b # <<>>
    PROVE  Joined(Append(a, Head(b)), Tail(b)) = Joined(a, b)
<1>1. Head(b) \in Item /\ Tail(b) \in Seq(Item) /\ <<Head(b)>> \in Seq(Item)
    BY HeadTailProperties
<1>2. Append(a, Head(b)) = a \o <<Head(b)>>
    BY <1>1, AppendIsConcat
<1>3. <<Head(b)>> \o Tail(b) = b
    <2> DEFINE h == <<Head(b)>>
               t == Tail(b)
               q == h \o t
    <2>1. Len(b) \in Nat /\ 0 < Len(b) /\ Len(t) = Len(b) - 1 /\ \A i \in 1..Len(t) : t[i] = b[i + 1]
        BY HeadTailProperties, EmptySeq, LenProperties
    <2>2. Len(h) = 1 /\ h[1] = b[1] /\ h \in Seq(Item)
        BY <1>1, <2>1
    <2> HIDE DEF h
    <2>3. t \in Seq(Item)
        BY <1>1
    <2> HIDE DEF t
    <2>4. /\ q \in Seq(Item) /\ Len(q) = Len(h) + Len(t)
          /\ \A i \in 1..(Len(h) + Len(t)) : q[i] = IF i <= Len(h) THEN h[i] ELSE t[i - Len(h)]
        BY <2>2, <2>3, ConcatProperties
    <2> HIDE DEF q
    <2>5. \A i \in 1..Len(q) : q[i] = b[i]
        <3> SUFFICES ASSUME NEW i \in 1..Len(q)
                     PROVE  q[i] = b[i]
            OBVIOUS
        <3>1. CASE i = 1
            BY <2>1, <2>2, <2>4, <3>1
        <3>2. CASE i # 1
            <4>1. i - 1 \in 1..Len(t) /\ (i - 1) + 1 = i /\ ~ (i <= 1) /\ i \in 1..(Len(h) + Len(t))
                BY <2>1, <2>2, <2>4, <3>2
            <4>2. q[i] = t[i - 1]
                BY <2>2, <2>4, <4>1
            <4> QED
                BY <2>1, <4>1, <4>2
        <3> QED
            BY <3>1, <3>2
    <2>6. Len(q) = Len(b)
        BY <2>1, <2>2, <2>4
    <2>7. q = b
        BY <2>4, <2>5, <2>6, SeqEqual
    <2> QED
        BY <2>7 DEF q, h, t
<1>4. (a \o <<Head(b)>>) \o Tail(b) = a \o (<<Head(b)>> \o Tail(b))
    BY <1>1, ConcatAssociative
<1> QED
    BY <1>2, <1>3, <1>4 DEF Joined

\* The handler's own steps.
LEMMA StreamMoves ==
    ASSUME TypeOK, FollowInv, TakeSize \/ PollStat \/ PollRead \/ Send
    PROVE  StreamInv'
<1> DEFINE now == Offset(file, Len(file))
<1>1. /\ InWriting(file, written) /\ StreamOf(file, written, ws, since[Stream])
      /\ ws \in WsType /\ since[Stream] \in 0..Burst
      /\ since \in [{Stream} \union Thread -> 0..Burst]
    BY LogsTypes DEF FollowInv, StreamInv
<1>2. /\ file \in Seq(LogLine) /\ Len(file) \in Nat /\ now = Size(file) /\ now \in Nat /\ Burst \in Nat
    BY FileTypes, SizeIs, LenProperties, Lengths
<1>3. ws.sent \in Seq(Item) /\ ws.out \in Seq(Item) /\ ws.size \in Nat /\ ws.now \in Nat
    BY <1>1 DEF WsType
<1>4. PICK z : z = <<>>
    OBVIOUS
<1>5. z \in Seq(Item) /\ \A s \in Seq(Item) : Joined(s, z) = s /\ Joined(z, s) = s
    BY <1>4, AscendingNone, ConcatEmptySeq DEF Joined
<1> HIDE DEF now
<1>6. CASE TakeSize
    <2> DEFINE x == [ws EXCEPT !.pc = "sleep", !.size = Size(file), !.from = written]
    <2>1. /\ ws' = x /\ since' = [since EXCEPT ![Stream] = 0] /\ ws.pc = "first" /\ ws.out = <<>>
          /\ file' = file /\ written' = written
        BY <1>6 DEF TakeSize
    <2>2. x.pc = "sleep" /\ x.size = now /\ x.from = written /\ x.sent = ws.sent /\ x.out = ws.out
        BY <1>1, <1>2 DEF WsType
    <2> HIDE DEF x
    <2>3. ws.sent = z /\ ws.out = z
        BY <1>1, <1>4, <2>1 DEF StreamOf
    <2>4. Joined(x.sent, x.out) = z
        BY <1>5, <2>2, <2>3
    <2>5. Has(file, written, z, written, Len(file))
        BY <1>1, <1>4, HasNone
    <2>6. Len(file) \in 0..Len(file) /\ Len(file) <= Len(file) + 0
        BY <1>2
    <2>7. Sleeping(file, written, z, written, now, 0)
        BY <2>5, <2>6 DEF Sleeping, now
    <2>8. since'[Stream] = 0
        BY <1>1, <2>1
    <2> QED
        BY <1>4, <2>1, <2>2, <2>3, <2>4, <2>7, <2>8 DEF StreamInv, StreamOf
<1>7. CASE PollStat
    <2> DEFINE start == IF now < ws.size THEN 0 ELSE ws.size
               to == IF now = start THEN ws.pc ELSE "read"
               x == [ws EXCEPT !.size = start, !.now = now, !.pc = to]
    <2>1. /\ ws' = x /\ since' = [since EXCEPT ![Stream] = 0] /\ ws.pc = "sleep"
          /\ file' = file /\ written' = written
        BY <1>2, <1>7 DEF PollStat
    <2>2. x.pc = to /\ x.size = start /\ x.now = now /\ x.from = ws.from /\ x.sent = ws.sent /\ x.out = ws.out
        BY <1>1 DEF WsType
    <2> DEFINE s == Joined(ws.sent, ws.out)
    <2> HIDE DEF s
    <2>3. ws.out = <<>> /\ Sleeping(file, written, s, ws.from, ws.size, since[Stream])
        BY <1>1, <2>1 DEF StreamOf, s
    <2>4. IF now = start THEN Sleeping(file, written, s, ws.from, start, 0)
          ELSE Polling(file, written, s, ws.from, start, now, 0)
        <3> HIDE DEF start
        <3>1. start = IF now < ws.size THEN 0 ELSE ws.size
            BY DEF start
        <3>2. now = Offset(file, Len(file))
            BY DEF now
        <3> QED
            BY <1>1, <1>3, <2>3, <3>1, <3>2, SleepingStat
    <2> HIDE DEF x, start
    <2>5. StreamOf(file, written, x, 0)
        <3>1. CASE now = start
            <4>1. x.pc = "sleep"
                BY <2>1, <2>2, <3>1
            <4> QED
                BY <2>2, <2>3, <2>4, <3>1, <4>1 DEF StreamOf, s
        <3>2. CASE now # start
            <4>1. x.pc = "read"
                BY <2>2, <3>2
            <4> QED
                BY <2>2, <2>3, <2>4, <3>2, <4>1 DEF StreamOf, s
        <3> QED
            BY <3>1, <3>2
    <2>6. since'[Stream] = 0
        BY <1>1, <2>1
    <2> QED
        BY <2>1, <2>5, <2>6 DEF StreamInv
<1>8. CASE PollRead
    <2> DEFINE t == Items(ws.size, ws.now)
               to == IF t = <<>> THEN "sleep" ELSE "send"
               x == [ws EXCEPT !.out = t, !.size = ws.now, !.pc = to]
    <2>1. ws' = x /\ UNCHANGED <<since, file, written>> /\ ws.pc = "read"
        BY <1>8 DEF PollRead
    <2>2. x.pc = to /\ x.size = ws.now /\ x.from = ws.from /\ x.sent = ws.sent /\ x.out = t
        BY <1>1 DEF WsType
    <2> HIDE DEF x
    <2>3. ws.out = z /\ Polling(file, written, Joined(ws.sent, ws.out), ws.from, ws.size, ws.now, since[Stream])
        BY <1>1, <1>4, <2>1 DEF StreamOf
    <2>4. Joined(ws.sent, ws.out) = ws.sent
        BY <1>3, <1>5, <2>3
    <2>5. Polling(file, written, ws.sent, ws.from, ws.size, ws.now, since[Stream])
        BY <2>3, <2>4
    <2>6. Sleeping(file, written, Joined(ws.sent, t), ws.from, ws.now, since[Stream])
        BY <1>1, <1>3, <2>5, PollingRead
    <2> HIDE DEF t
    <2>7. x.pc \in {"sleep", "read", "send"} /\ x.pc # "read" /\ (x.pc # "send" => x.out = <<>>)
        BY <2>2
    <2>8. StreamOf(file, written, x, since[Stream])
        BY <2>2, <2>6, <2>7 DEF StreamOf
    <2> QED
        BY <2>1, <2>8 DEF StreamInv
<1>9. CASE Send
    <2> DEFINE h == Head(ws.out)
               rest == Tail(ws.out)
               sent == IF ws.pc = "send" THEN Append(ws.sent, h) ELSE ws.sent
               to == IF ws.pc = "send" /\ Len(ws.out) = 1 THEN "sleep" ELSE ws.pc
               x == [ws EXCEPT !.out = rest, !.sent = sent, !.pc = to]
    <2>1. ws' = x /\ UNCHANGED <<since, file, written>> /\ ws.out # <<>>
        BY <1>9 DEF Send
    <2>2. x.pc = to /\ x.size = ws.size /\ x.from = ws.from /\ x.sent = sent /\ x.out = rest
        BY <1>1 DEF WsType
    <2> HIDE DEF x
    <2>3. CASE ws.pc = "send"
        <3>1. Sleeping(file, written, Joined(ws.sent, ws.out), ws.from, ws.size, since[Stream])
            BY <1>1, <2>3 DEF StreamOf
        <3>2. Joined(sent, rest) = Joined(ws.sent, ws.out)
            BY <1>3, <2>1, <2>3, SentOne
        <3>3. Len(ws.out) = 1 => rest = <<>>
            <4>1. rest \in Seq(Item) /\ Len(rest) = Len(ws.out) - 1
                BY <1>3, <2>1, HeadTailProperties
            <4> HIDE DEF rest
            <4>2. Len(ws.out) = 1 => Len(rest) = 0
                BY <4>1
            <4> QED
                BY <4>1, <4>2, EmptySeq
        <3> HIDE DEF rest, sent
        <3>4. x.pc \in {"sleep", "read", "send"} /\ x.pc # "read" /\ (x.pc # "send" => x.out = <<>>)
            BY <2>2, <2>3, <3>3
        <3>5. StreamOf(file, written, x, since[Stream])
            BY <2>2, <3>1, <3>2, <3>4 DEF StreamOf
        <3> QED
            BY <2>1, <3>5 DEF StreamInv
    <2>4. CASE ws.pc # "send"
        <3>1. ws.pc \notin {"sleep", "read", "send"}
            BY <1>1, <2>1, <2>4 DEF StreamOf
        <3>2. ws.sent = <<>> /\ x.pc = ws.pc /\ x.sent = ws.sent
            BY <1>1, <2>2, <2>4, <3>1 DEF StreamOf
        <3> QED
            BY <2>1, <3>1, <3>2 DEF StreamInv, StreamOf
    <2> QED
        BY <2>3, <2>4
<1> QED
    BY <1>6, <1>7, <1>8, <1>9

LEMMA StreamInvStep ==
    ASSUME TypeOK, FollowInv, Next
    PROVE  StreamInv'
<1>1. /\ StreamOf(file, written, ws, since[Stream])
      /\ ws \in WsType /\ since \in [{Stream} \union Thread -> 0..Burst]
    BY LogsTypes DEF FollowInv, StreamInv
<1>2. ASSUME ws'.pc \notin {"sleep", "read", "send"}, ws'.sent = <<>>
      PROVE  StreamInv'
    BY <1>2 DEF StreamInv, StreamOf
<1>3. CASE Emit
    BY <1>3, StreamWritten
<1>4. CASE TakeSize \/ PollStat \/ PollRead \/ Send
    BY <1>4, StreamMoves
<1>5. ASSUME UNCHANGED <<file, written, ws>>, since'[Stream] = since[Stream]
      PROVE  StreamInv'
    BY <1>1, <1>5 DEF StreamInv
<1>6. CASE Accept
    <2>1. ws'.pc \in {"backlog", "first"} /\ ws'.sent = <<>>
        BY <1>6 DEF Accept, Closed
    <2> QED
        BY <1>2, <2>1
<1>7. CASE BacklogRead
    <2> DEFINE t == ReadItems("ws")
    <2>1. ws.pc = "backlog" /\ ws' = [ws EXCEPT !.pc = "first", !.out = t]
        BY <1>7 DEF BacklogRead
    <2> HIDE DEF t
    <2>2. ws'.pc = "first" /\ ws'.sent = ws.sent
        BY <1>1, <2>1 DEF WsType
    <2>3. ws.sent = <<>>
        BY <1>1, <2>1 DEF StreamOf
    <2> QED
        BY <1>2, <2>2, <2>3
<1>8. CASE Drop \/ \E mode \in {"live", "static"} : Select(mode)
    <2>1. ws' = Closed
        BY <1>8 DEF Drop, Select
    <2> QED
        BY <1>2, <2>1 DEF Closed
<1>9. \A t \in Thread : Stream # t
    BY Lengths DEF Stream, Thread
<1>10. ASSUME NEW t \in Thread, StartTails(t) \/ TailStat(t)
       PROVE  StreamInv'
    <2>1. UNCHANGED <<file, written, ws>> /\ since' = [since EXCEPT ![t] = 0]
        BY <1>10 DEF StartTails, TailStat
    <2>2. since'[Stream] = since[Stream]
        BY <1>1, <1>9, <2>1
    <2> QED
        BY <1>5, <2>1, <2>2
<1> QED
    BY <1>3, <1>4, <1>5, <1>6, <1>7, <1>8, <1>10
    DEF Next, ReadChunk, Reconnect, Flush, LogsAnswer, TailRead, StopTails, Drain

LEMMA TailWritten ==
    ASSUME TypeOK, FollowInv, Emit, NEW t \in Thread
    PROVE  LogTailInv(t)'
<1> DEFINE tail == tails[t]
           X == Pane(tails[t].pane, queue, t)
           lag == since[t]
           g == file'
<1>1. /\ InWriting(file, written) /\ TailOf(file, written, tail, X, lag)
      /\ tail \in TailType /\ since[t] \in 0..Burst /\ queue \in Seq(Text)
    BY LogsTypes DEF FollowInv, LogTailInv
<1>2. /\ written' = written + 1 /\ written + 1 \in LogLine /\ Written(file, file', written + 1)
      /\ t \in Following => since[t] < Burst /\ since'[t] = since[t] + 1
      /\ tails' = tails /\ queue' = queue
    BY <1>1, EmitWrites
<1>3. Written(file, g, written + 1) /\ lag \in Nat /\ tail.pos \in Nat /\ tail.last \in Nat
      /\ tail.pane \in Seq(Item)
    <2>1. tail.pos \in Nat /\ tail.last \in Nat /\ tail.pane \in Seq(Item)
        BY <1>1 DEF TailType
    <2>2. lag \in Nat
        BY <1>1, Lengths
    <2> QED
        BY <1>2, <2>1, <2>2
<1>4. X \in Seq(Item)
    BY <1>1, <1>3, PaneIn
<1>5. tail.pc \in {"loop", "read"} => lag < Burst /\ since'[t] = lag + 1
    BY <1>2 DEF Following
<1> HIDE DEF tail, X, lag, g
<1>6. InOrderIn(g, tail.pane) /\ Range(tail.pane) \subseteq 0..(written + 1)
    BY <1>1, <1>2, <1>3, InOrderWritten DEF TailOf
<1>7. InOrderIn(g, X) /\ Range(X) \subseteq 0..(written + 1)
    BY <1>1, <1>2, <1>3, <1>4, InOrderWritten DEF TailOf
<1>8. tail.pc = "none" => tail.pane = <<>> /\ X = <<>>
    BY <1>1 DEF TailOf
<1>9. tail.pc = "loop" => Waiting(g, written + 1, X, tail.pos, tail.last, since'[t])
    <2> SUFFICES ASSUME tail.pc = "loop"
                 PROVE  Waiting(g, written + 1, X, tail.pos, tail.last, lag + 1)
        BY <1>5
    <2>1. Waiting(file, written, X, tail.pos, tail.last, lag) /\ lag < Burst
        BY <1>1, <1>5 DEF TailOf
    <2> QED
        BY <1>1, <1>2, <1>3, <2>1, WaitingWritten
<1>10. tail.pc = "read" => Opening(g, written + 1, X, tail.pos, tail.last, since'[t])
    <2> SUFFICES ASSUME tail.pc = "read"
                 PROVE  Opening(g, written + 1, X, tail.pos, tail.last, lag + 1)
        BY <1>5
    <2>1. Opening(file, written, X, tail.pos, tail.last, lag) /\ lag < Burst
        BY <1>1, <1>5 DEF TailOf
    <2> QED
        BY <1>1, <1>2, <1>3, <2>1, OpeningWritten
<1>11. TailOf(g, written + 1, tail, X, since'[t])
    BY <1>6, <1>7, <1>8, <1>9, <1>10 DEF TailOf
<1> QED
    BY <1>2, <1>11 DEF LogTailInv, tail, X, g

\* What does not read or write the file leaves a thread as it is, stopped or not.
LEMMA TailStays ==
    ASSUME FollowInv, NEW t \in Thread, UNCHANGED <<file, written>>, since'[t] = since[t],
           tails'[t].pane = tails[t].pane, tails'[t].pc = tails[t].pc,
           tails'[t].pos = tails[t].pos, tails'[t].last = tails[t].last,
           Pane(tails[t].pane, queue', t) = Pane(tails[t].pane, queue, t)
    PROVE  LogTailInv(t)'
<1>1. TailOf(file, written, tails[t], Pane(tails[t].pane, queue, t), since[t])
    BY DEF FollowInv, LogTailInv
<1> QED
    BY <1>1 DEF LogTailInv, TailOf

\* The steps of a thread.
LEMMA TailStats ==
    ASSUME TypeOK, FollowInv, NEW t \in Thread, TailStat(t)
    PROVE  LogTailInv(t)'
<1> DEFINE r == tails[t]
           X == Pane(tails[t].pane, queue, t)
           now == Offset(file, Len(file))
           start == IF now < r.last THEN 0 ELSE r.pos
           new == IF r.stop THEN [r EXCEPT !.pc = "ended"]
                  ELSE [r EXCEPT !.pc = "read", !.last = now, !.pos = start]
<1>1. /\ InWriting(file, written) /\ TailOf(file, written, r, X, since[t])
      /\ r \in TailType /\ since[t] \in 0..Burst /\ tails \in [Thread -> TailType]
      /\ since \in [{Stream} \union Thread -> 0..Burst]
    BY LogsTypes DEF FollowInv, LogTailInv
<1>2. now = Size(file) /\ file \in Seq(LogLine)
    BY FileTypes, SizeIs
<1>3. /\ tails' = [tails EXCEPT ![t] = new] /\ since' = [since EXCEPT ![t] = 0] /\ r.pc = "loop"
      /\ UNCHANGED <<file, written, queue>>
    BY <1>2 DEF TailStat
<1>4. since'[t] = 0
    BY <1>1, <1>3
<1> HIDE DEF r, now, start
<1>5. CASE r.stop
    <2>1. new = [r EXCEPT !.pc = "ended"]
        BY <1>5
    <2>2. new.pc = "ended" /\ new.pane = r.pane
        BY <1>1, <2>1 DEF TailType
    <2> HIDE DEF new
    <2>3. tails'[t] = new
        BY <1>1, <1>3
    <2>4. TailOf(file, written, new, X, 0)
        BY <1>1, <2>2 DEF TailOf
    <2> QED
        BY <1>3, <1>4, <2>2, <2>3, <2>4 DEF LogTailInv, r
<1>6. CASE ~ r.stop
    <2>1. new = [r EXCEPT !.pc = "read", !.last = now, !.pos = start]
        BY <1>6
    <2>2. new.pc = "read" /\ new.pane = r.pane /\ new.pos = start /\ new.last = now
        BY <1>1, <2>1 DEF TailType
    <2> HIDE DEF new
    <2>3. tails'[t] = new
        BY <1>1, <1>3
    <2>4. Waiting(file, written, X, r.pos, r.last, since[t]) /\ r.pos \in Nat /\ r.last \in Nat
        BY <1>1, <1>3 DEF TailOf, TailType
    <2> HIDE DEF X
    <2>5. start = (IF now < r.last THEN 0 ELSE r.pos) /\ now = Offset(file, Len(file))
        BY DEF start, now
    <2>6. Opening(file, written, X, start, now, 0)
        BY <1>1, <2>4, <2>5, WaitingStat
    <2>7. TailOf(file, written, new, X, 0)
        BY <1>1, <2>2, <2>6 DEF TailOf
    <2> QED
        BY <1>3, <1>4, <2>2, <2>3, <2>7 DEF LogTailInv, X, r
<1> QED
    BY <1>5, <1>6

LEMMA TailReads ==
    ASSUME TypeOK, FollowInv, NEW t \in Thread, TailRead(t)
    PROVE  LogTailInv(t)'
<1> DEFINE r == tails[t]
           X == Pane(tails[t].pane, queue, t)
           upto == Offset(file, Len(file))
           text == Items(r.pos, upto)
           e == [by |-> t, text |-> text]
           next == IF r.pos < upto THEN upto ELSE r.pos
           Y == IF r.pos < upto THEN Joined(X, text) ELSE X
<1>1. /\ InWriting(file, written) /\ TailOf(file, written, r, X, since[t])
      /\ r \in TailType /\ since[t] \in 0..Burst /\ tails \in [Thread -> TailType]
      /\ queue \in Seq(Text)
    BY LogsTypes DEF FollowInv, LogTailInv
<1>2. upto = Size(file) /\ file \in Seq(LogLine) /\ text \in Seq(Item) /\ r.pane \in Seq(Item)
      /\ r.pos \in Nat /\ r.last \in Nat
    BY <1>1, FileTypes, SizeIs DEF TailType
<1>3. /\ r.pc = "read" /\ UNCHANGED <<file, written, since>>
      /\ tails' = [tails EXCEPT ![t].pc = "loop", ![t].pos = IF @ < upto THEN upto ELSE @]
      /\ queue' = IF r.pos < upto THEN Append(queue, e) ELSE queue
    BY <1>2 DEF TailRead, Appended
<1>4. tails'[t].pc = "loop" /\ tails'[t].pane = r.pane /\ tails'[t].last = r.last /\ tails'[t].pos = next
    <2> HIDE DEF upto
    <2> QED
        BY <1>1, <1>3 DEF TailType
<1>5. Pane(r.pane, queue', t) = Y
    <2>1. e \in Text /\ e.by = t /\ e.text = text
        BY <1>2 DEF Text
    <2> HIDE DEF e, text, r
    <2>2. Pane(r.pane, Append(queue, e), t) = Joined(Pane(r.pane, queue, t), text)
        BY <1>1, <1>2, <2>1, PaneAppend
    <2>3. X = Pane(r.pane, queue, t)
        BY DEF r
    <2> QED
        BY <1>3, <2>2, <2>3
<1>6. Waiting(file, written, Y, next, r.last, since[t])
    <2>1. Opening(file, written, X, r.pos, r.last, since[t])
        BY <1>1, <1>3 DEF TailOf
    <2> HIDE DEF X, r
    <2>2. Y = (IF r.pos < upto THEN Joined(X, Items(r.pos, upto)) ELSE X)
          /\ next = (IF r.pos < upto THEN upto ELSE r.pos) /\ upto = Offset(file, Len(file))
        OBVIOUS
    <2> HIDE DEF Y, next, upto
    <2> QED
        BY <1>1, <1>2, <2>1, <2>2, OpeningRead
<1> HIDE DEF Y, next
<1>7. InOrderIn(file, Y) /\ Range(Y) \subseteq 0..written
    BY <1>1, <1>6, TailInOrder
<1>8. TailOf(file, written, tails'[t], Y, since[t])
    BY <1>1, <1>4, <1>6, <1>7 DEF TailOf
<1>9. Pane(tails'[t].pane, queue', t) = Y
    BY <1>4, <1>5
<1> QED
    BY <1>3, <1>8, <1>9 DEF LogTailInv

LEMMA TailInvStep ==
    ASSUME TypeOK, FollowInv, Next, NEW t \in Thread
    PROVE  LogTailInv(t)'
<1>1. /\ TailOf(file, written, tails[t], Pane(tails[t].pane, queue, t), since[t])
      /\ tails \in [Thread -> TailType] /\ tails[t] \in TailType /\ tails[t].pane \in Seq(Item)
      /\ since \in [{Stream} \union Thread -> 0..Burst] /\ queue \in Seq(Text)
    BY LogsTypes DEF FollowInv, LogTailInv, TailType
<1>2. Stream # t
    BY Lengths DEF Stream, Thread
<1>3. CASE Emit
    BY <1>3, TailWritten
<1>4. ASSUME UNCHANGED <<file, written, tails, queue>>, since'[t] = since[t]
      PROVE  LogTailInv(t)'
    BY <1>4, TailStays
<1>5. CASE TakeSize \/ PollStat
    <2>1. UNCHANGED <<file, written, tails, queue>> /\ since' = [since EXCEPT ![Stream] = 0]
        BY <1>5 DEF TakeSize, PollStat, panes
    <2>2. since'[t] = since[t]
        BY <1>1, <1>2, <2>1
    <2> QED
        BY <1>4, <2>1, <2>2
<1>6. ASSUME UNCHANGED <<file, written, tails, queue, since>>
      PROVE  LogTailInv(t)'
    BY <1>4, <1>6
<1>7. ASSUME NEW u \in Thread, StartTails(u)
      PROVE  LogTailInv(t)'
    <2>1. /\ UNCHANGED <<file, written, queue>> /\ since' = [since EXCEPT ![u] = 0]
          /\ tails[u].pc = "none" /\ tails' = [StopAll EXCEPT ![u] = NewTail]
        BY <1>7 DEF StartTails
    <2>2. StopAll \in [Thread -> TailType]
        BY StopAllIn
    <2>3. CASE u = t
        <3>1. tails'[t] = NewTail /\ since'[t] = 0
            BY <1>1, <2>1, <2>2, <2>3
        <3>2. tails[t].pane = <<>> /\ Pane(tails[t].pane, queue, t) = <<>>
            BY <1>1, <2>1, <2>3 DEF TailOf
        <3>3. /\ NewTail.pc = "loop" /\ NewTail.pos = 0 /\ NewTail.last = 0 /\ NewTail.pane = <<>>
            BY DEF NewTail
        <3>4. Waiting(file, written, <<>>, 0, 0, 0)
            BY DEF Waiting
        <3>5. TailOf(file, written, NewTail, <<>>, 0)
            BY <1>1, <3>2, <3>3, <3>4 DEF TailOf
        <3>6. Pane(NewTail.pane, queue, t) = <<>>
            BY <3>2, <3>3
        <3> QED
            BY <2>1, <3>1, <3>5, <3>6 DEF LogTailInv
    <2>4. CASE u # t
        <3> DEFINE x == [tails[t] EXCEPT !.stop = tails[t].pc # "none"]
        <3>1. tails'[t] = x /\ since'[t] = since[t]
            BY <1>1, <2>1, <2>2, <2>4 DEF StopAll
        <3>2. x.pane = tails[t].pane /\ x.pc = tails[t].pc /\ x.pos = tails[t].pos /\ x.last = tails[t].last
            BY <1>1 DEF TailType
        <3> HIDE DEF x
        <3> QED
            BY <2>1, <3>1, <3>2, TailStays
    <2> QED
        BY <2>3, <2>4
<1>8. CASE StopTails
    <2> DEFINE x == [tails[t] EXCEPT !.stop = tails[t].pc # "none"]
    <2>1. UNCHANGED <<file, written, queue, since>> /\ tails' = StopAll
        BY <1>8 DEF StopTails
    <2>2. tails'[t] = x
        BY <1>1, <2>1 DEF StopAll
    <2>3. x.pane = tails[t].pane /\ x.pc = tails[t].pc /\ x.pos = tails[t].pos /\ x.last = tails[t].last
        BY <1>1 DEF TailType
    <2> HIDE DEF x
    <2> QED
        BY <2>1, <2>2, <2>3, TailStays
<1>9. ASSUME NEW u \in Thread, TailStat(u)
      PROVE  LogTailInv(t)'
    <2>1. CASE u = t
        BY <1>9, <2>1, TailStats
    <2>2. CASE u # t
        <3> DEFINE x == IF tails[u].stop THEN [tails[u] EXCEPT !.pc = "ended"]
                        ELSE [tails[u] EXCEPT !.pc = "read", !.last = Size(file),
                                              !.pos = IF Size(file) < tails[u].last THEN 0 ELSE tails[u].pos]
        <3>1. UNCHANGED <<file, written, queue>> /\ since' = [since EXCEPT ![u] = 0]
              /\ tails' = [tails EXCEPT ![u] = x]
            BY <1>9 DEF TailStat
        <3> HIDE DEF x
        <3>2. tails'[t] = tails[t] /\ since'[t] = since[t]
            BY <1>1, <2>2, <3>1
        <3> QED
            BY <3>1, <3>2, TailStays
    <2> QED
        BY <2>1, <2>2
<1>10. ASSUME NEW u \in Thread, TailRead(u)
       PROVE  LogTailInv(t)'
    <2>1. CASE u = t
        BY <1>10, <2>1, TailReads
    <2>2. CASE u # t
        <3> DEFINE e == [by |-> u, text |-> Items(tails[u].pos, Size(file))]
        <3>1. UNCHANGED <<file, written, since>> /\ (queue' = queue \/ queue' = Append(queue, e))
            BY <1>10 DEF TailRead, Appended
        <3>2. tails'[t] = tails[t]
            BY <1>1, <1>10, <2>2 DEF TailRead
        <3>3. e \in Text /\ e.by # t
            BY <2>2, FileTypes DEF Text
        <3> HIDE DEF e
        <3>4. Pane(tails[t].pane, Append(queue, e), t) = Pane(tails[t].pane, queue, t)
            BY <1>1, <3>3, PaneAppend
        <3>5. Pane(tails[t].pane, queue', t) = Pane(tails[t].pane, queue, t)
            BY <3>1, <3>4
        <3> QED
            BY <3>1, <3>2, <3>5, TailStays
    <2> QED
        BY <2>1, <2>2
<1>11. CASE Drain
    <2> DEFINE X == Shown(t)
               x == [tails[t] EXCEPT !.pane = X]
    <2>1. UNCHANGED <<file, written, since>> /\ queue' = <<>> /\ tails'[t] = x
        BY <1>11 DEF Drain
    <2>2. X = Pane(tails[t].pane, queue, t) /\ X \in Seq(Item)
        BY ShownIs, ShownIn
    <2> HIDE DEF X
    <2>3. x.pane = X /\ x.pc = tails[t].pc /\ x.pos = tails[t].pos /\ x.last = tails[t].last
        BY <1>1 DEF TailType
    <2> HIDE DEF x
    <2>4. Pane(X, queue', t) = X
        <3>1. queue' \in Seq(Text)
            BY <2>1, EmptySeq
        <3> DEFINE q == queue'
        <3>2. q \in Seq(Text) /\ q = <<>>
            BY <2>1, <3>1
        <3> HIDE DEF q
        <3>3. Pane(X, q, t) = X
            BY <2>2, <3>2, PaneEmpty
        <3> QED
            BY <3>3 DEF q
    <2>5. TailOf(file, written, tails[t], X, since[t])
        BY <1>1, <2>2
    <2>6. TailOf(file, written, x, X, since[t])
        BY <2>3, <2>5 DEF TailOf
    <2> QED
        BY <2>1, <2>3, <2>4, <2>6 DEF LogTailInv
<1> QED
    BY <1>3, <1>5, <1>6, <1>7, <1>8, <1>9, <1>10, <1>11
    DEF Next, ReadChunk, Accept, BacklogRead, Send, PollRead, Select, Drop, Reconnect, Flush, LogsAnswer, panes

LEMMA FollowInvInit ==
    Init => FollowInv
<1> SUFFICES ASSUME Init PROVE FollowInv
    OBVIOUS
<1>1. PICK z : z = <<>>
    OBVIOUS
<1>2. z \in Seq(LogLine) /\ z \in Seq(Item) /\ z \in Seq(Text) /\ Len(z) = 0 /\ Range(z) = {} /\ Ascending(z)
    BY <1>1, EmptySeq, AscendingNone
<1>3. InWriting(file, written)
    <2>1. file = z /\ written = 0 /\ MaxLines \in Nat
        BY <1>1, Lengths DEF Init
    <2> QED
        BY <1>2, <2>1 DEF InWriting
<1>4. StreamInv
    <2>1. ws.pc = "closed" /\ ws.sent = <<>>
        BY DEF Init, Closed
    <2> QED
        BY <2>1 DEF StreamInv, StreamOf
<1>5. ASSUME NEW t \in Thread
      PROVE  LogTailInv(t)
    <2>1. tails[t].pc = "none" /\ tails[t].pane = z /\ queue = z
        BY <1>1 DEF Init, NewTail
    <2>2. Pane(z, queue, t) = z
        BY <1>1, <1>2, <2>1, PaneEmpty
    <2>3. InOrderIn(file, z) /\ Range(z) \subseteq 0..written
        <3>1. Replayed(file, written, z, 0)
            BY <1>1, <1>3, RepeatedFirst
        <3> QED
            BY <1>3, <3>1, RepeatedInOrder
    <2> QED
        BY <1>1, <2>1, <2>2, <2>3 DEF LogTailInv, TailOf
<1> QED
    BY <1>3, <1>4, <1>5 DEF FollowInv

LEMMA FollowInvNext ==
    ASSUME TypeOK, FollowInv, [Next]_vars
    PROVE  FollowInv'
<1>1. CASE Next
    <2>1. InWriting(file', written')
        <3>1. CASE Emit
            BY <3>1, EmitWrites DEF FollowInv
        <3>2. CASE UNCHANGED <<file, written>>
            BY <3>2 DEF FollowInv
        <3> QED
            BY <1>1, <3>1, <3>2
            DEF Next, ReadChunk, Accept, BacklogRead, Send, TakeSize, PollStat, PollRead, Select, Drop,
                Reconnect, Flush, LogsAnswer, StartTails, TailStat, TailRead, StopTails, Drain
    <2>2. StreamInv'
        BY <1>1, StreamInvStep
    <2>3. \A t \in Thread : LogTailInv(t)'
        BY <1>1, TailInvStep
    <2> QED
        BY <2>1, <2>2, <2>3, SMTT(30) DEF FollowInv
<1>2. CASE UNCHANGED vars
    BY <1>2 DEF vars, panes, FollowInv, StreamInv, LogTailInv
<1> QED
    BY <1>1, <1>2

\* The followers keep their invariant whatever the writer, the rotation and
\* each other do.
THEOREM FollowInvHolds ==
    Spec => []FollowInv
<1>1. Init => FollowInv
    BY FollowInvInit
<1>2. LogsInv /\ FollowInv /\ [Next]_vars => FollowInv'
    BY FollowInvNext DEF LogsInv
<1> QED
    BY <1>1, <1>2, LogsInvHolds, PTL DEF Spec

\* A live stream sends whole lines, in order, each once, and skips none that is
\* still in the file; a thread of the launcher shows them so too, save that a
\* first part is repeated when the file is rotated under its first read. For
\* every length of the lines, every size at which the file is rotated, every
\* number of threads and every rate of writing that the assumption allows.
THEOREM FollowersKeepOrder ==
    Spec => []FollowersInOrder
<1>1. LogsInv /\ FollowInv => FollowersInOrder
    <2> SUFFICES ASSUME LogsInv, FollowInv
                 PROVE  FollowersInOrder
        OBVIOUS
    <2>1. TypeOK /\ InWriting(file, written) /\ StreamInv /\ \A t \in Thread : LogTailInv(t)
        BY DEF LogsInv, FollowInv
    <2>2. ws.sent \in Seq(Item) /\ ws.out \in Seq(Item)
        BY <2>1, LogsTypes DEF WsType
    <2>3. Ascending(ws.sent) /\ MissingIn(file, ws.sent, ws.from)
        <3>1. CASE ws.pc \in {"sleep", "read", "send"}
            <4>1. \E j : Has(file, written, Joined(ws.sent, ws.out), ws.from, j)
                BY <2>1, <3>1 DEF StreamInv, StreamOf, Sleeping, Polling
            <4> QED
                BY <2>1, <2>2, <4>1, HasNotMissed
        <3>2. CASE ws.pc \notin {"sleep", "read", "send"}
            <4>1. ws.sent = <<>>
                BY <2>1, <3>2 DEF StreamInv, StreamOf
            <4> QED
                BY <4>1, AscendingNone DEF MissingIn
        <3> QED
            BY <3>1, <3>2
    <2>4. ASSUME NEW t \in Thread
          PROVE  InOrder(tails[t].pane)
        <3>1. InOrderIn(file, tails[t].pane)
            BY <2>1, <2>4 DEF LogTailInv, TailOf
        <3> QED
            BY <3>1 DEF InOrderIn, InOrder, MissingIn, MissingAreRotated
    <2> QED
        BY <2>3, <2>4 DEF FollowersInOrder, MissingIn, MissingAreRotated
<1> QED
    BY <1>1, LogsInvHolds, FollowInvHolds, PTL

-----------------------------------------------------------------------------
(***************************************************************************)
(* The reading tools of the MCP bridge.                                    *)
(***************************************************************************)

\* The places of q before the cursor n, and after it.
Behind(q, n) == {q[i] : i \in {j \in 1..Len(q) : j <= n}}
Beyond(q, n) == {q[i] : i \in {j \in 1..Len(q) : n < j}}

\* The table: ordered by timestamp, each row once.
Ids == DOMAIN rows
Order == {p \in Ids \X Ids : Ts(p[1]) <= Ts(p[2]) /\ p[1] # p[2]}

TableInv ==
    /\ Pairwise(table, Order)
    /\ client # "query" => \A r \in DOMAIN rows : rows[r].hit

\* A walk that is under way has missed, of the rows behind its cursor, at most
\* as many as the sweep took from there, and what it has twice or will get again
\* was moved on by a row that was committed behind the cursor.
MissedBehind == (Behind(Found(table), walk.offset) \intersect walk.start) \ Range(walk.got)
Again == Range(walk.got) \intersect Beyond(Found(table), walk.offset)
Repeated == Len(walk.got) - Cardinality(Range(walk.got))

WalkUnderWay ==
    walk.run =>
        /\ Cardinality(MissedBehind) <= walk.pruned
        /\ Repeated + Cardinality(Again) <= walk.shifted
        /\ client = "summary" =>
               /\ Len(walk.got) < MaxEvents
               /\ \A r \in Range(table) : rows[r].born < walk.at => r \in walk.start

WalkOver ==
    ~walk.run =>
        /\ Repeated <= walk.shifted
        /\ client = "query" =>
               Cardinality((walk.start \intersect Range(table)) \ Range(walk.got)) <= walk.pruned

WalkInv ==
    /\ walk.start \subseteq Hits
    /\ Range(walk.got) \subseteq DOMAIN rows
    /\ walk.at <= clock
    /\ WalkUnderWay
    /\ WalkOver

CacheMissed == {r \in Range(table) : rows[r].born < cache.at /\ r \notin cache.got}

CacheInv ==
    /\ cache.at <= clock
    /\ ~cache.cut => Cardinality(CacheMissed) <= cache.pruned

\* The rows before the timestamp a tail is at are given, fetched or late.
TailInv ==
    /\ follow.since <= follow.latest
    /\ client # "tail" => follow.latest = 0
    /\ client = "tail" =>
           \A r \in Range(table) :
               /\ Ts(r) < follow.latest => r \in follow.seen \union Range(follow.items) \union late
               /\ Ts(r) < follow.since => r \in follow.seen \union late

HeaderLines == IF export.format = "csv" THEN <<Header>> ELSE <<>>

ExportInv ==
    /\ export.pc = "header" => export.sent = 0
    /\ export.pc = "rows" =>
           /\ export.sent <= Len(export.snap)
           /\ export.file = HeaderLines \o SubSeq(export.snap, 1, export.sent)
           /\ export.count = Len(HeaderLines) + export.sent
    /\ ExportIsOneMoment

ToolsInv ==
    /\ ToolsTypeOK
    /\ TableInv
    /\ WalkInv
    /\ CacheInv
    /\ TailInv
    /\ ExportInv

-----------------------------------------------------------------------------
(* What is behind a cursor and beyond it, when a queue grows in the middle, *)
(* when it loses its first elements, and when the cursor moves.             *)

\* A queue has no more elements than places, and as many if none is there twice.
LEMMA RangeSize ==
    ASSUME NEW S, NEW q \in Seq(S)
    PROVE  /\ IsFiniteSet(Range(q)) /\ Cardinality(Range(q)) \in Nat
           /\ Cardinality(Range(q)) <= Len(q)
           /\ IsInjective(q) => Cardinality(Range(q)) = Len(q)
<1>1. Len(q) \in Nat /\ DOMAIN q = 1..Len(q) /\ q \in [1..Len(q) -> S]
    BY LenProperties
<1>2. IsFiniteSet(1..Len(q)) /\ Cardinality(1..Len(q)) = Len(q)
    BY <1>1, FS_Interval
<1>3. q \in Surjection(1..Len(q), Range(q))
    BY <1>1 DEF Surjection, Range
<1>4. /\ IsFiniteSet(Range(q))
      /\ Cardinality(Range(q)) <= Cardinality(1..Len(q))
      /\ Cardinality(Range(q)) = Cardinality(1..Len(q)) <=> q \in Injection(1..Len(q), Range(q))
    BY <1>2, <1>3, FS_Surjection
<1>5. IsInjective(q) => q \in Injection(1..Len(q), Range(q))
    BY <1>1, <1>3 DEF Surjection, Injection, IsInjective
<1> QED
    BY <1>2, <1>4, <1>5, FS_CardinalityType

\* Behind and beyond are parts of the queue, and together all of it.
LEMMA Around ==
    ASSUME NEW S, NEW q \in Seq(S), NEW n \in Nat
    PROVE  /\ Behind(q, n) \subseteq Range(q) /\ Beyond(q, n) \subseteq Range(q)
           /\ IsFiniteSet(Behind(q, n)) /\ IsFiniteSet(Beyond(q, n))
           /\ Behind(q, 0) = {}
           /\ Len(q) <= n => Behind(q, n) = Range(q)
<1>1. Len(q) \in Nat /\ DOMAIN q = 1..Len(q)
    BY LenProperties
<1>2. Behind(q, n) \subseteq Range(q) /\ Beyond(q, n) \subseteq Range(q)
    BY <1>1 DEF Behind, Beyond, Range
<1>3. IsFiniteSet(Range(q))
    BY RangeSize
<1>4. Behind(q, 0) = {}
    BY <1>1 DEF Behind
<1>5. Len(q) <= n => Behind(q, n) = Range(q)
    BY <1>1 DEF Behind, Range
<1> QED
    BY <1>2, <1>3, <1>4, <1>5, FS_Subset

\* One element is put between a and b.
LEMMA InsertedBehind ==
    ASSUME NEW S, NEW a \in Seq(S), NEW b \in Seq(S), NEW e \in S, NEW n \in Nat
    PROVE  /\ Behind(Inserted(a, e, b), n) \subseteq Behind(Joined(a, b), n) \union {e}
           /\ Beyond(Inserted(a, e, b), n) \subseteq Beyond(Joined(a, b), n) \union {e, Joined(a, b)[n]}
           /\ n <= Len(a) => Beyond(Inserted(a, e, b), n) \subseteq Beyond(Joined(a, b), n) \union {e}
<1> DEFINE q == a \o b
           p == Append(a, e) \o b
           k == Len(a)
           m == Len(b)
<1>1. k \in Nat /\ m \in Nat /\ Len(q) = k + m /\ Len(p) = k + 1 + m
    BY AppendProperties, ConcatProperties, LenProperties
<1>2. \A i \in 1..(k + m) : q[i] = IF i <= k THEN a[i] ELSE b[i - k]
    BY ConcatProperties
<1>3. \A i \in 1..(k + 1 + m) : p[i] = IF i <= k THEN a[i] ELSE IF i = k + 1 THEN e ELSE b[i - (k + 1)]
    <2>1. Append(a, e) \in Seq(S) /\ Len(Append(a, e)) = k + 1
        BY AppendProperties
    <2>2. \A i \in 1..(k + 1 + m) : p[i] = IF i <= k + 1 THEN Append(a, e)[i] ELSE b[i - (k + 1)]
        BY <2>1, ConcatProperties
    <2>3. (\A i \in 1..k : Append(a, e)[i] = a[i]) /\ Append(a, e)[k + 1] = e
        BY AppendProperties
    <2> QED
        BY <1>1, <2>2, <2>3
<1> HIDE DEF p, q, k, m
<1>4. \A i \in 1..k : i \in 1..Len(q) /\ p[i] = q[i]
    BY <1>1, <1>2, <1>3
<1>5. p[k + 1] = e
    BY <1>1, <1>3
<1>6. \A i \in (k + 2)..(k + 1 + m) : i - 1 \in 1..Len(q) /\ p[i] = q[i - 1]
    <2> SUFFICES ASSUME NEW i \in (k + 2)..(k + 1 + m)
                 PROVE  i - 1 \in 1..Len(q) /\ p[i] = q[i - 1]
        OBVIOUS
    <2>1. i \in 1..(k + 1 + m) /\ ~(i <= k) /\ i # k + 1 /\ i - 1 \in 1..(k + m) /\ ~(i - 1 <= k)
          /\ (i - 1) - k = i - (k + 1)
        BY <1>1
    <2> QED
        BY <1>1, <1>2, <1>3, <2>1
<1>7. \A i \in 1..Len(p) : i \in 1..k \/ i = k + 1 \/ i \in (k + 2)..(k + 1 + m)
    BY <1>1
<1>8. ASSUME NEW i \in 1..Len(p), i <= n
      PROVE  p[i] \in Behind(q, n) \union {e}
    <2>1. CASE i \in 1..k
        BY <1>4, <1>8, <2>1 DEF Behind
    <2>2. CASE i = k + 1
        BY <1>5, <2>2
    <2>3. CASE i \in (k + 2)..(k + 1 + m)
        <3>1. i - 1 \in 1..Len(q) /\ i - 1 <= n /\ p[i] = q[i - 1]
            BY <1>1, <1>6, <1>8, <2>3
        <3> QED
            BY <3>1 DEF Behind
    <2> QED
        BY <1>7, <2>1, <2>2, <2>3
<1>9. ASSUME NEW i \in 1..Len(p), n < i
      PROVE  p[i] \in Beyond(q, n) \union {e, q[n]} /\ (n <= k => p[i] \in Beyond(q, n) \union {e})
    <2>1. CASE i \in 1..k
        BY <1>4, <1>9, <2>1 DEF Beyond
    <2>2. CASE i = k + 1
        BY <1>5, <2>2
    <2>3. CASE i \in (k + 2)..(k + 1 + m)
        <3>1. i - 1 \in 1..Len(q) /\ p[i] = q[i - 1] /\ (i - 1 = n \/ n < i - 1) /\ (n <= k => n < i - 1)
            BY <1>1, <1>6, <1>9, <2>3
        <3> QED
            BY <3>1 DEF Beyond
    <2> QED
        BY <1>7, <2>1, <2>2, <2>3
<1>10. Behind(p, n) \subseteq Behind(q, n) \union {e}
    <2>1. \A y \in Behind(p, n) : \E i \in 1..Len(p) : i <= n /\ y = p[i]
        BY DEF Behind
    <2> QED
        BY <1>8, <2>1
<1>11. /\ Beyond(p, n) \subseteq Beyond(q, n) \union {e, q[n]}
       /\ n <= k => Beyond(p, n) \subseteq Beyond(q, n) \union {e}
    <2>1. \A y \in Beyond(p, n) : \E i \in 1..Len(p) : n < i /\ y = p[i]
        BY DEF Beyond
    <2> QED
        BY <1>9, <2>1
<1> QED
    BY <1>10, <1>11 DEF p, q, k, Inserted, Joined

\* The last k of n places.
LEMMA LastPlaces ==
    ASSUME NEW n \in Nat, NEW l \in Nat, NEW k \in Nat, k <= n, k = l \/ k = n
    PROVE  /\ IsFiniteSet((n - k + 1)..n) /\ Cardinality((n - k + 1)..n) = k
           /\ \A i \in Nat \ {0} : i <= n /\ n < i + l => i \in (n - k + 1)..n
<1>1. n - k + 1 \in Int /\ n - (n - k + 1) + 1 = k /\ (n - k + 1 > n => k = 0)
    OBVIOUS
<1>2. IsFiniteSet((n - k + 1)..n) /\ Cardinality((n - k + 1)..n) = IF n - k + 1 > n THEN 0 ELSE n - (n - k + 1) + 1
    BY <1>1, FS_Interval
<1>3. Cardinality((n - k + 1)..n) = k
    BY <1>1, <1>2
<1> QED
    BY <1>2, <1>3

\* The first k elements are taken away: what comes to be behind the cursor is
\* at most as many elements as went from there.
LEMMA Removed ==
    ASSUME NEW S, NEW a \in Seq(S), NEW p \in Seq(S), NEW n \in Nat, NEW k \in Nat,
           k = IF Len(a) < n THEN Len(a) ELSE n
    PROVE  /\ Beyond(p, n) \subseteq Beyond(Joined(a, p), n)
           /\ \E X : /\ IsFiniteSet(X) /\ Cardinality(X) <= k
                     /\ Behind(p, n) \subseteq Behind(Joined(a, p), n) \union X
<1> DEFINE q == a \o p
           l == Len(a)
           m == Len(p)
<1>1. l \in Nat /\ m \in Nat /\ Len(q) = l + m
    BY ConcatProperties, LenProperties
<1>2. \A i \in 1..m : i + l \in 1..Len(q) /\ q[i + l] = p[i]
    <2> SUFFICES ASSUME NEW i \in 1..m
                 PROVE  i + l \in 1..Len(q) /\ q[i + l] = p[i]
        OBVIOUS
    <2>1. i + l \in 1..(l + m) /\ ~(i + l <= l) /\ (i + l) - l = i
        BY <1>1
    <2>2. q[i + l] = IF i + l <= l THEN a[i + l] ELSE p[(i + l) - l]
        BY <2>1, ConcatProperties
    <2> QED
        BY <1>1, <2>1, <2>2
<1> HIDE DEF q
<1>3. Beyond(p, n) \subseteq Beyond(q, n)
    <2>1. \A i \in 1..m : n < i => n < i + l
        BY <1>1
    <2> QED
        BY <1>2, <2>1 DEF Beyond
<1> DEFINE I == {i \in 1..m : i <= n /\ n < i + l}
           f == [i \in I |-> p[i]]
           X == {p[i] : i \in I}
<1>4. IsFiniteSet(I) /\ Cardinality(I) <= k
    <2> DEFINE J == (n - k + 1)..n
    <2>1. k <= n /\ (k = l \/ k = n)
        BY <1>1
    <2>2. /\ IsFiniteSet(J) /\ Cardinality(J) = k
          /\ \A i \in Nat \ {0} : i <= n /\ n < i + l => i \in J
        BY <1>1, <2>1, LastPlaces
    <2> HIDE DEF J
    <2>3. I \subseteq J
        BY <1>1, <2>2
    <2> HIDE DEF I
    <2> QED
        BY <2>2, <2>3, FS_Subset
<1>5. f \in Surjection(I, X)
    BY DEF Surjection
<1>6. IsFiniteSet(X) /\ Cardinality(X) <= k
    <2>1. IsFiniteSet(X) /\ Cardinality(X) <= Cardinality(I)
        <3> HIDE DEF f, X, I
        <3> QED
            BY <1>4, <1>5, FS_Surjection
    <2>2. Cardinality(X) \in Nat /\ Cardinality(I) \in Nat
        BY <1>4, <2>1, FS_CardinalityType
    <2> HIDE DEF X, I
    <2> QED
        BY <1>4, <2>1, <2>2
<1>7. Behind(p, n) \subseteq Behind(q, n) \union X
    <2> SUFFICES ASSUME NEW i \in 1..m, i <= n
                 PROVE  p[i] \in Behind(q, n) \union X
        BY DEF Behind
    <2>1. CASE n < i + l
        BY <2>1
    <2>2. CASE ~(n < i + l)
        <3>1. i + l <= n
            BY <1>1, <2>2
        <3> QED
            BY <1>2, <3>1 DEF Behind
    <2> QED
        BY <2>1, <2>2
<1> HIDE DEF X
<1> QED
    BY <1>3, <1>6, <1>7 DEF q, Joined

\* One page: what is read from the cursor on, and where the cursor is then.
PageEnd(q, n, l) == IF n + l < Len(q) THEN n + l ELSE Len(q)
PageOf(q, n, l) == SubSeq(q, n + 1, PageEnd(q, n, l))

\* Where the cursor may be after a page: the page's limit on, or its length on.
CursorAfter(page, n, l, k) == k \in Nat /\ (k = n + l \/ k = n + Len(page))

\* What a page is, and what the cursor then has behind it and beyond it.
Turns(S, q, page, n, l, k) ==
    /\ page \in Seq(S) /\ Len(page) <= l
    /\ Range(page) \subseteq Beyond(q, n)
    /\ Cardinality(Range(page)) = Len(page)
    /\ Behind(q, k) = Behind(q, n) \union Range(page)
    /\ Beyond(q, k) = Beyond(q, n) \ Range(page)
    /\ Len(page) < l => Behind(q, k) = Range(q)

LEMMA Turned ==
    ASSUME NEW S, NEW q \in Seq(S), IsInjective(q), NEW n \in Nat, NEW l \in Nat,
           NEW page, page = PageOf(q, n, l), NEW k, CursorAfter(page, n, l, k)
    PROVE  Turns(S, q, page, n, l, k)
<1> DEFINE m == PageEnd(q, n, l)
<1>0. DOMAIN q = 1..Len(q) /\ \A i \in 1..Len(q) : q[i] \in S
    BY LenProperties, ElementOfSeq
<1>1. Len(q) \in Nat
    BY LenProperties
<1>2. m \in Nat /\ m <= Len(q) /\ m <= n + l /\ (m = n + l \/ m = Len(q))
    BY <1>1 DEF PageEnd
<1>3. /\ page \in Seq(S)
      /\ Len(page) = IF n + 1 <= m THEN m - (n + 1) + 1 ELSE 0
      /\ \A i \in 1..(m - (n + 1) + 1) : page[i] = q[(n + 1) + i - 1]
    <2>1. \A i \in (n + 1)..m : q[i] \in S
        BY <1>0, <1>1, <1>2
    <2> HIDE DEF m
    <2>2. page = SubSeq(q, n + 1, m)
        BY DEF PageOf, m
    <2> QED
        BY <1>2, <2>1, <2>2, SubSeqProperties
<1> HIDE DEF m
<1>4. DOMAIN page = 1..Len(page)
    BY <1>3, LenProperties
<1>5. k \in Nat /\ (k = n + l \/ k = n + Len(page))
    BY DEF CursorAfter
<1>6. Len(page) = (IF n <= m THEN m - n ELSE 0) /\ Len(page) \in Nat /\ Len(page) <= l
    BY <1>2, <1>3
<1>7. \A i \in 1..Len(page) : n + i \in 1..Len(q) /\ n < n + i /\ n + i <= m /\ page[i] = q[n + i]
    <2> SUFFICES ASSUME NEW i \in 1..Len(page)
                 PROVE  n + i \in 1..Len(q) /\ n < n + i /\ n + i <= m /\ page[i] = q[n + i]
        OBVIOUS
    <2>1. i \in 1..(m - (n + 1) + 1) /\ (n + 1) + i - 1 = n + i
        BY <1>2, <1>6
    <2>2. n + i \in 1..Len(q) /\ n < n + i /\ n + i <= m
        BY <1>1, <1>2, <1>6
    <2> QED
        BY <1>3, <2>1, <2>2
<1>8. \A j \in 1..Len(q) : n < j /\ j <= m => \E i \in 1..Len(page) : j = n + i
    <2> SUFFICES ASSUME NEW j \in 1..Len(q), n < j, j <= m
                 PROVE  \E i \in 1..Len(page) : j = n + i
        OBVIOUS
    <2>1. j - n \in 1..Len(page) /\ j = n + (j - n)
        BY <1>1, <1>2, <1>6
    <2> QED
        BY <2>1
<1>9. Range(page) = {q[j] : j \in {i \in 1..Len(q) : n < i /\ i <= m}}
    <2>1. \A i \in DOMAIN page : page[i] \in {q[j] : j \in {h \in 1..Len(q) : n < h /\ h <= m}}
        BY <1>4, <1>7
    <2>2. \A j \in 1..Len(q) : n < j /\ j <= m => \E i \in DOMAIN page : q[j] = page[i]
        <3>1. \A j \in 1..Len(q) : n < j /\ j <= m => \E i \in 1..Len(page) : q[j] = page[i]
            BY <1>7, <1>8
        <3> QED
            BY <1>4, <3>1
    <2> QED
        BY <2>1, <2>2 DEF Range
<1>10. \A j \in 1..Len(q) : j <= k <=> j <= n \/ (n < j /\ j <= m)
    BY <1>1, <1>2, <1>5, <1>6
<1>11. Range(page) \subseteq Beyond(q, n)
    BY <1>9 DEF Beyond
<1>12. Behind(q, k) = Behind(q, n) \union Range(page)
    BY <1>9, <1>10 DEF Behind
<1>13. Beyond(q, k) = Beyond(q, n) \ Range(page)
    <2>1. \A i, j \in 1..Len(q) : q[i] = q[j] => i = j
        BY <1>0 DEF IsInjective
    <2>2. \A j \in 1..Len(q) : k < j <=> n < j /\ ~(n < j /\ j <= m)
        BY <1>1, <1>2, <1>5, <1>6
    <2> QED
        BY <1>9, <2>1, <2>2 DEF Beyond
<1>14. IsInjective(page)
    <2> SUFFICES ASSUME NEW i \in 1..Len(page), NEW j \in 1..Len(page), page[i] = page[j]
                 PROVE  i = j
        BY <1>4 DEF IsInjective
    <2>1. n + i \in DOMAIN q /\ n + j \in DOMAIN q /\ q[n + i] = q[n + j]
        BY <1>0, <1>7
    <2>2. n + i = n + j
        BY <2>1 DEF IsInjective
    <2> QED
        BY <2>2
<1>15. Cardinality(Range(page)) = Len(page)
    BY <1>3, <1>14, RangeSize
<1>16. Len(page) < l => Behind(q, k) = Range(q)
    <2> SUFFICES ASSUME Len(page) < l
                 PROVE  Behind(q, k) = Range(q)
        OBVIOUS
    <2>1. \A j \in 1..Len(q) : j <= k
        BY <1>1, <1>2, <1>5, <1>6
    <2> QED
        BY <1>0, <2>1 DEF Behind, Range
<1> QED
    BY <1>3, <1>6, <1>11, <1>12, <1>13, <1>15, <1>16 DEF Turns

\* What was got twice, with what was got and is still to come: a page moves rows
\* from the one to the other and adds none.
Twice(got, B) == Len(got) - Cardinality(Range(got)) + Cardinality(Range(got) \intersect B)

LEMMA GotMore ==
    ASSUME NEW S, NEW got \in Seq(S), NEW page \in Seq(S), NEW B, NEW C, IsFiniteSet(B),
           Range(page) \subseteq B, C = B \ Range(page),
           Cardinality(Range(page)) = Len(page)
    PROVE  Twice(Joined(got, page), C) = Twice(got, B)
<1> DEFINE G == Range(got)
           P == Range(page)
<1>1. Len(got) \in Nat /\ Len(page) \in Nat /\ Len(Joined(got, page)) = Len(got) + Len(page)
    BY JoinedIn, LenProperties
<1>2. Range(Joined(got, page)) = G \union P
    BY RangeJoined
<1>3. IsFiniteSet(G) /\ IsFiniteSet(P) /\ Cardinality(P) = Len(page)
    BY RangeSize
<1> HIDE DEF G, P
<1>4. (G \union P) \intersect C = G \intersect C
    BY DEF P
<1>5. /\ Cardinality(G \union P) = Cardinality(G) + Cardinality(P) - Cardinality(G \intersect P)
      /\ IsFiniteSet(G \intersect P) /\ IsFiniteSet(G \intersect C)
    BY <1>3, FS_Union, FS_Intersection
<1>6. /\ G \intersect B = (G \intersect P) \union (G \intersect C)
      /\ (G \intersect P) \intersect (G \intersect C) = {}
    BY DEF P
<1>7. Cardinality(G \intersect B) = Cardinality(G \intersect P) + Cardinality(G \intersect C) - Cardinality({})
    BY <1>5, <1>6, FS_Union
<1>8. Cardinality({}) = 0
    BY FS_EmptySet
<1>9. /\ Cardinality(G) \in Nat /\ Cardinality(P) \in Nat
      /\ Cardinality(G \intersect P) \in Nat /\ Cardinality(G \intersect C) \in Nat
    BY <1>3, <1>5, FS_CardinalityType
<1>10. Cardinality(Range(Joined(got, page)) \intersect C) = Cardinality(G \intersect C)
    BY <1>2, <1>4
<1>11. Cardinality(Range(Joined(got, page))) = Cardinality(G) + Len(page) - Cardinality(G \intersect P)
    BY <1>2, <1>3, <1>5
<1>12. Cardinality(G \intersect B) = Cardinality(G \intersect P) + Cardinality(G \intersect C)
    BY <1>7, <1>8, <1>9
<1> DEFINE cg == Cardinality(G)
           cp == Cardinality(G \intersect P)
           cc == Cardinality(G \intersect C)
           r == Range(Joined(got, page))
           n == Len(Joined(got, page))
<1>13. /\ cg \in Nat /\ cp \in Nat /\ cc \in Nat /\ n = Len(got) + Len(page)
       /\ Cardinality(r \intersect C) = cc /\ Cardinality(r) = cg + Len(page) - cp
       /\ Cardinality(G \intersect B) = cp + cc
    BY <1>1, <1>9, <1>10, <1>11, <1>12
<1> HIDE DEF cg, cp, cc, r, n
<1>14. n - Cardinality(r) + Cardinality(r \intersect C) = Len(got) - cg + Cardinality(G \intersect B)
    BY <1>1, <1>13
<1> QED
    BY <1>14 DEF n, r, cg, G, Twice

-----------------------------------------------------------------------------
(* The table: what its rows are, and what a commit and a sweep do to it.   *)

\* The rows of the table are ids that were given out.
LEMMA Types ==
    ASSUME ToolsTypeOK
    PROVE  /\ Len(rows) \in Nat /\ Len(rows) <= MaxRows
           /\ \A r : r \in DOMAIN rows <=> r \in 1..Len(rows)
           /\ DOMAIN rows \subseteq Row
           /\ table \in Seq(DOMAIN rows) /\ Range(table) \subseteq DOMAIN rows
           /\ \A r \in DOMAIN rows : /\ rows[r] \in [ts : Time, born : Time, hit : BOOLEAN]
                                     /\ Ts(r) \in Time
           /\ MaxRows \in Nat /\ MaxClock \in Nat
<1>1. Len(rows) \in Nat /\ Len(rows) <= MaxRows /\ MaxRows \in Nat /\ MaxClock \in Nat
    BY McpToolsAssumption DEF ToolsTypeOK
<1>2. rows \in Seq([ts : Time, born : Time, hit : BOOLEAN])
    BY DEF ToolsTypeOK
<1>3. DOMAIN rows = 1..Len(rows)
    BY <1>2, LenProperties
<1>4. \A r \in 1..Len(rows) : rows[r] \in [ts : Time, born : Time, hit : BOOLEAN]
    BY <1>2, ElementOfSeq
<1>5. 1..Len(rows) \subseteq Row
    BY <1>1 DEF Row
<1>6. table \in Seq(DOMAIN rows)
    BY <1>3 DEF ToolsTypeOK
<1>7. Range(table) \subseteq DOMAIN rows
    BY <1>6, RangeOfSeq
<1> QED
    BY <1>1, <1>3, <1>4, <1>5, <1>6, <1>7 DEF Ts

\* What a query finds in a part of the table.
LEMMA FoundIn ==
    ASSUME ToolsTypeOK, NEW q \in Seq(DOMAIN rows)
    PROVE  /\ Found(q) \in Seq(DOMAIN rows)
           /\ Range(Found(q)) = Range(q) \intersect Hits
           /\ Pairwise(q, Order) => IsInjective(Found(q)) /\ IsInjective(q)
<1>1. Pairwise(q, Order) => IsInjective(q)
    <2>1. DOMAIN q = 1..Len(q)
        BY LenProperties
    <2>2. ASSUME Pairwise(q, Order), NEW i \in 1..Len(q), NEW j \in 1..Len(q), i < j
          PROVE  q[i] # q[j]
        <3>1. <<q[i], q[j]>> \in Order
            BY <2>2 DEF Pairwise
        <3> QED
            BY <3>1 DEF Order
    <2>3. \A i, j \in 1..Len(q) : i # j => i < j \/ j < i
        BY LenProperties
    <2> QED
        BY <2>1, <2>2, <2>3 DEF IsInjective
<1> QED
    BY <1>1, FilterRange DEF Found

\* The two parts of the table that a commit puts its row between, and its id.
Upto(ts) == Filter(table, Before(ts + 1))
After(ts) == Filter(table, Since(ts + 1))
NewId == Len(rows) + 1

\* A commit puts its row between the rows up to its timestamp and those after.
Committed(ts, hit, a, b, id) ==
    /\ a \in Seq(DOMAIN rows) /\ b \in Seq(DOMAIN rows)
    /\ table = Joined(a, b) /\ table' = Inserted(a, id, b)
    /\ id \notin DOMAIN rows /\ DOMAIN rows' = DOMAIN rows \union {id}
    /\ \A r \in DOMAIN rows : rows'[r] = rows[r]
    /\ rows'[id] = [ts |-> ts, born |-> clock, hit |-> hit]
    /\ \A r \in Range(a) : Ts(r) <= ts
    /\ \A r \in Range(b) : ts <= Ts(r)

LEMMA CommitTable ==
    ASSUME ToolsTypeOK, TableInv, NEW ts \in Time, NEW hit \in BOOLEAN, CommitRow(ts, hit)
    PROVE  Committed(ts, hit, Upto(ts), After(ts), NewId)
<1> DEFINE a == Upto(ts)
           b == After(ts)
           id == NewId
<1> USE Types DEF Upto, After, NewId
<1>1. ts \in Nat /\ ts + 1 \in Nat /\ \A r \in DOMAIN rows : Ts(r) \in Nat
    BY DEF Time
<1>2. a \in Seq(DOMAIN rows) /\ b \in Seq(DOMAIN rows)
    BY FilterRange
<1>3. Range(a) = Range(table) \intersect Before(ts + 1) /\ Range(b) = Range(table) \intersect Since(ts + 1)
    BY FilterRange
<1>4. table = Joined(a, b)
    <2>1. \A x \in Range(table) : x \in Before(ts + 1) <=> x \notin Since(ts + 1)
        BY <1>1 DEF Before, Since
    <2>2. ASSUME NEW i \in 1..Len(table), NEW j \in 1..Len(table), i < j, table[i] \in Since(ts + 1)
          PROVE  table[j] \in Since(ts + 1)
        <3>1. <<table[i], table[j]>> \in Order
            BY <2>2 DEF TableInv, Pairwise
        <3>2. table[j] \in DOMAIN rows /\ table[i] \in DOMAIN rows /\ Ts(table[i]) <= Ts(table[j])
            BY <3>1 DEF Order
        <3> DEFINE x == Ts(table[i])
                   y == Ts(table[j])
        <3>3. x \in Nat /\ y \in Nat /\ x <= y /\ ts + 1 <= x
            BY <1>1, <2>2, <3>2 DEF Since
        <3> HIDE DEF x, y
        <3>4. ts + 1 <= y
            BY <1>1, <3>3
        <3> QED
            BY <3>2, <3>4 DEF Since, y
    <2> QED
        BY <2>1, <2>2, FilterSplit
<1>5. table' = Inserted(a, id, b)
    BY DEF CommitRow, Inserted
<1>6. rows' = Append(rows, [ts |-> ts, born |-> clock, hit |-> hit])
    BY DEF CommitRow
<1>7. /\ id \notin DOMAIN rows /\ DOMAIN rows' = DOMAIN rows \union {id}
      /\ \A r \in DOMAIN rows : rows'[r] = rows[r]
      /\ rows'[id] = [ts |-> ts, born |-> clock, hit |-> hit]
    <2> DEFINE new == [ts |-> ts, born |-> clock, hit |-> hit]
               n == Len(rows)
    <2>1. rows \in Seq([ts : Time, born : Time, hit : BOOLEAN]) /\ new \in [ts : Time, born : Time, hit : BOOLEAN]
        BY DEF ToolsTypeOK
    <2>2. rows' = Append(rows, new)
        BY <1>6
    <2> HIDE DEF new, n
    <2>3. DOMAIN rows = 1..n /\ DOMAIN rows' = 1..(n + 1) /\ n \in Nat
        BY <2>1, <2>2, AppendProperties, LenProperties DEF n
    <2>4. (\A r \in 1..n : rows'[r] = rows[r]) /\ rows'[n + 1] = new
        BY <2>1, <2>2, AppendProperties DEF n
    <2>5. n + 1 \notin 1..n /\ 1..(n + 1) = 1..n \union {n + 1}
        BY <2>3
    <2>6. id = n + 1
        BY DEF n
    <2> QED
        BY <2>3, <2>4, <2>5, <2>6 DEF new
<1>8. (\A r \in Range(a) : Ts(r) <= ts) /\ (\A r \in Range(b) : ts <= Ts(r))
    BY <1>1, <1>3 DEF Before, Since
<1> QED
    BY <1>2, <1>4, <1>5, <1>7, <1>8 DEF Committed

\* What is found is then the same, with the new row where it belongs if the
\* filters let it through.
LEMMA CommitFound ==
    ASSUME ToolsTypeOK, TableInv, NEW ts \in Time, NEW hit \in BOOLEAN, CommitRow(ts, hit),
           NEW a, NEW b, NEW id, a = Upto(ts), b = After(ts), id = NewId
    PROVE  /\ Found(a) \in Seq(DOMAIN rows) /\ Found(b) \in Seq(DOMAIN rows)
           /\ Found(table) = Joined(Found(a), Found(b))
           /\ Found(table)' = IF hit THEN Inserted(Found(a), id, Found(b)) ELSE Found(table)
           /\ Hits' = IF hit THEN Hits \union {id} ELSE Hits
<1>1. /\ a \in Seq(DOMAIN rows) /\ b \in Seq(DOMAIN rows)
      /\ table = Joined(a, b) /\ table' = Inserted(a, id, b)
      /\ id \notin DOMAIN rows /\ DOMAIN rows' = DOMAIN rows \union {id}
      /\ \A r \in DOMAIN rows : rows'[r] = rows[r]
      /\ rows'[id] = [ts |-> ts, born |-> clock, hit |-> hit]
    <2>1. Committed(ts, hit, Upto(ts), After(ts), NewId)
        BY CommitTable
    <2> QED
        BY <2>1 DEF Committed
<1>2. Found(a) \in Seq(DOMAIN rows) /\ Found(b) \in Seq(DOMAIN rows)
    BY <1>1, FoundIn
<1>3. Found(table) = Joined(Found(a), Found(b))
    <2> DEFINE S == DOMAIN rows
               K == Hits
    <2>1. a \in Seq(S) /\ b \in Seq(S) /\ table = Joined(a, b)
        BY <1>1
    <2> HIDE DEF S, K
    <2>2. Filter(Joined(a, b), K) = Joined(Filter(a, K), Filter(b, K))
        BY <2>1, FilterJoined
    <2> QED
        BY <2>1, <2>2 DEF Found, K
<1>4. Hits' = IF hit THEN Hits \union {id} ELSE Hits
    BY <1>1 DEF Hits
<1> DEFINE H == Hits
           K == Hits'
           S == DOMAIN rows \union {id}
<1>5. H \subseteq DOMAIN rows /\ K = IF hit THEN H \union {id} ELSE H
    BY <1>4 DEF Hits
<1>6. Found(table)' = Filter(table', K)
    BY DEF Found
<1>7. Found(a) = Filter(a, H) /\ Found(b) = Filter(b, H) /\ Found(table) = Joined(Filter(a, H), Filter(b, H))
    BY <1>3 DEF Found
<1> HIDE DEF H, K, S
<1>8. a \in Seq(S) /\ b \in Seq(S) /\ id \in S
    <2>1. DOMAIN rows \subseteq S /\ id \in S
        BY DEF S
    <2> QED
        BY <1>1, <2>1, SeqMonotonic
<1>9. Filter(a, K) = Filter(a, H) /\ Filter(b, K) = Filter(b, H)
    <2>1. Range(a) \subseteq DOMAIN rows /\ Range(b) \subseteq DOMAIN rows
        BY <1>1, RangeOfSeq
    <2>2. Range(a) \intersect K = Range(a) \intersect H /\ Range(b) \intersect K = Range(b) \intersect H
        BY <1>1, <1>5, <2>1
    <2> QED
        BY <1>8, <2>2, FilterSame
<1>10. Filter(table', K) = IF id \in K THEN Inserted(Filter(a, K), id, Filter(b, K)) ELSE Filter(Joined(a, b), K)
    <2>1. Filter(Inserted(a, id, b), K) = IF id \in K THEN Inserted(Filter(a, K), id, Filter(b, K)) ELSE Filter(Joined(a, b), K)
        BY <1>8, PutFilter
    <2> QED
        BY <1>1, <2>1
<1>11. Filter(Joined(a, b), K) = Joined(Filter(a, K), Filter(b, K))
    BY <1>8, FilterJoined
<1>12. id \in K <=> hit
    BY <1>1, <1>5
<1> QED
    BY <1>2, <1>3, <1>4, <1>6, <1>7, <1>9, <1>10, <1>11, <1>12

\* The sweep takes the first rows away.
LEMMA PruneTable ==
    ASSUME ToolsTypeOK, TableInv, NEW cutoff \in Time, Prune(cutoff),
           NEW a, a = Filter(table, Before(cutoff))
    PROVE  /\ a \in Seq(DOMAIN rows) /\ table' \in Seq(DOMAIN rows)
           /\ table = Joined(a, table') /\ rows' = rows
           /\ Range(table') \subseteq Range(table)
           /\ Found(a) \in Seq(DOMAIN rows) /\ Found(table') \in Seq(DOMAIN rows)
           /\ Found(table) = Joined(Found(a), Found(table'))
           /\ Hits' = Hits /\ Found(table)' = Found(table')
<1> USE Types
<1>1. cutoff \in Nat /\ \A r \in DOMAIN rows : Ts(r) \in Nat
    BY DEF Time
<1>2. table' = Filter(table, Since(cutoff)) /\ rows' = rows
    BY DEF Prune
<1>3. a \in Seq(DOMAIN rows) /\ table' \in Seq(DOMAIN rows) /\ Range(table') \subseteq Range(table)
    BY <1>2, FilterRange
<1>4. table = Joined(a, table')
    <2>1. \A x \in Range(table) : x \in Before(cutoff) <=> x \notin Since(cutoff)
        BY <1>1 DEF Before, Since
    <2>2. ASSUME NEW i \in 1..Len(table), NEW j \in 1..Len(table), i < j, table[i] \in Since(cutoff)
          PROVE  table[j] \in Since(cutoff)
        <3>1. <<table[i], table[j]>> \in Order
            BY <2>2 DEF TableInv, Pairwise
        <3>2. table[j] \in DOMAIN rows /\ table[i] \in DOMAIN rows /\ Ts(table[i]) <= Ts(table[j])
            BY <3>1 DEF Order
        <3> DEFINE x == Ts(table[i])
                   y == Ts(table[j])
        <3>3. x \in Nat /\ y \in Nat /\ x <= y /\ cutoff <= x
            BY <1>1, <2>2, <3>2 DEF Since
        <3> HIDE DEF x, y
        <3>4. cutoff <= y
            BY <1>1, <3>3
        <3> QED
            BY <3>2, <3>4 DEF Since, y
    <2>3. table = Joined(Filter(table, Before(cutoff)), Filter(table, Since(cutoff)))
        BY <2>1, <2>2, FilterSplit
    <2> QED
        BY <1>2, <2>3
<1>5. Hits' = Hits /\ Found(table)' = Found(table')
    BY <1>2 DEF Hits, Found
<1>6. Found(table) = Joined(Found(a), Found(table'))
    <2>1. Filter(Joined(a, table'), Hits) = Joined(Filter(a, Hits), Filter(table', Hits))
        BY <1>3, FilterJoined
    <2> QED
        BY <1>4, <2>1 DEF Found
<1> QED
    BY <1>2, <1>3, <1>4, <1>5, <1>6, FoundIn

-----------------------------------------------------------------------------
(* The table stays ordered.                                                *)

LEMMA CommitTableInv ==
    ASSUME ToolsTypeOK, TableInv, NEW ts \in Time, NEW hit \in BOOLEAN, CommitRow(ts, hit)
    PROVE  TableInv' /\ table' \in Seq(1..Len(rows'))
<1> DEFINE a == Upto(ts)
           b == After(ts)
           id == NewId
<1>1. /\ a \in Seq(DOMAIN rows) /\ b \in Seq(DOMAIN rows)
      /\ table = Joined(a, b) /\ table' = Inserted(a, id, b)
      /\ id \notin DOMAIN rows /\ DOMAIN rows' = DOMAIN rows \union {id}
      /\ \A r \in DOMAIN rows : rows'[r] = rows[r]
      /\ rows'[id] = [ts |-> ts, born |-> clock, hit |-> hit]
      /\ \A r \in Range(a) : Ts(r) <= ts
      /\ \A r \in Range(b) : ts <= Ts(r)
    <2>1. Committed(ts, hit, Upto(ts), After(ts), NewId)
        BY CommitTable
    <2> QED
        BY <2>1 DEF Committed
<1>2. rows' = Append(rows, [ts |-> ts, born |-> clock, hit |-> hit])
    BY DEF CommitRow
<1> HIDE DEF a, b, id
<1> DEFINE S == DOMAIN rows'
<1>3. a \in Seq(S) /\ b \in Seq(S) /\ id \in S
    <2>1. DOMAIN rows \subseteq S
        BY <1>1
    <2> QED
        BY <1>1, <2>1, SeqMonotonic
<1>4. DOMAIN rows' = 1..Len(rows')
    <2>1. rows \in Seq([ts : Time, born : Time, hit : BOOLEAN])
          /\ [ts |-> ts, born |-> clock, hit |-> hit] \in [ts : Time, born : Time, hit : BOOLEAN]
        BY DEF ToolsTypeOK
    <2>2. rows' \in Seq([ts : Time, born : Time, hit : BOOLEAN])
        BY <1>2, <2>1, AppendProperties
    <2> QED
        BY <2>2, LenProperties
<1>5. Range(a) \subseteq DOMAIN rows /\ Range(b) \subseteq DOMAIN rows
    BY <1>1, RangeOfSeq
<1>6. \A x, y : <<x, y>> \in Order' <=> x \in S /\ y \in S /\ rows'[x].ts <= rows'[y].ts /\ x # y
    <2>1. \A x, y : <<x, y>> \in Order' <=> x \in Ids' /\ y \in Ids' /\ rows'[x].ts <= rows'[y].ts /\ x # y
        BY DEF Order, Ts
    <2> QED
        BY <2>1 DEF Ids
<1>7. /\ \A x \in Range(a) : <<x, id>> \in Order'
      /\ \A x \in Range(b) : <<id, x>> \in Order'
    <2>1. rows'[id].ts = ts /\ \A x \in Range(a) \union Range(b) : rows'[x].ts = Ts(x) /\ x \in S /\ x # id
        BY <1>1, <1>5 DEF Ts
    <2> QED
        BY <1>1, <1>3, <1>6, <2>1
<1>8. Order \subseteq Order'
    <2>1. \A x, y : <<x, y>> \in Order => x \in Ids /\ y \in Ids /\ rows[x].ts <= rows[y].ts /\ x # y
        BY DEF Order, Ts
    <2>2. \A x, y : <<x, y>> \in Order => <<x, y>> \in Order'
        BY <1>1, <1>6, <2>1 DEF Ids
    <2>3. \A p \in Order : p = <<p[1], p[2]>>
        BY DEF Order
    <2> QED
        BY <2>2, <2>3
<1>9. Pairwise(Joined(a, b), Order')
    <2>1. Pairwise(table, Order)
        BY DEF TableInv
    <2>2. Pairwise(table, Order')
        BY <1>8, <2>1 DEF Pairwise
    <2> QED
        BY <1>1, <2>2
<1> HIDE DEF S
<1>10. Pairwise(Inserted(a, id, b), Order') /\ Inserted(a, id, b) \in Seq(S)
    <2> DEFINE R == Order'
    <2>1. (\A x \in Range(a) : <<x, id>> \in R) /\ (\A x \in Range(b) : <<id, x>> \in R) /\ Pairwise(Joined(a, b), R)
        BY <1>7, <1>9
    <2> HIDE DEF R
    <2>2. Pairwise(Inserted(a, id, b), R)
        BY <1>3, <2>1, PutPairwise
    <2>3. Inserted(a, id, b) \in Seq(S)
        BY <1>3, PutBetween
    <2> QED
        BY <2>2, <2>3 DEF R
<1>11. Pairwise(table', Order')
    BY <1>1, <1>10
<1>12. client' # "query" => \A r \in DOMAIN rows' : rows'[r].hit
    <2>1. client' = client /\ (hit \/ client = "query")
        BY DEF CommitRow
    <2> QED
        BY <1>1, <2>1 DEF TableInv
<1>13. Pairwise(table, Order)'
    BY <1>11 DEF Pairwise
<1> QED
    BY <1>1, <1>4, <1>10, <1>12, <1>13 DEF TableInv, S

LEMMA PruneTableInv ==
    ASSUME ToolsTypeOK, TableInv, NEW cutoff \in Time, Prune(cutoff)
    PROVE  TableInv'
<1>1. table' = Filter(table, Since(cutoff)) /\ rows' = rows /\ client' = client
    BY DEF Prune
<1>2. table \in Seq(DOMAIN rows) /\ Pairwise(table, Order)
    BY Types DEF TableInv
<1>3. Pairwise(Filter(table, Since(cutoff)), Order)
    BY <1>2, FilterPairwise
<1>4. Order' = Order
    BY <1>1 DEF Order, Ids, Ts
<1>5. Pairwise(table, Order)'
    BY <1>1, <1>3, <1>4 DEF Pairwise
<1> QED
    BY <1>1, <1>5 DEF TableInv

LEMMA OtherTableInv ==
    ASSUME TableInv, UNCHANGED <<client, rows, table>>
    PROVE  TableInv'
BY DEF TableInv, Pairwise, Order, Ids, Ts

-----------------------------------------------------------------------------
(* The walks.                                                              *)

\* A page of a walk is a page of what is found.
LEMMA PageIs ==
    ASSUME ToolsTypeOK, NEW limit \in Nat, NEW offset \in Nat
    PROVE  QueryEvents(0, limit, offset) = PageOf(Found(table), offset, limit)
<1>1. table \in Seq(DOMAIN rows) /\ Range(table) \subseteq DOMAIN rows
    BY Types
<1>2. Range(table) \intersect (Hits \intersect Since(0)) = Range(table) \intersect Hits
    <2>1. \A r \in DOMAIN rows : 0 <= Ts(r)
        BY Types DEF Time
    <2> QED
        BY <1>1, <2>1 DEF Since
<1>3. Filter(table, Hits \intersect Since(0)) = Filter(table, Hits)
    BY <1>1, <1>2, FilterSame
<1> QED
    BY <1>3 DEF QueryEvents, PageOf, PageEnd, Found

\* Reading a page moves the walk on.
WalksOn(page, l, k, got) ==
    /\ page \in Seq(DOMAIN rows) /\ Len(page) \in Nat /\ Len(page) <= l /\ k \in Nat
    /\ got \in Seq(DOMAIN rows) /\ Len(got) = Len(walk.got) + Len(page)
    /\ Range(got) \subseteq DOMAIN rows
    /\ Twice(got, Beyond(Found(table), k)) = Repeated + Cardinality(Again)
    /\ (Behind(Found(table), k) \intersect walk.start) \ Range(got) \subseteq MissedBehind
    /\ Len(page) < l => Behind(Found(table), k) = Range(Found(table))

LEMMA PageRead ==
    ASSUME ToolsTypeOK, TableInv, Range(walk.got) \subseteq DOMAIN rows, NEW l \in Nat,
           NEW page, page = QueryEvents(0, l, walk.offset),
           NEW k, CursorAfter(page, walk.offset, l, k),
           NEW got, got = Joined(walk.got, page)
    PROVE  WalksOn(page, l, k, got)
<1> DEFINE q == Found(table)
           n == walk.offset
           S == DOMAIN rows
           old == walk.got
<1>1. n \in Nat /\ old \in Seq(Row)
    BY DEF ToolsTypeOK
<1>2. table \in Seq(S) /\ Pairwise(table, Order)
    BY Types DEF TableInv
<1>3. q \in Seq(S) /\ IsInjective(q)
    BY <1>2, FoundIn
<1>4. page = PageOf(q, n, l)
    BY <1>1, PageIs
<1>5. old \in Seq(S)
    <2>1. Len(old) \in Nat /\ DOMAIN old = 1..Len(old) /\ old \in [1..Len(old) -> Row]
        BY <1>1, LenProperties
    <2>2. \A i \in 1..Len(old) : old[i] \in S
        BY <2>1 DEF Range
    <2> QED
        BY <1>1, <2>1, <2>2, SeqDef
<1>6. got = Joined(old, page)
    OBVIOUS
<1>7. CursorAfter(page, n, l, k)
    OBVIOUS
<1>8. MissedBehind = (Behind(q, n) \intersect walk.start) \ Range(old)
      /\ Again = Range(old) \intersect Beyond(q, n) /\ Repeated = Len(old) - Cardinality(Range(old))
    BY DEF MissedBehind, Again, Repeated
<1> HIDE DEF q, n, S, old
<1>9. /\ page \in Seq(S) /\ Len(page) <= l
      /\ Range(page) \subseteq Beyond(q, n)
      /\ Cardinality(Range(page)) = Len(page)
      /\ Behind(q, k) = Behind(q, n) \union Range(page)
      /\ Beyond(q, k) = Beyond(q, n) \ Range(page)
      /\ Len(page) < l => Behind(q, k) = Range(q)
    <2>1. Turns(S, q, page, n, l, k)
        BY <1>1, <1>3, <1>4, <1>7, Turned
    <2> QED
        BY <2>1 DEF Turns
<1>10. Len(page) \in Nat /\ k \in Nat
    BY <1>7, <1>9, LenProperties DEF CursorAfter
<1>11. got \in Seq(S) /\ Len(got) = Len(old) + Len(page) /\ Range(got) = Range(old) \union Range(page)
    <2>1. page \in Seq(S)
        BY <1>9
    <2>2. Joined(old, page) \in Seq(S)
        BY <1>5, <2>1, JoinedIn
    <2>3. Len(Joined(old, page)) = Len(old) + Len(page)
        BY <1>5, <2>1, JoinedIn
    <2>4. Range(Joined(old, page)) = Range(old) \union Range(page)
        BY <1>5, <2>1, RangeJoined
    <2> QED
        BY <1>6, <2>2, <2>3, <2>4
<1>12. Range(got) \subseteq S
    BY <1>11, RangeOfSeq
<1>13. Twice(got, Beyond(q, k)) = Twice(old, Beyond(q, n))
    <2> DEFINE B == Beyond(q, n)
               C == Beyond(q, k)
    <2>1. IsFiniteSet(B)
        BY <1>1, <1>3, Around
    <2>2. Range(page) \subseteq B /\ C = B \ Range(page) /\ Cardinality(Range(page)) = Len(page)
        BY <1>9
    <2> HIDE DEF B, C
    <2>3. Twice(Joined(old, page), C) = Twice(old, B)
        BY <1>5, <1>9, <2>1, <2>2, GotMore
    <2> QED
        BY <1>6, <2>3 DEF B, C
<1>14. (Behind(q, k) \intersect walk.start) \ Range(got) \subseteq (Behind(q, n) \intersect walk.start) \ Range(old)
    BY <1>9, <1>11
<1> QED
    BY <1>8, <1>9, <1>10, <1>11, <1>12, <1>13, <1>14 DEF q, S, old, Twice, WalksOn

\* The size of a set that is at most another one and some elements more.
LEMMA NoMore ==
    ASSUME NEW A, NEW B, IsFiniteSet(B), A \subseteq B
    PROVE  /\ IsFiniteSet(A) /\ Cardinality(A) \in Nat /\ Cardinality(B) \in Nat
           /\ Cardinality(A) <= Cardinality(B)
BY FS_Subset, FS_CardinalityType

LEMMA SomeMore ==
    ASSUME NEW A, NEW B, NEW X, IsFiniteSet(B), IsFiniteSet(X), A \subseteq B \union X
    PROVE  Cardinality(A) <= Cardinality(B) + Cardinality(X)
<1>1. /\ IsFiniteSet(B \union X) /\ IsFiniteSet(B \intersect X)
      /\ Cardinality(B \union X) = Cardinality(B) + Cardinality(X) - Cardinality(B \intersect X)
    BY FS_Union, FS_Intersection
<1>2. Cardinality(A) <= Cardinality(B \union X)
    BY <1>1, NoMore
<1>3. /\ Cardinality(A) \in Nat /\ Cardinality(B) \in Nat /\ Cardinality(X) \in Nat
      /\ Cardinality(B \intersect X) \in Nat
    BY <1>1, FS_CardinalityType, NoMore
<1> QED
    BY <1>1, <1>2, <1>3

LEMMA OneMore ==
    ASSUME NEW A, NEW B, NEW x, IsFiniteSet(B), A \subseteq B \union {x}
    PROVE  Cardinality(A) <= Cardinality(B) + 1
<1>1. IsFiniteSet({x}) /\ Cardinality({x}) = 1
    BY FS_Singleton
<1> QED
    BY <1>1, SomeMore

\* The sizes that the walk's invariant is about.
LEMMA WalkSizes ==
    ASSUME ToolsTypeOK, TableInv
    PROVE  /\ Found(table) \in Seq(DOMAIN rows) /\ IsInjective(Found(table))
           /\ Range(Found(table)) = Range(table) \intersect Hits
           /\ walk.offset \in Nat /\ walk.pruned \in Nat /\ walk.shifted \in Nat
           /\ walk.run \in BOOLEAN /\ walk.at \in Time /\ walk.start \subseteq Row
           /\ IsFiniteSet(Range(table)) /\ IsFiniteSet(MissedBehind) /\ IsFiniteSet(Again)
           /\ Repeated \in Nat
<1>1. table \in Seq(DOMAIN rows) /\ Pairwise(table, Order)
    BY Types DEF TableInv
<1>2. /\ Found(table) \in Seq(DOMAIN rows) /\ IsInjective(Found(table))
      /\ Range(Found(table)) = Range(table) \intersect Hits
    BY <1>1, FoundIn
<1>3. /\ walk.offset \in Nat /\ walk.pruned \in Nat /\ walk.shifted \in Nat /\ walk.got \in Seq(Row)
      /\ walk.run \in BOOLEAN /\ walk.at \in Time /\ walk.start \subseteq Row
    BY DEF ToolsTypeOK
<1>4. IsFiniteSet(Behind(Found(table), walk.offset)) /\ IsFiniteSet(Beyond(Found(table), walk.offset))
    BY <1>2, <1>3, Around
<1>5. IsFiniteSet(MissedBehind) /\ IsFiniteSet(Again)
    <2>1. MissedBehind \subseteq Behind(Found(table), walk.offset)
          /\ Again \subseteq Beyond(Found(table), walk.offset)
        BY DEF MissedBehind, Again
    <2> QED
        BY <1>4, <2>1, FS_Subset
<1>6. IsFiniteSet(Range(table))
    BY <1>1, RangeSize
<1>7. Repeated \in Nat
    <2>1. /\ Cardinality(Range(walk.got)) \in Nat
          /\ Cardinality(Range(walk.got)) <= Len(walk.got)
          /\ Len(walk.got) \in Nat
        BY <1>3, RangeSize, LenProperties
    <2> QED
        BY <2>1 DEF Repeated
<1> QED
    BY <1>2, <1>3, <1>5, <1>6, <1>7

\* A commit: the new row is none of those the walk began with, and what it
\* moves on is at most one row, when it comes before the cursor.
LEMMA CommitWalkInv ==
    ASSUME ToolsTypeOK, TableInv, WalkInv, NEW ts \in Time, NEW hit \in BOOLEAN, CommitRow(ts, hit)
    PROVE  WalkInv'
<1> DEFINE a == Upto(ts)
           b == After(ts)
           id == NewId
           A == Found(a)
           B == Found(b)
           q == Found(table)
           p == Found(table)'
           n == walk.offset
           G == Range(walk.got)
<1>1. /\ a \in Seq(DOMAIN rows) /\ b \in Seq(DOMAIN rows)
      /\ table = Joined(a, b) /\ table' = Inserted(a, id, b)
      /\ id \notin DOMAIN rows /\ DOMAIN rows' = DOMAIN rows \union {id}
      /\ \A r \in DOMAIN rows : rows'[r] = rows[r]
      /\ rows'[id] = [ts |-> ts, born |-> clock, hit |-> hit]
    <2>1. Committed(ts, hit, Upto(ts), After(ts), NewId)
        BY CommitTable
    <2> QED
        BY <2>1 DEF Committed
<1>2. /\ A \in Seq(DOMAIN rows) /\ B \in Seq(DOMAIN rows)
      /\ q = Joined(A, B)
      /\ p = IF hit THEN Inserted(A, id, B) ELSE q
      /\ Hits' = IF hit THEN Hits \union {id} ELSE Hits
    BY CommitFound
<1>3. /\ walk' = [walk EXCEPT !.shifted = IF walk.run /\ hit /\ Len(A) < n THEN @ + 1 ELSE @]
      /\ client' = client /\ clock' = clock
    BY DEF CommitRow, Upto
<1>4. /\ q \in Seq(DOMAIN rows) /\ n \in Nat /\ walk.pruned \in Nat /\ walk.shifted \in Nat
      /\ walk.run \in BOOLEAN /\ IsFiniteSet(MissedBehind) /\ IsFiniteSet(Again) /\ Repeated \in Nat
    BY WalkSizes
<1>5. /\ walk.start \subseteq Hits /\ G \subseteq DOMAIN rows /\ walk.at <= clock
      /\ Hits \subseteq DOMAIN rows
      /\ WalkUnderWay /\ WalkOver
    BY DEF WalkInv, Hits
<1>6. Range(table') = Range(table) \union {id} /\ Range(table) \subseteq DOMAIN rows
    <2> DEFINE S == DOMAIN rows'
    <2>1. DOMAIN rows \subseteq S /\ id \in S
        BY <1>1
    <2> HIDE DEF S, id, a, b
    <2>2. a \in Seq(S) /\ b \in Seq(S)
        BY <1>1, <2>1, SeqMonotonic
    <2>3. Range(Inserted(a, id, b)) = Range(Joined(a, b)) \union {id}
        BY <2>1, <2>2, PutRange
    <2>4. Range(table) \subseteq DOMAIN rows
        BY Types
    <2> QED
        BY <1>1, <2>3, <2>4
<1> HIDE DEF a, b, id, A, B, q, p, n, G
<1>7. /\ walk'.run = walk.run /\ walk'.offset = n /\ walk'.got = walk.got /\ walk'.start = walk.start
      /\ walk'.at = walk.at /\ walk'.pruned = walk.pruned
      /\ walk'.shifted = IF walk.run /\ hit /\ Len(A) < n THEN walk.shifted + 1 ELSE walk.shifted
    BY <1>3 DEF ToolsTypeOK, n
<1>8. id \notin walk.start /\ id \notin G
    BY <1>1, <1>5
<1>9. /\ MissedBehind' = (Behind(p, n) \intersect walk.start) \ G
      /\ Again' = G \intersect Beyond(p, n)
      /\ Repeated' = Repeated
    BY <1>7 DEF MissedBehind, Again, Repeated, p, G, Behind, Beyond
<1>10. /\ MissedBehind = (Behind(q, n) \intersect walk.start) \ G
       /\ Again = G \intersect Beyond(q, n)
    BY DEF MissedBehind, Again, q, n, G
<1>11. /\ Behind(p, n) \subseteq Behind(q, n) \union {id}
       /\ \E x : Beyond(p, n) \subseteq Beyond(q, n) \union {id, x}
       /\ hit /\ n <= Len(A) => Beyond(p, n) \subseteq Beyond(q, n) \union {id}
       /\ ~hit => Beyond(p, n) \subseteq Beyond(q, n) \union {id}
    <2>1. CASE ~hit
        BY <1>2, <2>1
    <2>2. CASE hit
        <3> DEFINE S == DOMAIN rows'
        <3>1. DOMAIN rows \subseteq S /\ id \in S
            BY <1>1
        <3> HIDE DEF S
        <3>2. A \in Seq(S) /\ B \in Seq(S)
            BY <1>2, <3>1, SeqMonotonic
        <3>3. Behind(Inserted(A, id, B), n) \subseteq Behind(Joined(A, B), n) \union {id}
            BY <1>4, <3>1, <3>2, InsertedBehind
        <3>4. Beyond(Inserted(A, id, B), n) \subseteq Beyond(Joined(A, B), n) \union {id, Joined(A, B)[n]}
            BY <1>4, <3>1, <3>2, InsertedBehind
        <3>5. n <= Len(A) => Beyond(Inserted(A, id, B), n) \subseteq Beyond(Joined(A, B), n) \union {id}
            BY <1>4, <3>1, <3>2, InsertedBehind
        <3> QED
            BY <1>2, <2>2, <3>3, <3>4, <3>5
    <2> QED
        BY <2>1, <2>2
<1>12. Cardinality(MissedBehind') <= Cardinality(MissedBehind) /\ Cardinality(MissedBehind) \in Nat
       /\ Cardinality(MissedBehind') \in Nat
    <2>1. MissedBehind' \subseteq MissedBehind
        BY <1>8, <1>9, <1>10, <1>11
    <2> QED
        BY <1>4, <2>1, NoMore
<1>13. /\ Cardinality(Again') <= Cardinality(Again) + 1
       /\ ~hit \/ n <= Len(A) => Cardinality(Again') <= Cardinality(Again)
       /\ Cardinality(Again') \in Nat /\ Cardinality(Again) \in Nat
    <2>1. PICK x : Again' \subseteq Again \union {x}
        BY <1>8, <1>9, <1>10, <1>11
    <2>2. ~hit \/ n <= Len(A) => Again' \subseteq Again
        BY <1>8, <1>9, <1>10, <1>11
    <2>3. IsFiniteSet(Again \union {x})
        BY <1>4, FS_AddElement
    <2> HIDE DEF Again
    <2>4. Cardinality(Again') <= Cardinality(Again) + 1
        BY <1>4, <2>1, OneMore
    <2>5. Cardinality(Again') \in Nat /\ Cardinality(Again) \in Nat
        BY <1>4, <2>1, <2>3, NoMore
    <2>6. ~hit \/ n <= Len(A) => Cardinality(Again') <= Cardinality(Again)
        BY <1>4, <2>2, NoMore
    <2> QED
        BY <2>4, <2>5, <2>6
<1>14. ASSUME walk.run
       PROVE  /\ Cardinality(MissedBehind') <= walk'.pruned
              /\ Repeated' + Cardinality(Again') <= walk'.shifted
    <2>1. Cardinality(MissedBehind) <= walk.pruned /\ Repeated + Cardinality(Again) <= walk.shifted
        BY <1>5, <1>14 DEF WalkUnderWay
    <2>2. Len(A) \in Nat
        BY <1>2, LenProperties
    <2>3. walk'.pruned = walk.pruned /\ Repeated' = Repeated
        BY <1>7, <1>9
    <2>4. walk'.shifted = IF hit /\ Len(A) < n THEN walk.shifted + 1 ELSE walk.shifted
        BY <1>7, <1>14
    <2>5. (hit /\ Len(A) < n) \/ ~hit \/ n <= Len(A)
        BY <1>4, <2>2
    <2> QED
        BY <1>4, <1>12, <1>13, <2>1, <2>3, <2>4, <2>5, SMTT(30)
<1>15. ASSUME client = "summary", walk.run, NEW r \in Range(table'), rows'[r].born < walk.at
       PROVE  r \in walk.start
    <2>1. rows'[id].born = clock
        BY <1>1
    <2>2. r # id
        <3>1. clock \in Time /\ walk.at \in Time
            BY WalkSizes DEF ToolsTypeOK
        <3>2. clock \in Nat /\ walk.at \in Nat
            BY <3>1 DEF Time
        <3>3. ~ (clock < walk.at)
            BY <1>5, <3>2
        <3> QED
            BY <1>15, <2>1, <3>3
    <2>3. r \in Range(table) /\ rows'[r] = rows[r]
        BY <1>1, <1>6, <1>15, <2>2
    <2> QED
        BY <1>5, <1>15, <2>3 DEF WalkUnderWay
<1>16. WalkUnderWay'
    <2>1. walk.run /\ client = "summary" => Len(walk.got) < MaxEvents
        BY <1>5 DEF WalkUnderWay
    <2> QED
        BY <1>3, <1>7, <1>14, <1>15, <2>1 DEF WalkUnderWay
<1>17. WalkOver'
    <2>1. ~walk.run => Repeated <= walk.shifted
        BY <1>5 DEF WalkOver
    <2>2. ~walk.run => walk'.shifted = walk.shifted /\ Repeated' = Repeated
        BY <1>7, <1>9
    <2>3. (walk.start \intersect Range(table')) \ G = (walk.start \intersect Range(table)) \ G
        BY <1>6, <1>8
    <2>4. ((walk.start \intersect Range(table)) \ Range(walk.got))' = (walk.start \intersect Range(table)) \ Range(walk.got)
        BY <1>7, <2>3 DEF G
    <2> QED
        BY <1>3, <1>5, <1>7, <2>1, <2>2, <2>4 DEF WalkOver
<1> QED
    <2>1. walk'.start \subseteq Hits' /\ Range(walk'.got) \subseteq DOMAIN rows' /\ walk'.at <= clock'
        BY <1>1, <1>2, <1>3, <1>5, <1>7 DEF G
    <2> QED
        BY <1>16, <1>17, <2>1 DEF WalkInv

\* A sweep: what it takes from behind the cursor is what the walk may miss.
LEMMA PruneWalkInv ==
    ASSUME ToolsTypeOK, TableInv, WalkInv, NEW cutoff \in Time, Prune(cutoff)
    PROVE  WalkInv' /\ walk'.pruned \in Nat
<1> DEFINE a == Filter(table, Before(cutoff))
           A == Found(a)
           q == Found(table)
           p == Found(table)'
           n == walk.offset
           G == Range(walk.got)
           k == IF Len(A) < n THEN Len(A) ELSE n
<1>1. /\ rows' = rows /\ Hits' = Hits
      /\ Range(table') \subseteq Range(table)
      /\ A \in Seq(DOMAIN rows) /\ p \in Seq(DOMAIN rows)
      /\ q = Joined(A, p)
    BY PruneTable
<1>2. /\ client' = client /\ clock' = clock
      /\ walk' = [walk EXCEPT !.pruned = IF ~walk.run THEN @
                                         ELSE IF Len(q) - Len(p) < walk.offset THEN @ + (Len(q) - Len(p))
                                         ELSE @ + walk.offset]
    <2>1. p = Found(Filter(table, Since(cutoff)))
        BY <1>1 DEF Prune, Found
    <2> QED
        BY <2>1 DEF Prune
<1>3. /\ q \in Seq(DOMAIN rows) /\ n \in Nat /\ walk.pruned \in Nat /\ walk.shifted \in Nat
      /\ walk.run \in BOOLEAN /\ IsFiniteSet(MissedBehind) /\ IsFiniteSet(Again) /\ Repeated \in Nat
      /\ IsFiniteSet(Range(table))
    BY WalkSizes
<1>4. /\ walk.start \subseteq Hits /\ G \subseteq DOMAIN rows /\ walk.at <= clock
      /\ WalkUnderWay /\ WalkOver
    BY DEF WalkInv
<1> HIDE DEF a, A, q, p, n, G
<1>5. Len(q) - Len(p) = Len(A) /\ Len(A) \in Nat /\ k \in Nat
    <2>1. Len(Joined(A, p)) = Len(A) + Len(p) /\ Len(A) \in Nat /\ Len(p) \in Nat
        BY <1>1, JoinedIn, LenProperties
    <2> QED
        BY <1>1, <1>3, <2>1
<1>6. /\ walk'.run = walk.run /\ walk'.offset = n /\ walk'.got = walk.got /\ walk'.start = walk.start
      /\ walk'.at = walk.at /\ walk'.shifted = walk.shifted
      /\ walk'.pruned = IF ~walk.run THEN walk.pruned ELSE walk.pruned + k
    <2> DEFINE gone == Len(q) - Len(p)
    <2>1. walk' = [walk EXCEPT !.pruned = IF ~walk.run THEN @ ELSE IF gone < walk.offset THEN @ + gone ELSE @ + walk.offset]
        BY <1>2
    <2>2. gone = Len(A)
        BY <1>5
    <2> HIDE DEF gone
    <2> QED
        BY <2>1, <2>2 DEF ToolsTypeOK, n
<1> HIDE DEF k
<1>7. /\ MissedBehind' = (Behind(p, n) \intersect walk.start) \ G
      /\ Again' = G \intersect Beyond(p, n)
      /\ Repeated' = Repeated
    BY <1>6 DEF MissedBehind, Again, Repeated, p, G, Behind, Beyond
<1>8. /\ MissedBehind = (Behind(q, n) \intersect walk.start) \ G
      /\ Again = G \intersect Beyond(q, n)
    BY DEF MissedBehind, Again, q, n, G
<1>9. /\ Beyond(p, n) \subseteq Beyond(q, n)
      /\ \E X : /\ IsFiniteSet(X) /\ Cardinality(X) <= k
                /\ Behind(p, n) \subseteq Behind(q, n) \union X
    BY <1>1, <1>3, <1>5, Removed, SMTT(30) DEF k
<1>10. Cardinality(MissedBehind') <= Cardinality(MissedBehind) + k
       /\ Cardinality(MissedBehind) \in Nat /\ Cardinality(MissedBehind') \in Nat
    <2>1. PICK X : /\ IsFiniteSet(X) /\ Cardinality(X) <= k
                   /\ Behind(p, n) \subseteq Behind(q, n) \union X
        BY <1>9
    <2>2. MissedBehind' \subseteq MissedBehind \union X
        BY <1>7, <1>8, <2>1
    <2>3. IsFiniteSet(MissedBehind \union X)
        BY <1>3, <2>1, FS_Union
    <2>4. Cardinality(MissedBehind') \in Nat /\ Cardinality(MissedBehind) \in Nat /\ Cardinality(X) \in Nat
        BY <1>3, <2>1, <2>2, <2>3, NoMore, FS_CardinalityType
    <2>5. Cardinality(MissedBehind') <= Cardinality(MissedBehind) + Cardinality(X)
        BY <1>3, <2>1, <2>2, SomeMore
    <2> QED
        BY <1>5, <2>1, <2>4, <2>5
<1>11. Cardinality(Again') <= Cardinality(Again) /\ Cardinality(Again) \in Nat /\ Cardinality(Again') \in Nat
    <2>1. Again' \subseteq Again
        BY <1>7, <1>8, <1>9
    <2> QED
        BY <1>3, <2>1, NoMore
<1>12. WalkUnderWay'
    <2>1. walk.run => /\ Cardinality(MissedBehind) <= walk.pruned
                      /\ Repeated + Cardinality(Again) <= walk.shifted
        BY <1>4 DEF WalkUnderWay
    <2>2. walk.run => /\ Cardinality(MissedBehind') <= walk'.pruned
                      /\ Repeated' + Cardinality(Again') <= walk'.shifted
        <3>1. walk.run => walk'.pruned = walk.pruned + k
            BY <1>6
        <3>2. walk'.shifted = walk.shifted /\ Repeated' = Repeated
            BY <1>6, <1>7
        <3> DEFINE c == Cardinality(MissedBehind)
                   d == Cardinality(MissedBehind')
                   e == Cardinality(Again)
                   f == Cardinality(Again')
                   w == Repeated
        <3>3. /\ c \in Nat /\ d \in Nat /\ d <= c + k
              /\ e \in Nat /\ f \in Nat /\ f <= e /\ w \in Nat
            BY <1>3, <1>10, <1>11
        <3>4. walk.run => c <= walk.pruned /\ w + e <= walk.shifted
            BY <2>1
        <3> HIDE DEF c, d, e, f, w
        <3>5. walk.run => d <= walk'.pruned
            BY <1>3, <1>5, <3>1, <3>3, <3>4
        <3>6. walk.run => w + f <= walk'.shifted
            BY <1>3, <3>2, <3>3, <3>4
        <3> QED
            BY <3>2, <3>5, <3>6 DEF d, f, w
    <2>3. client = "summary" /\ walk.run => /\ Len(walk.got) < MaxEvents
                                            /\ \A r \in Range(table') : rows'[r].born < walk.at => r \in walk.start
        BY <1>1, <1>4 DEF WalkUnderWay
    <2> QED
        BY <1>2, <1>6, <2>2, <2>3 DEF WalkUnderWay
<1>13. WalkOver'
    <2> DEFINE D == (walk.start \intersect Range(table)) \ Range(walk.got)
    <2>1. D' \subseteq D
        BY <1>1, <1>6
    <2>2. IsFiniteSet(D)
        BY <1>3, FS_Subset
    <2>3. ~walk.run => Repeated <= walk.shifted /\ (client = "query" => Cardinality(D) <= walk.pruned)
        BY <1>4 DEF WalkOver
    <2>4. ~walk.run => walk'.pruned = walk.pruned /\ walk'.shifted = walk.shifted /\ Repeated' = Repeated
        BY <1>6, <1>7
    <2>5. Cardinality(D') <= Cardinality(D) /\ Cardinality(D) \in Nat /\ Cardinality(D') \in Nat
        <3> HIDE DEF D
        <3> QED
            BY <2>1, <2>2, NoMore
    <2>6. ~walk.run /\ client = "query" => Cardinality(D') <= walk'.pruned
        <3> HIDE DEF D
        <3> QED
            BY <1>3, <2>3, <2>4, <2>5
    <2> QED
        BY <1>2, <1>6, <2>3, <2>4, <2>6 DEF WalkOver
<1>14. walk'.pruned \in Nat
    BY <1>3, <1>5, <1>6
<1> QED
    BY <1>1, <1>2, <1>4, <1>6, <1>12, <1>13, <1>14 DEF WalkInv, G

\* A walk that begins has nothing behind it.
LEMMA StartWalkInv ==
    ASSUME ToolsTypeOK, TableInv, WalkStart
    PROVE  WalkInv'
<1>1. /\ rows' = rows /\ table' = table /\ client' = client /\ clock' = clock
      /\ client \in {"query", "summary"}
      /\ walk' = [IdleWalk EXCEPT !.run = TRUE, !.start = Range(Found(table)), !.at = clock]
    BY DEF WalkStart, walkRest
<1>2. /\ walk'.run = TRUE /\ walk'.offset = 0 /\ walk'.got = <<>> /\ walk'.start = Range(Found(table))
      /\ walk'.at = clock /\ walk'.pruned = 0 /\ walk'.shifted = 0
    BY <1>1 DEF IdleWalk
<1>3. /\ Found(table) \in Seq(DOMAIN rows) /\ Range(Found(table)) = Range(table) \intersect Hits
      /\ Range(table) \subseteq DOMAIN rows
    BY WalkSizes, Types
<1>4. Range(walk'.got) = {} /\ Len(walk'.got) = 0
    <2>1. PICK z : z = <<>>
        OBVIOUS
    <2>2. DOMAIN z = {} /\ Len(z) = 0
        BY <2>1
    <2>3. Range(z) = {}
        BY <2>2 DEF Range
    <2> QED
        BY <1>2, <2>1, <2>2, <2>3
<1>5. Behind(Found(table), 0) = {}
    BY <1>3, Around
<1>6. MissedBehind' = {} /\ Again' = {}
    <2>1. MissedBehind' = (Behind(Found(table)', 0) \intersect walk'.start) \ Range(walk'.got)
        BY <1>2 DEF MissedBehind, Behind
    <2>2. Found(table)' = Found(table)
        BY <1>1 DEF Found, Hits
    <2> QED
        BY <1>4, <1>5, <2>1, <2>2 DEF Again
<1>7. Cardinality({}) = 0
    BY FS_EmptySet
<1>8. Repeated' = 0
    BY <1>4, <1>7 DEF Repeated
<1>9. Range(Found(table)) \subseteq Hits' /\ MaxEvents \in Nat \ {0} /\ clock \in Nat
    <2>1. Hits' = Hits
        BY <1>1 DEF Hits
    <2>2. MaxEvents \in Nat \ {0} /\ MaxClock \in Nat
        BY McpToolsAssumption
    <2>3. clock \in Nat
        BY <2>2 DEF ToolsTypeOK, Time
    <2> QED
        BY <1>3, <2>1, <2>2, <2>3
<1>10. client = "summary" => \A r \in Range(table) : r \in walk'.start
    BY <1>2, <1>3 DEF TableInv, Hits
<1>11. WalkUnderWay'
    BY <1>1, <1>2, <1>4, <1>6, <1>7, <1>8, <1>9, <1>10 DEF WalkUnderWay
<1>12. WalkOver'
    BY <1>2 DEF WalkOver
<1> QED
    BY <1>1, <1>2, <1>4, <1>9, <1>11, <1>12 DEF WalkInv

\* Limits are in range once clamped.
LEMMA Clamped ==
    ASSUME NEW limit \in Nat
    PROVE  Clamp(limit) \in Nat
BY McpToolsAssumption DEF Clamp

\* A page: what was behind the cursor is as it was, and a short page is the last.
LEMMA PageWalkInv ==
    ASSUME ToolsTypeOK, TableInv, WalkInv, NEW limit \in Nat, Page(limit)
    PROVE  WalkInv' /\ walk'.got \in Seq(Row) /\ walk'.offset \in Nat
<1> DEFINE l == Clamp(limit)
           page == QueryEvents(0, l, walk.offset)
           got == walk.got \o page
           k == walk.offset + l
           q == Found(table)
<1>1. /\ rows' = rows /\ table' = table /\ client' = client /\ clock' = clock
      /\ client = "query" /\ walk.run
      /\ walk' = [walk EXCEPT !.got = @ \o page, !.run = Len(page) = l, !.offset = @ + l]
    BY DEF Page, OffsetPage, walkRest
<1>2. /\ walk'.run = (Len(page) = l) /\ walk'.got = got /\ walk'.offset = k /\ walk'.start = walk.start
      /\ walk'.at = walk.at /\ walk'.shifted = walk.shifted /\ walk'.pruned = walk.pruned
    BY <1>1 DEF ToolsTypeOK
<1>3. /\ walk.start \subseteq Hits /\ Range(walk.got) \subseteq DOMAIN rows /\ walk.at <= clock
      /\ WalkUnderWay /\ WalkOver
    BY DEF WalkInv
<1>4. /\ q \in Seq(DOMAIN rows) /\ walk.offset \in Nat /\ walk.pruned \in Nat /\ walk.shifted \in Nat
      /\ IsFiniteSet(MissedBehind) /\ IsFiniteSet(Again) /\ Repeated \in Nat
      /\ Range(q) = Range(table) \intersect Hits
    BY WalkSizes
<1>5. l \in Nat
    BY Clamped
<1>6. got = Joined(walk.got, page)
    BY DEF Joined
<1> HIDE DEF l, page, got
<1>7. CursorAfter(page, walk.offset, l, k) /\ k \in Nat
    BY <1>4, <1>5 DEF CursorAfter
<1> HIDE DEF k
<1>8. /\ Len(page) \in Nat /\ Len(page) <= l
      /\ got \in Seq(DOMAIN rows)
      /\ Range(got) \subseteq DOMAIN rows
      /\ Twice(got, Beyond(Found(table), k)) = Repeated + Cardinality(Again)
      /\ (Behind(Found(table), k) \intersect walk.start) \ Range(got) \subseteq MissedBehind
      /\ Len(page) < l => Behind(Found(table), k) = Range(Found(table))
    <2>1. WalksOn(page, l, k, got)
        BY <1>3, <1>5, <1>6, <1>7, PageRead DEF page
    <2> QED
        BY <2>1 DEF WalksOn
<1> HIDE DEF q
<1>9. /\ MissedBehind' = (Behind(q, k) \intersect walk.start) \ Range(got)
      /\ Again' = Range(got) \intersect Beyond(q, k)
      /\ Repeated' = Len(got) - Cardinality(Range(got))
    <2>1. Found(table)' = q
        BY <1>1 DEF Found, Hits, q
    <2>2. MissedBehind' = (Behind(Found(table)', k) \intersect walk'.start) \ Range(walk'.got)
        BY <1>2 DEF MissedBehind, Behind
    <2>3. Again' = Range(walk'.got) \intersect Beyond(Found(table)', k)
        BY <1>2 DEF Again, Beyond
    <2> QED
        BY <1>2, <2>1, <2>2, <2>3 DEF Repeated
<1>10. Cardinality(MissedBehind) <= walk.pruned /\ Repeated + Cardinality(Again) <= walk.shifted
    BY <1>1, <1>3 DEF WalkUnderWay
<1>11. MissedBehind' \subseteq MissedBehind
    BY <1>8, <1>9 DEF q
<1>12. Cardinality(MissedBehind') <= walk'.pruned
    <2>1. /\ Cardinality(MissedBehind') <= Cardinality(MissedBehind)
          /\ Cardinality(MissedBehind) \in Nat /\ Cardinality(MissedBehind') \in Nat
        BY <1>4, <1>11, NoMore
    <2> QED
        BY <1>2, <1>4, <1>10, <2>1
<1>13. Repeated' + Cardinality(Again') <= walk'.shifted
    BY <1>2, <1>8, <1>9, <1>10 DEF Twice, q
<1>14. Repeated' <= walk'.shifted
    <2>1. Cardinality(Again') \in Nat
        <3>1. IsFiniteSet(Beyond(q, k))
            BY <1>4, <1>7, Around DEF q
        <3>2. IsFiniteSet(Again')
            BY <1>9, <3>1, FS_Subset
        <3> QED
            BY <3>2, FS_CardinalityType
    <2>2. Repeated' \in Int /\ walk'.shifted \in Nat
        <3>1. Len(got) \in Nat /\ Cardinality(Range(got)) \in Nat
            BY <1>8, RangeSize, LenProperties
        <3> QED
            BY <1>2, <1>4, <1>9, <3>1
    <2> QED
        BY <1>13, <2>1, <2>2
<1>15. ASSUME ~walk'.run
       PROVE  Cardinality((walk.start \intersect Range(table)) \ Range(got)) <= walk'.pruned
    <2>1. Len(page) < l
        <3>1. ~ (Len(page) = l)
            BY <1>2, <1>15
        <3> QED
            BY <1>5, <1>8, <3>1
    <2>2. (walk.start \intersect Range(table)) \ Range(got) = MissedBehind'
        BY <1>3, <1>4, <1>8, <1>9, <2>1 DEF q
    <2> QED
        BY <1>12, <2>2
<1>16. WalkUnderWay'
    BY <1>1, <1>12, <1>13 DEF WalkUnderWay
<1>17. WalkOver'
    <2>1. ((walk.start \intersect Range(table)) \ Range(walk.got))' = (walk.start \intersect Range(table)) \ Range(got)
        BY <1>1, <1>2
    <2> QED
        BY <1>14, <1>15, <2>1 DEF WalkOver
<1>18. Hits' = Hits
    BY <1>1 DEF Hits
<1>19. got \in Seq(Row)
    <2>1. DOMAIN rows \subseteq Row
        BY Types
    <2> QED
        BY <1>8, <2>1, SeqMonotonic
<1> QED
    BY <1>1, <1>2, <1>3, <1>7, <1>8, <1>16, <1>17, <1>18, <1>19 DEF WalkInv

\* A page of a rollup; the entry that the last one leaves has missed what the
\* rollup missed, and of the rows older than it nothing else.
LEMMA RollupInv ==
    ASSUME ToolsTypeOK, TableInv, WalkInv, CacheInv, RollupPage
    PROVE  /\ WalkInv' /\ CacheInv' /\ walk'.got \in Seq(Row) /\ walk'.offset \in Nat
           /\ cache' \in [at : Time \union {-Ttl}, got : SUBSET Row, cut : BOOLEAN, pruned : Nat]
<1> DEFINE l == IF MaxEvents - Len(walk.got) < PerCall THEN MaxEvents - Len(walk.got) ELSE PerCall
           page == QueryEvents(0, l, walk.offset)
           got == walk.got \o page
           k == walk.offset + Len(page)
           q == Found(table)
           over == Len(page) < l \/ Len(got) = MaxEvents
<1>1. /\ rows' = rows /\ table' = table /\ client' = client /\ clock' = clock
      /\ client = "summary" /\ walk.run
      /\ walk' = [walk EXCEPT !.got = got, !.run = ~over, !.offset = @ + Len(page)]
      /\ cache' = IF over THEN [at |-> walk.at, got |-> Range(got), cut |-> Len(got) = MaxEvents,
                                pruned |-> walk.pruned]
                  ELSE cache
    BY DEF RollupPage, Rollup, walkRest
<1>2. /\ walk'.run = (~over) /\ walk'.got = got /\ walk'.offset = k /\ walk'.start = walk.start
      /\ walk'.at = walk.at /\ walk'.shifted = walk.shifted /\ walk'.pruned = walk.pruned
    BY <1>1 DEF ToolsTypeOK
<1>3. /\ walk.start \subseteq Hits /\ Range(walk.got) \subseteq DOMAIN rows /\ walk.at <= clock
      /\ WalkUnderWay /\ WalkOver
    BY DEF WalkInv
<1>4. /\ q \in Seq(DOMAIN rows) /\ walk.offset \in Nat /\ walk.pruned \in Nat /\ walk.shifted \in Nat
      /\ IsFiniteSet(MissedBehind) /\ IsFiniteSet(Again) /\ Repeated \in Nat /\ walk.at \in Time
      /\ Range(q) = Range(table) \intersect Hits
    BY WalkSizes
<1>5. /\ l \in Nat /\ Len(walk.got) \in Nat /\ Len(walk.got) < MaxEvents
      /\ Len(walk.got) + l <= MaxEvents /\ MaxEvents \in Nat
    <2>1. Len(walk.got) \in Nat
        BY LenProperties DEF ToolsTypeOK
    <2>2. Len(walk.got) < MaxEvents
        BY <1>1, <1>3 DEF WalkUnderWay
    <2> QED
        BY <2>1, <2>2, McpToolsAssumption
<1>6. got = Joined(walk.got, page)
    BY DEF Joined
<1> HIDE DEF l, page, got
<1>7. CursorAfter(page, walk.offset, l, k) /\ k \in Nat
    <2>1. Len(page) \in Nat
        <3>1. page = PageOf(q, walk.offset, l)
            BY <1>4, <1>5, PageIs DEF page
        <3>2. IsInjective(q) /\ CursorAfter(page, walk.offset, l, walk.offset + l)
            BY <1>4, <1>5, WalkSizes DEF CursorAfter
        <3>3. Turns(DOMAIN rows, q, page, walk.offset, l, walk.offset + l)
            <4> HIDE DEF q
            <4> QED
                BY <1>4, <1>5, <3>1, <3>2, Turned
        <3> QED
            BY <3>3, LenProperties DEF Turns
    <2> QED
        BY <1>4, <2>1 DEF CursorAfter
<1> HIDE DEF k
<1>8. /\ Len(page) \in Nat /\ Len(page) <= l
      /\ got \in Seq(DOMAIN rows) /\ Len(got) = Len(walk.got) + Len(page)
      /\ Range(got) \subseteq DOMAIN rows
      /\ Twice(got, Beyond(Found(table), k)) = Repeated + Cardinality(Again)
      /\ (Behind(Found(table), k) \intersect walk.start) \ Range(got) \subseteq MissedBehind
      /\ Len(page) < l => Behind(Found(table), k) = Range(Found(table))
    <2>1. WalksOn(page, l, k, got)
        BY <1>3, <1>5, <1>6, <1>7, PageRead DEF page
    <2> QED
        BY <2>1 DEF WalksOn
<1> HIDE DEF q
<1>9. /\ MissedBehind' = (Behind(q, k) \intersect walk.start) \ Range(got)
      /\ Again' = Range(got) \intersect Beyond(q, k)
      /\ Repeated' = Len(got) - Cardinality(Range(got))
    <2>1. Found(table)' = q
        BY <1>1 DEF Found, Hits, q
    <2>2. MissedBehind' = (Behind(Found(table)', k) \intersect walk'.start) \ Range(walk'.got)
        BY <1>2 DEF MissedBehind, Behind
    <2>3. Again' = Range(walk'.got) \intersect Beyond(Found(table)', k)
        BY <1>2 DEF Again, Beyond
    <2> QED
        BY <1>2, <2>1, <2>2, <2>3 DEF Repeated
<1>10. Cardinality(MissedBehind) <= walk.pruned /\ Repeated + Cardinality(Again) <= walk.shifted
    BY <1>1, <1>3 DEF WalkUnderWay
<1>11. MissedBehind' \subseteq MissedBehind
    BY <1>8, <1>9 DEF q
<1>12. /\ Cardinality(MissedBehind') <= walk'.pruned /\ IsFiniteSet(MissedBehind')
    <2>1. /\ Cardinality(MissedBehind') <= Cardinality(MissedBehind) /\ IsFiniteSet(MissedBehind')
          /\ Cardinality(MissedBehind) \in Nat /\ Cardinality(MissedBehind') \in Nat
        BY <1>4, <1>11, NoMore
    <2> QED
        BY <1>2, <1>4, <1>10, <2>1
<1>13. Repeated' + Cardinality(Again') <= walk'.shifted
    BY <1>2, <1>8, <1>9, <1>10 DEF Twice, q
<1>14. Repeated' <= walk'.shifted
    <2>1. Cardinality(Again') \in Nat
        <3>1. IsFiniteSet(Beyond(q, k))
            BY <1>4, <1>7, Around DEF q
        <3>2. IsFiniteSet(Again')
            BY <1>9, <3>1, FS_Subset
        <3> QED
            BY <3>2, FS_CardinalityType
    <2>2. Repeated' \in Int /\ walk'.shifted \in Nat
        <3>1. Len(got) \in Nat /\ Cardinality(Range(got)) \in Nat
            BY <1>8, RangeSize, LenProperties
        <3> QED
            BY <1>2, <1>4, <1>9, <3>1
    <2> QED
        BY <1>13, <2>1, <2>2
<1>15. \A r \in Range(table) : rows[r].born < walk.at => r \in walk.start
    BY <1>1, <1>3 DEF WalkUnderWay
<1>16. WalkUnderWay'
    <2>1. ~over => Len(got) < MaxEvents
        <3>1. Len(got) <= MaxEvents /\ Len(got) \in Nat
            BY <1>5, <1>8
        <3> QED
            BY <1>5, <3>1
    <2>2. walk'.run => Len(walk'.got) < MaxEvents
        BY <1>2, <2>1
    <2> HIDE DEF over
    <2> QED
        BY <1>1, <1>2, <1>12, <1>13, <1>15, <2>2 DEF WalkUnderWay
<1>17. WalkOver'
    BY <1>1, <1>14 DEF WalkOver
<1>18. Hits' = Hits
    BY <1>1 DEF Hits
<1>19. got \in Seq(Row) /\ Range(got) \subseteq Row
    <2>1. DOMAIN rows \subseteq Row
        BY Types
    <2> QED
        BY <1>8, <2>1, SeqMonotonic
<1>20. WalkInv'
    BY <1>1, <1>2, <1>3, <1>8, <1>16, <1>17, <1>18 DEF WalkInv
<1>21. CacheInv'
    <2>1. CASE ~over
        <3>1. cache' = cache
            BY <1>1, <2>1
        <3> QED
            BY <1>1, <3>1 DEF CacheInv, CacheMissed
    <2>2. CASE over
        <3>1. /\ cache'.at = walk.at /\ cache'.got = Range(got) /\ cache'.cut = (Len(got) = MaxEvents)
              /\ cache'.pruned = walk.pruned
            BY <1>1, <2>2
        <3>2. CacheMissed' = {r \in Range(table) : rows[r].born < walk.at /\ r \notin Range(got)}
            BY <1>1, <3>1 DEF CacheMissed
        <3>3. ASSUME ~ (Len(got) = MaxEvents)
              PROVE  CacheMissed' \subseteq MissedBehind'
            <4>1. Behind(q, k) = Range(table) \intersect Hits
                BY <1>4, <1>8, <2>2, <3>3 DEF q
            <4> QED
                BY <1>3, <1>9, <1>15, <3>2, <4>1
        <3>4. ASSUME ~ (Len(got) = MaxEvents)
              PROVE  Cardinality(CacheMissed') <= cache'.pruned
            <4>1. /\ Cardinality(CacheMissed') <= Cardinality(MissedBehind')
                  /\ Cardinality(MissedBehind') \in Nat /\ Cardinality(CacheMissed') \in Nat
                BY <1>12, <3>3, <3>4, NoMore
            <4> QED
                BY <1>2, <1>4, <1>12, <3>1, <4>1
        <3> QED
            BY <1>1, <1>3, <3>1, <3>4 DEF CacheInv
    <2> QED
        BY <2>1, <2>2
<1>22. cache' \in [at : Time \union {-Ttl}, got : SUBSET Row, cut : BOOLEAN, pruned : Nat]
    <2> DEFINE entry == [at |-> walk.at, got |-> Range(got), cut |-> Len(got) = MaxEvents, pruned |-> walk.pruned]
    <2>1. entry \in [at : Time \union {-Ttl}, got : SUBSET Row, cut : BOOLEAN, pruned : Nat]
        BY <1>4, <1>19
    <2>2. cache \in [at : Time \union {-Ttl}, got : SUBSET Row, cut : BOOLEAN, pruned : Nat]
        BY DEF ToolsTypeOK
    <2>3. cache' = entry \/ cache' = cache
        BY <1>1
    <2> HIDE DEF entry
    <2> QED
        BY <2>1, <2>2, <2>3
<1> QED
    BY <1>2, <1>7, <1>19, <1>20, <1>21, <1>22

\* A request that fails ends a rollup and leaves a cursor as it was.
LEMMA FailWalkInv ==
    ASSUME ToolsTypeOK, TableInv, WalkInv, WalkFail
    PROVE  WalkInv'
<1>1. /\ rows' = rows /\ table' = table /\ client' = client /\ clock' = clock
      /\ walk' = IF client = "summary" THEN IdleWalk ELSE walk
    BY DEF WalkFail, walkRest
<1>2. CASE client # "summary"
    BY <1>1, <1>2
        DEF WalkInv, WalkUnderWay, WalkOver, MissedBehind, Again, Repeated, Behind, Beyond, Found, Hits
<1>3. CASE client = "summary"
    <2>1. /\ walk'.run = FALSE /\ walk'.start = {} /\ walk'.got = <<>> /\ walk'.at = 0 /\ walk'.shifted = 0
        BY <1>1, <1>3 DEF IdleWalk
    <2>2. Range(walk'.got) = {} /\ Len(walk'.got) = 0
        <3>1. PICK z : z = <<>>
            OBVIOUS
        <3>2. DOMAIN z = {} /\ Len(z) = 0
            BY <3>1
        <3>3. Range(z) = {}
            BY <3>2 DEF Range
        <3> QED
            BY <2>1, <3>1, <3>2, <3>3
    <2>3. Repeated' = 0
        BY <2>2, FS_EmptySet DEF Repeated
    <2>4. 0 <= clock
        BY DEF ToolsTypeOK, Time
    <2> QED
        BY <1>1, <1>3, <2>1, <2>2, <2>3, <2>4 DEF WalkInv, WalkUnderWay, WalkOver
<1> QED
    BY <1>2, <1>3

\* No other step matters to a walk.
LEMMA OtherWalkInv ==
    ASSUME ToolsTypeOK, WalkInv, UNCHANGED <<client, rows, table, walk>>, clock' \in {clock, clock + 1}
    PROVE  WalkInv'
<1>1. walk.at <= clock'
    <2>1. walk.at \in Time /\ clock \in Time
        BY DEF ToolsTypeOK
    <2>2. walk.at \in Nat /\ clock \in Nat
        BY <2>1 DEF Time
    <2>3. walk.at <= clock
        BY DEF WalkInv
    <2> QED
        BY <2>2, <2>3
<1> QED
    BY <1>1 DEF WalkInv, WalkUnderWay, WalkOver, MissedBehind, Again, Repeated, Behind, Beyond, Found, Hits

-----------------------------------------------------------------------------
(* The cached summary.                                                     *)

LEMMA CacheClock ==
    ASSUME ToolsTypeOK, CacheInv
    PROVE  clock \in Nat /\ cache.at \in Int /\ cache.at <= clock /\ cache.pruned \in Nat /\ Ttl \in Nat
<1>1. Ttl \in Nat /\ Ttl \in Int /\ -Ttl \in Int
    BY McpToolsAssumption
<1>2. /\ clock \in Time
      /\ cache \in [at : Time \union {-Ttl}, got : SUBSET Row, cut : BOOLEAN, pruned : Nat]
    BY DEF ToolsTypeOK
<1>3. cache.at \in Time \union {-Ttl} /\ cache.pruned \in Nat
    BY <1>2
<1>4. clock \in Nat /\ cache.at \in Int
    BY <1>1, <1>2, <1>3 DEF Time
<1> QED
    BY <1>1, <1>3, <1>4 DEF CacheInv

\* A new row is as old as the entry at most; the others are as they were.
LEMMA CommitCacheInv ==
    ASSUME ToolsTypeOK, TableInv, CacheInv, NEW ts \in Time, NEW hit \in BOOLEAN, CommitRow(ts, hit)
    PROVE  CacheInv'
<1> DEFINE id == NewId
<1>1. /\ id \notin DOMAIN rows /\ DOMAIN rows' = DOMAIN rows \union {id}
      /\ \A r \in DOMAIN rows : rows'[r] = rows[r]
      /\ rows'[id] = [ts |-> ts, born |-> clock, hit |-> hit]
    <2>1. Committed(ts, hit, Upto(ts), After(ts), NewId)
        BY CommitTable
    <2> QED
        BY <2>1 DEF Committed
<1>2. cache' = cache /\ clock' = clock
    BY DEF CommitRow, tools
<1>3. Range(table') \subseteq Range(table) \union {id} /\ Range(table) \subseteq DOMAIN rows
    <2> DEFINE a == Upto(ts)
               b == After(ts)
               S == DOMAIN rows'
    <2>1. /\ a \in Seq(DOMAIN rows) /\ b \in Seq(DOMAIN rows)
          /\ table = Joined(a, b) /\ table' = Inserted(a, id, b)
        <3>1. Committed(ts, hit, Upto(ts), After(ts), NewId)
            BY CommitTable
        <3> QED
            BY <3>1 DEF Committed
    <2>2. DOMAIN rows \subseteq S /\ id \in S
        BY <1>1
    <2> HIDE DEF S, id, a, b
    <2>3. a \in Seq(S) /\ b \in Seq(S)
        BY <2>1, <2>2, SeqMonotonic
    <2>4. Range(Inserted(a, id, b)) = Range(Joined(a, b)) \union {id}
        BY <2>2, <2>3, PutRange
    <2> QED
        BY <2>1, <2>4, Types
<1>4. CacheMissed' \subseteq CacheMissed
    <2> SUFFICES ASSUME NEW r \in Range(table'), rows'[r].born < cache.at, r \notin cache.got
                 PROVE  r \in CacheMissed
        BY <1>2 DEF CacheMissed
    <2>1. clock \in Nat /\ cache.at \in Int /\ cache.at <= clock
        BY CacheClock
    <2>2. rows'[id].born = clock /\ ~ (clock < cache.at)
        BY <1>1, <2>1
    <2>3. r # id
        BY <2>2
    <2>4. r \in Range(table) /\ rows'[r] = rows[r]
        BY <1>1, <1>3, <2>3
    <2> QED
        BY <2>4 DEF CacheMissed
<1>5. IsFiniteSet(CacheMissed)
    <2>1. CacheMissed \subseteq Range(table)
        BY DEF CacheMissed
    <2> QED
        BY <2>1, WalkSizes, FS_Subset
<1> QED
    <2>1. /\ Cardinality(CacheMissed') <= Cardinality(CacheMissed)
          /\ Cardinality(CacheMissed) \in Nat /\ Cardinality(CacheMissed') \in Nat
        BY <1>4, <1>5, NoMore
    <2>2. cache.pruned \in Nat
        BY DEF ToolsTypeOK
    <2>3. ~cache.cut => Cardinality(CacheMissed') <= cache.pruned
        BY <2>1, <2>2 DEF CacheInv
    <2> QED
        BY <1>2, <2>3 DEF CacheInv

\* What no step but the rollup's and the commit's does is add to what is missed.
LEMMA OtherCacheInv ==
    ASSUME ToolsTypeOK, TableInv, CacheInv, UNCHANGED <<rows, cache>>, Range(table') \subseteq Range(table),
           clock' \in {clock, clock + 1}
    PROVE  CacheInv'
<1>1. CacheMissed' \subseteq CacheMissed
    BY DEF CacheMissed
<1>2. IsFiniteSet(CacheMissed)
    <2>1. CacheMissed \subseteq Range(table)
        BY DEF CacheMissed
    <2> QED
        BY <2>1, WalkSizes, FS_Subset
<1>3. /\ Cardinality(CacheMissed') <= Cardinality(CacheMissed)
      /\ Cardinality(CacheMissed) \in Nat /\ Cardinality(CacheMissed') \in Nat
    BY <1>1, <1>2, NoMore
<1>4. cache.pruned \in Nat /\ cache' = cache
    BY DEF ToolsTypeOK
<1>5. cache.at <= clock'
    <2>1. cache.at \in Int /\ clock \in Nat /\ cache.at <= clock
        BY CacheClock
    <2> QED
        BY <2>1
<1>6. ~cache.cut => Cardinality(CacheMissed') <= cache.pruned
    BY <1>3, <1>4 DEF CacheInv
<1> QED
    BY <1>4, <1>5, <1>6 DEF CacheInv

-----------------------------------------------------------------------------
(* The tail.                                                               *)

\* A row that is committed is late, if the tail is beyond its timestamp.
LEMMA CommitTailInv ==
    ASSUME ToolsTypeOK, TableInv, TailInv, NEW ts \in Time, NEW hit \in BOOLEAN, CommitRow(ts, hit)
    PROVE  TailInv'
<1> DEFINE id == NewId
<1>1. /\ id \notin DOMAIN rows /\ DOMAIN rows' = DOMAIN rows \union {id}
      /\ \A r \in DOMAIN rows : rows'[r] = rows[r]
      /\ rows'[id] = [ts |-> ts, born |-> clock, hit |-> hit]
    <2>1. Committed(ts, hit, Upto(ts), After(ts), NewId)
        BY CommitTable
    <2> QED
        BY <2>1 DEF Committed
<1>2. /\ follow' = follow /\ client' = client
      /\ late' = IF ts < follow.latest THEN late \union {id} ELSE late
    BY DEF CommitRow, NewId
<1>3. Range(table') \subseteq Range(table) \union {id} /\ Range(table) \subseteq DOMAIN rows
    <2> DEFINE a == Upto(ts)
               b == After(ts)
               S == DOMAIN rows'
    <2>1. /\ a \in Seq(DOMAIN rows) /\ b \in Seq(DOMAIN rows)
          /\ table = Joined(a, b) /\ table' = Inserted(a, id, b)
        <3>1. Committed(ts, hit, Upto(ts), After(ts), NewId)
            BY CommitTable
        <3> QED
            BY <3>1 DEF Committed
    <2>2. DOMAIN rows \subseteq S /\ id \in S
        BY <1>1
    <2> HIDE DEF S, id, a, b
    <2>3. a \in Seq(S) /\ b \in Seq(S)
        BY <2>1, <2>2, SeqMonotonic
    <2>4. Range(Inserted(a, id, b)) = Range(Joined(a, b)) \union {id}
        BY <2>2, <2>3, PutRange
    <2> QED
        BY <2>1, <2>4, Types
<1> HIDE DEF id
<1>4. /\ ts \in Nat /\ follow.since \in Nat /\ follow.latest \in Nat
      /\ follow.since <= follow.latest
    BY DEF ToolsTypeOK, Time, TailInv
<1>5. ASSUME client = "tail", NEW r \in Range(table')
      PROVE  /\ rows'[r].ts < follow.latest => r \in follow.seen \union Range(follow.items) \union late'
             /\ rows'[r].ts < follow.since => r \in follow.seen \union late'
    <2>1. CASE r = id
        <3>1. rows'[r].ts = ts
            BY <1>1, <2>1
        <3>2. ts < follow.since => ts < follow.latest
            BY <1>4
        <3> QED
            BY <1>2, <2>1, <3>1, <3>2
    <2>2. CASE r # id
        <3>1. r \in Range(table) /\ rows'[r].ts = Ts(r)
            BY <1>1, <1>3, <2>2 DEF Ts
        <3> QED
            BY <1>2, <1>5, <3>1 DEF TailInv
    <2> QED
        BY <2>1, <2>2
<1>6. client # "tail" => follow.latest = 0
    BY DEF TailInv
<1> QED
    BY <1>2, <1>4, <1>5, <1>6 DEF TailInv, Ts

\* A fetch: the rows it is given are the first of those from where the tail is,
\* so that none before the last of them is left out.
LEMMA FetchTailInv ==
    ASSUME ToolsTypeOK, TableInv, TailInv, TailFetch
    PROVE  /\ TailInv'
           /\ follow' \in [pc : {"idle", "fetch", "wait"}, since : Time, latest : Time,
                           items : Seq(Row), seen : SUBSET Row]
<1> DEFINE K == Hits \intersect Since(follow.latest)
           q == Filter(table, K)
           new == QueryEvents(follow.latest, TailLimit, 0)
           m == IF TailLimit < Len(q) THEN TailLimit ELSE Len(q)
           items == follow.items \o new
           latest == IF new = <<>> THEN follow.latest ELSE Ts(new[Len(new)])
           f == [follow EXCEPT !.items = items, !.latest = latest, !.pc = "wait"]
<1>1. /\ client = "tail" /\ client' = client /\ rows' = rows /\ table' = table /\ late' = late
      /\ follow' = f \/ follow' = Answered(f)
    BY DEF TailFetch, Fetched, tailRest
<1>2. /\ follow \in [pc : {"idle", "fetch", "wait"}, since : Time, latest : Time,
                     items : Seq(Row), seen : SUBSET Row]
      /\ follow.since \in Nat /\ follow.latest \in Nat
    BY DEF ToolsTypeOK, Time
<1>3. table \in Seq(DOMAIN rows) /\ Range(table) \subseteq DOMAIN rows /\ Pairwise(table, Order)
    BY Types DEF TableInv
<1>4. q \in Seq(DOMAIN rows) /\ Range(q) = Range(table) \intersect K /\ Pairwise(q, Order)
    BY <1>3, FilterRange, FilterPairwise
<1>5. new = PageOf(q, 0, TailLimit)
    BY DEF QueryEvents, PageOf, PageEnd
<1>6. TailLimit \in Nat \ {0} /\ Len(q) \in Nat /\ m \in Nat /\ m <= Len(q) /\ (m = Len(q) \/ m # 0)
    BY <1>4, McpToolsAssumption, LenProperties
<1>7. PageEnd(q, 0, TailLimit) = m
    <2>1. 0 + TailLimit = TailLimit
        BY <1>6
    <2> QED
        BY <2>1 DEF PageEnd
<1> HIDE DEF K, q, new, m, items, latest, f
<1>8. /\ new \in Seq(DOMAIN rows) /\ Len(new) = m
      /\ \A i \in 1..m : new[i] = q[i]
    <2>1. \A i \in 1..m : q[i] \in DOMAIN rows
        BY <1>4, <1>6, ElementOfSeq
    <2>2. new = SubSeq(q, 0 + 1, m)
        BY <1>5, <1>7 DEF PageOf
    <2>3. new = SubSeq(q, 1, m)
        BY <2>2
    <2>4. /\ new \in Seq(DOMAIN rows)
          /\ Len(new) = IF 1 <= m THEN m - 1 + 1 ELSE 0
          /\ \A i \in 1..(m - 1 + 1) : new[i] = q[1 + i - 1]
        BY <1>6, <2>1, <2>3, SubSeqProperties
    <2>5. m - 1 + 1 = m /\ \A i \in 1..m : 1 + i - 1 = i
        BY <1>6
    <2>6. Len(new) = m
        BY <1>6, <2>4, <2>5
    <2> QED
        BY <2>4, <2>5, <2>6
<1>9. DOMAIN q = 1..Len(q) /\ DOMAIN new = 1..m
    BY <1>4, <1>8, LenProperties
<1>10. new = <<>> <=> m = 0
    BY <1>8, EmptySeq
<1>11. \A r \in DOMAIN rows : Ts(r) \in Time /\ Ts(r) \in Nat
    BY Types DEF Time
<1>12. m # 0 => /\ new[Len(new)] = q[m] /\ m \in 1..Len(q) /\ q[m] \in DOMAIN rows
                /\ follow.latest <= Ts(q[m]) /\ latest = Ts(q[m])
    <2> SUFFICES ASSUME m # 0
                 PROVE  /\ new[Len(new)] = q[m] /\ m \in 1..Len(q) /\ q[m] \in DOMAIN rows
                        /\ follow.latest <= Ts(q[m]) /\ latest = Ts(q[m])
        OBVIOUS
    <2>1. m \in 1..m /\ m \in 1..Len(q)
        BY <1>6
    <2>2. new[Len(new)] = q[m]
        BY <1>8, <2>1
    <2>3. q[m] \in Range(q)
        BY <1>9, <2>1 DEF Range
    <2>4. q[m] \in DOMAIN rows /\ follow.latest <= Ts(q[m])
        BY <1>4, <2>3 DEF K, Since
    <2>5. new # <<>>
        BY <1>10
    <2>6. latest = Ts(new[Len(new)])
        BY <2>5 DEF latest
    <2> QED
        BY <2>1, <2>2, <2>4, <2>6
<1>13. latest \in Time /\ latest \in Nat /\ follow.latest <= latest /\ (m = 0 => latest = follow.latest)
    <2>1. m = 0 => latest = follow.latest
        BY <1>10 DEF latest
    <2> QED
        BY <1>2, <1>11, <1>12, <2>1
<1>14. items \in Seq(Row) /\ Range(items) = Range(follow.items) \union Range(new)
    <2>1. DOMAIN rows \subseteq Row
        BY Types
    <2>2. new \in Seq(Row) /\ follow.items \in Seq(Row)
        BY <1>2, <1>8, <2>1, SeqMonotonic
    <2>3. items = Joined(follow.items, new)
        BY DEF items, Joined
    <2>4. Joined(follow.items, new) \in Seq(Row)
        BY <2>2, JoinedIn
    <2>5. Range(Joined(follow.items, new)) = Range(follow.items) \union Range(new)
        BY <2>2, RangeJoined
    <2> QED
        BY <2>3, <2>4, <2>5
<1>15. ASSUME NEW r \in Range(table), Ts(r) < latest
       PROVE  r \in follow.seen \union Range(items) \union late
    <2>1. CASE Ts(r) < follow.latest
        BY <1>1, <1>14, <2>1 DEF TailInv
    <2>2. CASE ~ (Ts(r) < follow.latest)
        <3>1. r \in Range(q)
            <4>1. r \in DOMAIN rows /\ follow.latest <= Ts(r)
                BY <1>2, <1>3, <1>11, <2>2
            <4>2. rows[r].hit
                BY <1>1, <4>1 DEF TableInv
            <4> QED
                BY <1>4, <4>1, <4>2 DEF K, Hits, Since
        <3>2. PICK j \in 1..Len(q) : r = q[j]
            BY <1>9, <3>1 DEF Range
        <3>3. m # 0
            BY <1>2, <1>13, <1>15, <2>2
        <3>4. ~ (m < j)
            <4> SUFFICES ASSUME m < j
                         PROVE  FALSE
                OBVIOUS
            <4>1. <<q[m], q[j]>> \in Order
                BY <1>4, <1>12, <3>3 DEF Pairwise
            <4>2. Ts(q[m]) <= Ts(q[j])
                BY <4>1 DEF Order
            <4>3. latest <= Ts(r)
                BY <1>12, <3>2, <3>3, <4>2
            <4>4. r \in DOMAIN rows
                BY <1>3
            <4> DEFINE x == Ts(r)
            <4>5. x \in Nat /\ x < latest /\ latest <= x
                BY <1>11, <1>15, <4>3, <4>4
            <4> HIDE DEF x
            <4> QED
                BY <1>13, <4>5
        <3>5. j \in 1..m
            BY <1>6, <3>4
        <3>6. r \in Range(new)
            BY <1>8, <1>9, <3>2, <3>5 DEF Range
        <3> QED
            BY <1>14, <3>6
    <2> QED
        BY <2>1, <2>2
<1>16. /\ f \in [pc : {"idle", "fetch", "wait"}, since : Time, latest : Time,
                 items : Seq(Row), seen : SUBSET Row]
       /\ f.since = follow.since /\ f.latest = latest /\ f.items = items /\ f.seen = follow.seen
    BY <1>2, <1>13, <1>14 DEF f
<1>17. follow.since <= latest
    BY <1>2, <1>13 DEF TailInv
<1>18. CASE follow' = f
    <2>1. \A r \in Range(table) : Ts(r) < follow.since => r \in follow.seen \union late
        BY <1>1 DEF TailInv
    <2> QED
        BY <1>1, <1>15, <1>16, <1>17, <1>18, <2>1 DEF TailInv, Ts
<1>19. CASE follow' = Answered(f)
    <2>1. /\ follow' \in [pc : {"idle", "fetch", "wait"}, since : Time, latest : Time,
                          items : Seq(Row), seen : SUBSET Row]
          /\ follow'.since = latest /\ follow'.latest = latest /\ follow'.items = items
          /\ follow'.seen = follow.seen \union Range(items)
        <3>1. Range(items) \subseteq Row
            BY <1>14, RangeOfSeq
        <3> QED
            BY <1>16, <1>19, <3>1 DEF Answered
    <2>2. latest <= latest
        BY <1>13
    <2> QED
        BY <1>1, <1>15, <2>1, <2>2 DEF TailInv, Ts
<1> QED
    BY <1>1, <1>16, <1>18, <1>19

\* The tail's other steps, and those that are not the tail's.
LEMMA CallTailInv ==
    ASSUME ToolsTypeOK, TailInv, TailCall
    PROVE  TailInv'
<1>1. /\ client = "tail" /\ client' = client /\ rows' = rows /\ table' = table /\ late' = late
      /\ follow' = [follow EXCEPT !.pc = "fetch", !.latest = follow.since, !.items = <<>>]
    BY DEF TailCall, tailRest
<1>2. follow'.since = follow.since /\ follow'.latest = follow.since /\ follow'.seen = follow.seen
    BY <1>1 DEF ToolsTypeOK
<1>3. follow.since <= follow.since
    BY DEF ToolsTypeOK, Time
<1>4. \A r \in Range(table) : Ts(r) < follow.since => r \in follow.seen \union late
    BY <1>1 DEF TailInv
<1> QED
    BY <1>1, <1>2, <1>3, <1>4 DEF TailInv, Ts

LEMMA FailTailInv ==
    ASSUME ToolsTypeOK, TailInv, TailFail
    PROVE  TailInv'
<1>1. /\ client' = client /\ rows' = rows /\ table' = table /\ late' = late
      /\ follow' = [follow EXCEPT !.pc = "idle", !.latest = follow.since, !.items = <<>>]
    BY DEF TailFail, tailRest
<1>2. follow'.since = follow.since /\ follow'.latest = follow.since /\ follow'.seen = follow.seen
    BY <1>1 DEF ToolsTypeOK
<1>3. follow.since <= follow.since /\ follow.since \in Nat
    BY DEF ToolsTypeOK, Time
<1>4. client = "tail" => \A r \in Range(table) : Ts(r) < follow.since => r \in follow.seen \union late
    BY DEF TailInv
<1>5. client # "tail" => follow.since = 0
    <2>1. client # "tail" => follow.latest = 0 /\ follow.since <= follow.latest
        BY DEF TailInv
    <2> QED
        BY <1>3, <2>1
<1> QED
    BY <1>1, <1>2, <1>3, <1>4, <1>5 DEF TailInv, Ts

LEMMA AgainTailInv ==
    ASSUME ToolsTypeOK, TailInv, TailAgain
    PROVE  TailInv'
<1>1. /\ client' = client /\ rows' = rows /\ table' = table /\ late' = late
      /\ follow' = [follow EXCEPT !.pc = "fetch"]
    BY DEF TailAgain, tailRest
<1>2. /\ follow'.since = follow.since /\ follow'.latest = follow.latest /\ follow'.seen = follow.seen
      /\ follow'.items = follow.items
    BY <1>1 DEF ToolsTypeOK
<1> QED
    BY <1>1, <1>2 DEF TailInv, Ts

LEMMA DeadlineTailInv ==
    ASSUME ToolsTypeOK, TailInv, TailDeadline
    PROVE  TailInv'
<1>1. /\ client' = client /\ rows' = rows /\ table' = table /\ late' = late
      /\ follow' = Answered(follow)
    BY DEF TailDeadline, tailRest
<1>2. /\ follow'.since = follow.latest /\ follow'.latest = follow.latest /\ follow'.items = follow.items
      /\ follow'.seen = follow.seen \union Range(follow.items)
    BY <1>1 DEF ToolsTypeOK, Answered
<1>3. follow.latest <= follow.latest
    BY DEF ToolsTypeOK, Time
<1> QED
    BY <1>1, <1>2, <1>3 DEF TailInv, Ts

LEMMA OtherTailInv ==
    ASSUME TailInv, UNCHANGED <<client, rows, follow, late>>, Range(table') \subseteq Range(table)
    PROVE  TailInv'
BY DEF TailInv, Ts

-----------------------------------------------------------------------------
(* The export.                                                             *)

\* The lines written are those of the snapshot so far, after the header.
LEMMA SentMore ==
    ASSUME NEW S, NEW q \in Seq(S), NEW h \in Seq(S), NEW n \in Nat, n < Len(q)
    PROVE  Append(h \o SubSeq(q, 1, n), q[n + 1]) = h \o SubSeq(q, 1, n + 1)
BY SMTT(30)

ExportType == [pc : {"idle", "header", "rows", "done", "failed"}, format : Format,
               snap : Seq(Row), sent : Nat, file : Seq(Row \union {Header}), count : Nat]

LEMMA OpenStep ==
    ASSUME NEW format \in Format, ExportOpen(format)
    PROVE  ExportInv' /\ export' \in ExportType
<1>1. export' = [pc |-> "header", format |-> format, snap |-> <<>>, sent |-> 0, file |-> <<>>, count |-> 0]
    BY DEF ExportOpen, IdleExport
<1>2. PICK z : z = <<>>
    OBVIOUS
<1>3. z \in Seq(Row) /\ z \in Seq(Row \union {Header})
    BY <1>2, EmptySeq
<1>4. export' = [pc |-> "header", format |-> format, snap |-> z, sent |-> 0, file |-> z, count |-> 0]
    BY <1>1, <1>2
<1>5. export' \in ExportType
    BY <1>3, <1>4 DEF ExportType
<1>6. export'.pc = "header" /\ export'.sent = 0
    BY <1>4
<1> QED
    BY <1>5, <1>6 DEF ExportInv, ExportIsOneMoment

LEMMA HeaderIn ==
    /\ HeaderLines \in Seq(Row \union {Header})
    /\ Len(HeaderLines) = IF export.format = "csv" THEN 1 ELSE 0
<1>1. CASE export.format = "csv"
    <2>1. HeaderLines = <<Header>>
        BY <1>1 DEF HeaderLines
    <2>2. <<Header>> \in Seq(Row \union {Header}) /\ Len(<<Header>>) = 1
        OBVIOUS
    <2> QED
        BY <1>1, <2>1, <2>2
<1>2. CASE export.format # "csv"
    <2>1. HeaderLines = <<>>
        BY <1>2 DEF HeaderLines
    <2>2. <<>> \in Seq(Row \union {Header}) /\ Len(<<>>) = 0
        OBVIOUS
    <2> QED
        BY <1>2, <2>1, <2>2
<1> QED
    BY <1>1, <1>2

LEMMA HeaderStep ==
    ASSUME ToolsTypeOK, TableInv, ExportInv, ExportHeader
    PROVE  ExportInv' /\ export' \in ExportType
<1> DEFINE h == HeaderLines
           c == IF export.format = "csv" THEN 1 ELSE 0
           q == Found(table)
<1>1. export' = [export EXCEPT !.pc = "rows", !.snap = q, !.file = h, !.count = c]
      /\ export.pc = "header"
    BY DEF ExportHeader, Snapshot, HeaderLines
<1>2. export \in ExportType
    BY DEF ToolsTypeOK, ExportType
<1>3. q \in Seq(Row)
    <2>1. DOMAIN rows \subseteq Row /\ q \in Seq(DOMAIN rows)
        BY Types, WalkSizes
    <2> HIDE DEF q
    <2> QED
        BY <2>1, SeqMonotonic
<1>4. h \in Seq(Row \union {Header}) /\ Len(h) = c /\ c \in Nat
    BY HeaderIn
<1> HIDE DEF h, q, c
<1>5. /\ export' \in ExportType
      /\ export'.pc = "rows" /\ export'.format = export.format /\ export'.sent = export.sent
      /\ export'.snap = q /\ export'.file = h /\ export'.count = c
    BY <1>1, <1>2, <1>3, <1>4 DEF ExportType
<1>6. HeaderLines' = h
    BY <1>5 DEF HeaderLines, h
<1>7. export.sent = 0
    BY <1>1 DEF ExportInv
<1>8. Len(q) \in Nat /\ h \o SubSeq(q, 1, 0) = h /\ c = Len(h) + 0
    BY <1>3, <1>4
<1>9. /\ export'.sent <= Len(export'.snap)
      /\ export'.file = HeaderLines' \o SubSeq(export'.snap, 1, export'.sent)
      /\ export'.count = Len(HeaderLines') + export'.sent
    BY <1>5, <1>6, <1>7, <1>8
<1> QED
    BY <1>5, <1>9 DEF ExportInv, ExportIsOneMoment

LEMMA LineStep ==
    ASSUME ToolsTypeOK, ExportInv, ExportLine
    PROVE  ExportInv' /\ export' \in ExportType
<1> DEFINE h == HeaderLines
           q == export.snap
           n == export.sent
<1>1. /\ export.pc = "rows" /\ n < Len(q)
      /\ export' = [export EXCEPT !.sent = n + 1, !.count = export.count + 1, !.file = Append(export.file, q[n + 1])]
    BY DEF ExportLine, Line
<1>2. /\ export \in ExportType /\ q \in Seq(Row) /\ n \in Nat
      /\ export.file \in Seq(Row \union {Header}) /\ export.count \in Nat
    BY DEF ToolsTypeOK, ExportType
<1>3. h \in Seq(Row \union {Header}) /\ Len(h) \in Nat
    BY HeaderIn
<1>4. export.file = h \o SubSeq(q, 1, n) /\ export.count = Len(h) + n
    BY <1>1 DEF ExportInv
<1> HIDE DEF h, q, n
<1>5. q \in Seq(Row \union {Header}) /\ q[n + 1] \in Row \union {Header} /\ Len(q) \in Nat
    <2>1. q \in Seq(Row \union {Header})
        BY <1>2, SeqMonotonic
    <2>2. n + 1 \in 1..Len(q) /\ Len(q) \in Nat
        BY <1>1, <1>2, LenProperties
    <2> QED
        BY <2>1, <2>2, ElementOfSeq
<1>6. Append(export.file, q[n + 1]) = h \o SubSeq(q, 1, n + 1)
    BY <1>1, <1>2, <1>3, <1>4, <1>5, SentMore
<1>7. Append(export.file, q[n + 1]) \in Seq(Row \union {Header})
    BY <1>2, <1>5, AppendProperties
<1> DEFINE g == Append(export.file, q[n + 1])
<1> HIDE DEF g
<1>8. g \in Seq(Row \union {Header}) /\ g = h \o SubSeq(q, 1, n + 1)
      /\ export' = [export EXCEPT !.sent = n + 1, !.count = export.count + 1, !.file = g]
    BY <1>1, <1>6, <1>7 DEF g
<1>9. /\ export' \in ExportType
      /\ export'.pc = "rows" /\ export'.format = export.format /\ export'.sent = n + 1
      /\ export'.snap = q /\ export'.file = g /\ export'.count = export.count + 1
    <2>1. export.pc = "rows"
        BY <1>1
    <2>2. export' = [export EXCEPT !.sent = n + 1, !.count = export.count + 1, !.file = g]
        BY <1>8
    <2>3. g \in Seq(Row \union {Header})
        BY <1>8
    <2>4. export' \in ExportType
        <3> DEFINE m == n + 1
                   c == export.count + 1
        <3>1. export' = [export EXCEPT !.sent = m, !.count = c, !.file = g] /\ m \in Nat /\ c \in Nat
            BY <1>2, <2>2
        <3>2. export \in ExportType
            BY <1>2
        <3> HIDE DEF m, c
        <3> QED
            BY <2>3, <3>1, <3>2 DEF ExportType
    <2> QED
        BY <1>2, <2>1, <2>2, <2>4 DEF ExportType, q
<1>10. HeaderLines' = h
    BY <1>9 DEF HeaderLines, h
<1>11. n + 1 <= Len(q) /\ export.count + 1 = Len(h) + (n + 1)
    BY <1>1, <1>2, <1>3, <1>4, <1>5, SMTT(30)
<1>12. /\ export'.sent <= Len(export'.snap)
       /\ export'.file = HeaderLines' \o SubSeq(export'.snap, 1, export'.sent)
       /\ export'.count = Len(HeaderLines') + export'.sent
    BY <1>8, <1>9, <1>10, <1>11
<1> QED
    BY <1>9, <1>12 DEF ExportInv, ExportIsOneMoment

LEMMA DoneStep ==
    ASSUME ToolsTypeOK, ExportInv, ExportDone
    PROVE  ExportInv' /\ export' \in ExportType
<1> DEFINE h == HeaderLines
           q == export.snap
           n == export.sent
           c == IF export.format = "csv" /\ export.count > 0 THEN export.count - 1 ELSE export.count
<1>1. export.pc = "rows" /\ n >= Len(q) /\ export' = [export EXCEPT !.pc = "done", !.count = c]
    BY DEF ExportDone
<1>2. /\ export \in ExportType /\ q \in Seq(Row) /\ n \in Nat /\ export.count \in Nat
    BY DEF ToolsTypeOK, ExportType
<1>3. Len(h) = IF export.format = "csv" THEN 1 ELSE 0
    BY DEF HeaderLines
<1>4. n <= Len(q) /\ export.file = h \o SubSeq(q, 1, n) /\ export.count = Len(h) + n
    BY <1>1 DEF ExportInv
<1> HIDE DEF h, q, n
<1>5. n = Len(q)
    BY <1>1, <1>2, <1>4, LenProperties
<1>6. c \in Nat /\ c = n
    BY <1>2, <1>3, <1>4
<1>7. SubSeq(q, 1, n) = q
    BY <1>2, <1>5
<1> HIDE DEF c
<1>8. /\ export' \in ExportType
      /\ export'.pc = "done" /\ export'.format = export.format
      /\ export'.snap = q /\ export'.file = export.file /\ export'.count = c
    BY <1>1, <1>2, <1>6 DEF ExportType, q
<1>9. export'.file = (IF export'.format = "csv" THEN <<Header>> ELSE <<>>) \o export'.snap
    BY <1>4, <1>7, <1>8 DEF h, HeaderLines
<1>10. export'.count = Len(export'.snap)
    BY <1>5, <1>6, <1>8
<1> QED
    BY <1>8, <1>9, <1>10 DEF ExportInv, ExportIsOneMoment

LEMMA ExportFailStep ==
    ASSUME ToolsTypeOK, ExportInv, ExportFail
    PROVE  ExportInv' /\ export' \in ExportType
<1>1. export' = [export EXCEPT !.pc = "failed"] /\ export \in ExportType
    BY DEF ExportFail, ToolsTypeOK, ExportType
<1>2. export' \in ExportType /\ export'.pc = "failed"
    BY <1>1 DEF ExportType
<1> QED
    BY <1>2 DEF ExportInv, ExportIsOneMoment

-----------------------------------------------------------------------------
(* The types, and all of it together.                                      *)

WalkType == [run : BOOLEAN, offset : Nat, got : Seq(Row), start : SUBSET Row, at : Time,
             shifted : Nat, pruned : Nat]
CacheType == [at : Time \union {-Ttl}, got : SUBSET Row, cut : BOOLEAN, pruned : Nat]
FollowType == [pc : {"idle", "fetch", "wait"}, since : Time, latest : Time,
               items : Seq(Row), seen : SUBSET Row]
RowType == [ts : Time, born : Time, hit : BOOLEAN]

\* The type invariant, one variable at a time.
LEMMA TypesByName ==
    ToolsTypeOK <=> /\ client \in Client /\ clock \in Time
                    /\ rows \in Seq(RowType) /\ Len(rows) <= MaxRows
                    /\ table \in Seq(1..Len(rows))
                    /\ walk \in WalkType /\ cache \in CacheType /\ follow \in FollowType
                    /\ late \subseteq Row
                    /\ export \in ExportType
                    /\ fails \in 0..MaxFails
BY DEF ToolsTypeOK, WalkType, CacheType, FollowType, RowType, ExportType

\* Initially all is empty.
LEMMA InitToolsInv ==
    ToolsInit => ToolsInv
<1> SUFFICES ASSUME ToolsInit
             PROVE  ToolsInv
    OBVIOUS
<1>1. PICK z : z = <<>>
    OBVIOUS
<1>2. /\ z \in Seq(Row) /\ z \in Seq(Row \union {Header}) /\ z \in Seq(RowType) /\ z \in Seq(1..Len(z))
      /\ Len(z) = 0 /\ DOMAIN z = {} /\ Range(z) = {}
    <2>1. Len(z) = 0 /\ DOMAIN z = {}
        BY <1>1
    <2>2. Range(z) = {}
        BY <2>1 DEF Range
    <2> QED
        BY <1>1, <2>1, <2>2, EmptySeq
<1>3. /\ client \in Client /\ clock = 1 /\ rows = z /\ table = z /\ late = {} /\ fails = 0
      /\ walk = [run |-> FALSE, offset |-> 0, got |-> z, start |-> {}, at |-> 0, shifted |-> 0, pruned |-> 0]
      /\ cache = [at |-> -Ttl, got |-> {}, cut |-> FALSE, pruned |-> 0]
      /\ follow = [pc |-> "idle", since |-> 0, latest |-> 0, items |-> z, seen |-> {}]
      /\ export = [pc |-> "idle", format |-> "csv", snap |-> z, sent |-> 0, file |-> z, count |-> 0]
    BY <1>1 DEF ToolsInit, IdleWalk, NoEntry, IdleExport
<1>4. 0 \in Time /\ MaxRows \in Nat /\ MaxFails \in Nat /\ Ttl \in Nat /\ -Ttl \in Int /\ -Ttl <= 1
    BY McpToolsAssumption DEF Time
<1>5. /\ walk \in WalkType /\ cache \in CacheType /\ follow \in FollowType /\ export \in ExportType
    BY <1>2, <1>3, <1>4 DEF WalkType, CacheType, FollowType, ExportType, Format
<1>6. ToolsTypeOK
    <2>1. 1 \in Time /\ 0 \in 0..MaxFails /\ 0 <= MaxRows
        BY <1>4, McpToolsAssumption DEF Time
    <2> QED
        BY <1>2, <1>3, <1>5, <2>1, TypesByName
<1>7. TableInv
    BY <1>2, <1>3 DEF TableInv, Pairwise
<1>8. WalkInv
    <2>1. walk.run = FALSE /\ walk.start = {} /\ walk.got = z /\ walk.at = 0 /\ walk.shifted = 0 /\ walk.pruned = 0
        BY <1>3
    <2>2. Repeated = 0
        BY <1>2, <2>1, FS_EmptySet DEF Repeated
    <2>3. Cardinality((walk.start \intersect Range(table)) \ Range(walk.got)) = 0
        <3>1. (walk.start \intersect Range(table)) \ Range(walk.got) = {}
            BY <2>1
        <3> QED
            BY <3>1, FS_EmptySet
    <2> QED
        BY <1>2, <1>3, <2>1, <2>2, <2>3 DEF WalkInv, WalkUnderWay, WalkOver
<1>9. CacheInv
    <2>1. CacheMissed = {}
        BY <1>2, <1>3 DEF CacheMissed
    <2>2. cache.at <= clock /\ cache.pruned = 0
        BY <1>3, <1>4
    <2> QED
        BY <2>1, <2>2, FS_EmptySet DEF CacheInv
<1>10. TailInv
    BY <1>2, <1>3 DEF TailInv
<1>11. ExportInv
    BY <1>3 DEF ExportInv, ExportIsOneMoment
<1> QED
    BY <1>6, <1>7, <1>8, <1>9, <1>10, <1>11 DEF ToolsInv

\* Every step keeps the types.
LEMMA ToolsTypeStep ==
    ASSUME ToolsInv, [ToolsNext]_toolsVars
    PROVE  ToolsTypeOK'
<1>0. ToolsTypeOK /\ TableInv /\ WalkInv /\ CacheInv /\ TailInv /\ ExportInv
    BY DEF ToolsInv
<1> DEFINE New == /\ client' \in Client /\ clock' \in Time
                  /\ rows' \in Seq(RowType) /\ Len(rows') <= MaxRows
                  /\ table' \in Seq(1..Len(rows'))
                  /\ walk' \in WalkType /\ cache' \in CacheType /\ follow' \in FollowType
                  /\ late' \subseteq Row
                  /\ export' \in ExportType
                  /\ fails' \in 0..MaxFails
<1> SUFFICES New
    BY DEF ToolsTypeOK, WalkType, CacheType, FollowType, RowType, ExportType
<1>1. /\ client \in Client /\ clock \in Time
      /\ rows \in Seq(RowType) /\ Len(rows) <= MaxRows
      /\ table \in Seq(1..Len(rows))
      /\ walk \in WalkType /\ cache \in CacheType /\ follow \in FollowType
      /\ late \subseteq Row
      /\ export \in ExportType
      /\ fails \in 0..MaxFails
    BY <1>0, TypesByName
<1>2. MaxRows \in Nat /\ MaxClock \in Nat /\ MaxFails \in Nat /\ clock \in Nat /\ fails \in Nat /\ Len(rows) \in Nat
    BY <1>1, McpToolsAssumption, LenProperties DEF Time
<1>3. fails < MaxFails => fails + 1 \in 0..MaxFails
    BY <1>2
<1>4. CASE UNCHANGED toolsVars
    BY <1>1, <1>4 DEF toolsVars
<1>5. CASE Tick
    <2>1. clock' = clock + 1 /\ clock + 1 \in Time
        BY <1>2, <1>5 DEF Tick, Time
    <2> QED
        BY <1>1, <1>5, <2>1 DEF Tick, tools
<1>6. ASSUME NEW t \in Time, Prune(t)
      PROVE  New
    <2>1. table' \in Seq(1..Len(rows))
        BY <1>1, <1>6, FilterRange DEF Prune
    <2>2. walk' \in WalkType
        <3>1. walk'.pruned \in Nat
            BY <1>0, <1>6, PruneWalkInv
        <3>2. \E n : walk' = [walk EXCEPT !.pruned = n]
            BY <1>6 DEF Prune
        <3> QED
            BY <1>1, <3>1, <3>2 DEF WalkType
    <2> QED
        BY <1>1, <1>6, <2>1, <2>2 DEF Prune, tools
<1>7. ASSUME NEW ts \in Time, NEW hit \in BOOLEAN, CommitRow(ts, hit)
      PROVE  New
    <2> DEFINE new == [ts |-> ts, born |-> clock, hit |-> hit]
               id == Len(rows) + 1
    <2>1. new \in RowType /\ rows' = Append(rows, new) /\ id \in Row
        BY <1>1, <1>2, <1>7 DEF RowType, CommitRow, Row
    <2> HIDE DEF new
    <2>2. rows' \in Seq(RowType) /\ Len(rows') = id
        BY <1>1, <2>1, AppendProperties
    <2>3. Len(rows') <= MaxRows
        BY <2>1, <2>2, <1>2 DEF Row
    <2>4. table' \in Seq(1..Len(rows'))
        BY <1>0, <1>7, CommitTableInv
    <2>5. walk' \in WalkType
        <3>1. \E n \in {walk.shifted, walk.shifted + 1} : walk' = [walk EXCEPT !.shifted = n]
            BY <1>7 DEF CommitRow
        <3>2. walk.shifted \in Nat /\ walk.shifted + 1 \in Nat
            BY <1>1 DEF WalkType
        <3> QED
            BY <1>1, <3>1, <3>2 DEF WalkType
    <2>6. late' \subseteq Row
        BY <1>1, <1>7, <2>1 DEF CommitRow
    <2> QED
        BY <1>1, <1>7, <2>2, <2>3, <2>4, <2>5, <2>6 DEF CommitRow, tools
<1>8. CASE WalkStart
    <2>1. walk' \in WalkType
        <3> DEFINE Q == Range(Found(table))
        <3>1. walk' = [IdleWalk EXCEPT !.run = TRUE, !.start = Q, !.at = clock]
            BY <1>8 DEF WalkStart
        <3>2. Q \subseteq Row
            BY <1>0, Types, WalkSizes
        <3> HIDE DEF Q
        <3>3. PICK z : z = <<>>
            OBVIOUS
        <3>4. z \in Seq(Row)
            BY <3>3, EmptySeq
        <3>5. walk' = [run |-> TRUE, offset |-> 0, got |-> z, start |-> Q, at |-> clock, shifted |-> 0, pruned |-> 0]
            BY <3>1, <3>3 DEF IdleWalk
        <3> QED
            BY <1>1, <3>2, <3>4, <3>5 DEF WalkType
    <2> QED
        BY <1>1, <1>8, <2>1 DEF WalkStart, walkRest
<1>9. ASSUME NEW limit \in 0..(MaxPage + 1), Page(limit)
      PROVE  New
    <2>1. limit \in Nat
        BY McpToolsAssumption
    <2>2. walk'.got \in Seq(Row) /\ walk'.offset \in Nat
        BY <1>0, <1>9, <2>1, PageWalkInv
    <2> DEFINE items == QueryEvents(0, Clamp(limit), walk.offset)
               g == walk.got \o items
               r == Len(items) = Clamp(limit)
               n == walk.offset + Clamp(limit)
    <2>3. walk' = [walk EXCEPT !.got = g, !.run = r, !.offset = n] /\ r \in BOOLEAN
        BY <1>9 DEF Page, OffsetPage
    <2> HIDE DEF g, r, n
    <2>4. walk' \in WalkType
        BY <1>1, <2>2, <2>3 DEF WalkType
    <2> QED
        BY <1>1, <1>9, <2>4 DEF Page, OffsetPage, walkRest
<1>10. CASE RollupPage
    <2>1. walk'.got \in Seq(Row) /\ walk'.offset \in Nat /\ cache' \in CacheType
        BY <1>0, <1>10, RollupInv DEF CacheType
    <2> DEFINE l == IF MaxEvents - Len(walk.got) < PerCall THEN MaxEvents - Len(walk.got) ELSE PerCall
               page == QueryEvents(0, l, walk.offset)
               g == walk.got \o page
               r == ~ (Len(page) < l \/ Len(g) = MaxEvents)
               n == walk.offset + Len(page)
    <2>2. walk' = [walk EXCEPT !.got = g, !.run = r, !.offset = n] /\ r \in BOOLEAN
        BY <1>10 DEF RollupPage, Rollup
    <2> HIDE DEF g, r, n
    <2>3. walk' \in WalkType
        BY <1>1, <2>1, <2>2 DEF WalkType
    <2> QED
        BY <1>1, <1>10, <2>1, <2>3 DEF RollupPage, Rollup, walkRest
<1>11. CASE WalkFail
    <2>1. walk' \in WalkType
        <3>1. PICK z : z = <<>>
            OBVIOUS
        <3>2. z \in Seq(Row)
            BY <3>1, EmptySeq
        <3>3. IdleWalk = [run |-> FALSE, offset |-> 0, got |-> z, start |-> {}, at |-> 0, shifted |-> 0, pruned |-> 0]
            BY <3>1 DEF IdleWalk
        <3>4. 0 \in Time
            BY <1>2 DEF Time
        <3>5. IdleWalk \in WalkType
            BY <3>2, <3>3, <3>4 DEF WalkType
        <3>6. walk' = IdleWalk \/ walk' = walk
            BY <1>11 DEF WalkFail
        <3> QED
            BY <1>1, <3>5, <3>6
    <2> QED
        BY <1>1, <1>3, <1>11, <2>1 DEF WalkFail, walkRest
<1>12. CASE TailCall
    <2>1. follow' \in FollowType
        <3>1. PICK z : z = <<>>
            OBVIOUS
        <3>2. z \in Seq(Row)
            BY <3>1, EmptySeq
        <3>3. follow' = [follow EXCEPT !.pc = "fetch", !.latest = follow.since, !.items = z]
            BY <1>12, <3>1 DEF TailCall
        <3> QED
            BY <1>1, <3>2, <3>3 DEF FollowType
    <2> QED
        BY <1>1, <1>12, <2>1 DEF TailCall, tailRest
<1>13. CASE TailFetch
    <2>1. follow' \in FollowType
        BY <1>0, <1>13, FetchTailInv DEF FollowType
    <2> QED
        BY <1>1, <1>13, <2>1 DEF TailFetch, Fetched, tailRest
<1>14. CASE TailAgain
    <2>1. follow' \in FollowType
        BY <1>1, <1>14 DEF TailAgain, FollowType
    <2> QED
        BY <1>1, <1>14, <2>1 DEF TailAgain, tailRest
<1>15. CASE TailDeadline
    <2>1. follow' \in FollowType
        <3>1. Range(follow.items) \subseteq Row
            BY <1>1, RangeOfSeq DEF FollowType
        <3> QED
            BY <1>1, <1>15, <3>1 DEF TailDeadline, Answered, FollowType
    <2> QED
        BY <1>1, <1>15, <2>1 DEF TailDeadline, tailRest
<1>16. CASE TailFail
    <2>1. follow' \in FollowType
        <3>1. PICK z : z = <<>>
            OBVIOUS
        <3>2. z \in Seq(Row)
            BY <3>1, EmptySeq
        <3>3. follow' = [follow EXCEPT !.pc = "idle", !.latest = follow.since, !.items = z]
            BY <1>16, <3>1 DEF TailFail
        <3> QED
            BY <1>1, <3>2, <3>3 DEF FollowType
    <2> QED
        BY <1>1, <1>3, <1>16, <2>1 DEF TailFail, tailRest
<1>17. ASSUME NEW format \in Format, ExportOpen(format)
       PROVE  New
    <2>1. export' \in ExportType
        BY <1>17, OpenStep
    <2> QED
        BY <1>1, <1>17, <2>1 DEF ExportOpen, exportRest
<1>18. CASE ExportHeader
    <2>1. export' \in ExportType
        BY <1>0, <1>18, HeaderStep
    <2> QED
        BY <1>1, <1>18, <2>1 DEF ExportHeader, exportRest
<1>19. CASE ExportLine
    <2>1. export' \in ExportType
        BY <1>0, <1>19, LineStep
    <2> QED
        BY <1>1, <1>19, <2>1 DEF ExportLine, Line, exportRest
<1>20. CASE ExportDone
    <2>1. export' \in ExportType
        BY <1>0, <1>20, DoneStep
    <2> QED
        BY <1>1, <1>20, <2>1 DEF ExportDone, exportRest
<1>21. CASE ExportFail
    <2>1. export' \in ExportType
        BY <1>0, <1>21, ExportFailStep
    <2> QED
        BY <1>1, <1>3, <1>21, <2>1 DEF ExportFail, exportRest
<1> HIDE DEF New
<1> QED
    BY <1>4, <1>5, <1>6, <1>7, <1>8, <1>9, <1>10, <1>11, <1>12, <1>13, <1>14, <1>15, <1>16, <1>17,
       <1>18, <1>19, <1>20, <1>21 DEF ToolsNext

\* Every step keeps the invariant.
LEMMA ToolsInvStep ==
    ToolsInv /\ [ToolsNext]_toolsVars => ToolsInv'
<1> SUFFICES ASSUME ToolsInv, [ToolsNext]_toolsVars
             PROVE  ToolsInv'
    OBVIOUS
<1>0. ToolsTypeOK /\ TableInv /\ WalkInv /\ CacheInv /\ TailInv /\ ExportInv /\ ToolsTypeOK'
    BY ToolsTypeStep DEF ToolsInv
<1> DEFINE New == TableInv' /\ WalkInv' /\ CacheInv' /\ TailInv' /\ ExportInv'
           ExportKept == UNCHANGED export
           TableKept == UNCHANGED <<client, rows, table>>
<1> SUFFICES New
    BY <1>0 DEF ToolsInv
<1>a. ExportKept => ExportInv'
    BY <1>0 DEF ExportInv, ExportIsOneMoment, HeaderLines
<1>b. TableKept => TableInv'
    BY <1>0, OtherTableInv
<1>c. TableKept /\ UNCHANGED <<walk, clock>> => WalkInv'
    BY <1>0, OtherWalkInv
<1>d. UNCHANGED <<rows, cache, clock>> /\ Range(table') \subseteq Range(table) => CacheInv'
    BY <1>0, OtherCacheInv
<1>e. UNCHANGED <<client, rows, follow, late>> /\ Range(table') \subseteq Range(table) => TailInv'
    BY <1>0, OtherTailInv
<1> HIDE DEF ExportKept, TableKept
<1>4. CASE UNCHANGED toolsVars
    BY <1>4, <1>a, <1>b, <1>c, <1>d, <1>e DEF toolsVars, ExportKept, TableKept
<1>5. CASE Tick
    <2>1. UNCHANGED <<client, rows, table, walk, cache, follow, late, export>> /\ clock' \in {clock, clock + 1}
        BY <1>5 DEF Tick, tools
    <2>2. Range(table') \subseteq Range(table)
        BY <2>1
    <2>3. WalkInv' /\ CacheInv'
        BY <1>0, <2>1, <2>2, OtherWalkInv, OtherCacheInv
    <2> QED
        BY <2>1, <2>2, <2>3, <1>a, <1>b, <1>e DEF ExportKept, TableKept
<1>6. ASSUME NEW t \in Time, Prune(t)
      PROVE  New
    <2>1. UNCHANGED <<client, clock, rows, follow, late, cache, export>>
        BY <1>6 DEF Prune, tools
    <2>2. Range(table') \subseteq Range(table)
        <3> DEFINE a == Filter(table, Before(t))
        <3> QED
            BY <1>0, <1>6, PruneTable
    <2>3. TableInv' /\ WalkInv'
        BY <1>0, <1>6, PruneTableInv, PruneWalkInv
    <2> QED
        BY <2>1, <2>2, <2>3, <1>a, <1>d, <1>e DEF ExportKept
<1>7. ASSUME NEW ts \in Time, NEW hit \in BOOLEAN, CommitRow(ts, hit)
      PROVE  New
    <2>1. TableInv'
        BY <1>0, <1>7, CommitTableInv
    <2>2. WalkInv'
        BY <1>0, <1>7, CommitWalkInv
    <2>3. CacheInv'
        BY <1>0, <1>7, CommitCacheInv
    <2>4. TailInv'
        BY <1>0, <1>7, CommitTailInv
    <2>5. ExportKept
        BY <1>7 DEF CommitRow, tools, ExportKept
    <2> QED
        BY <2>1, <2>2, <2>3, <2>4, <2>5, <1>a
<1>8. CASE WalkStart
    <2>1. UNCHANGED <<client, clock, rows, table, follow, late, export, cache>>
        BY <1>8 DEF WalkStart, walkRest
    <2>2. WalkInv'
        BY <1>0, <1>8, StartWalkInv
    <2> QED
        BY <2>1, <2>2, <1>a, <1>b, <1>d, <1>e DEF ExportKept, TableKept
<1>9. ASSUME NEW limit \in 0..(MaxPage + 1), Page(limit)
      PROVE  New
    <2>1. UNCHANGED <<client, clock, rows, table, follow, late, export, cache>>
        BY <1>9 DEF Page, OffsetPage, walkRest
    <2>2. limit \in Nat
        BY McpToolsAssumption
    <2>3. WalkInv'
        BY <1>0, <1>9, <2>2, PageWalkInv
    <2> QED
        BY <2>1, <2>3, <1>a, <1>b, <1>d, <1>e DEF ExportKept, TableKept
<1>10. CASE RollupPage
    <2>1. UNCHANGED <<client, clock, rows, table, follow, late, export>>
        BY <1>10 DEF RollupPage, Rollup, walkRest
    <2>2. WalkInv' /\ CacheInv'
        BY <1>0, <1>10, RollupInv
    <2> QED
        BY <2>1, <2>2, <1>a, <1>b, <1>e DEF ExportKept, TableKept
<1>11. CASE WalkFail
    <2>1. UNCHANGED <<client, clock, rows, table, follow, late, export, cache>>
        BY <1>11 DEF WalkFail, walkRest
    <2>2. WalkInv'
        BY <1>0, <1>11, FailWalkInv
    <2> QED
        BY <2>1, <2>2, <1>a, <1>b, <1>d, <1>e DEF ExportKept, TableKept
<1>12. CASE TailCall
    <2>1. UNCHANGED tailRest
        BY <1>12 DEF TailCall
    <2>2. TailInv'
        BY <1>0, <1>12, CallTailInv
    <2> QED
        BY <2>1, <2>2, <1>a, <1>b, <1>c, <1>d DEF tailRest, ExportKept, TableKept
<1>13. CASE TailFetch
    <2>1. UNCHANGED tailRest
        BY <1>13 DEF TailFetch, Fetched
    <2>2. TailInv'
        BY <1>0, <1>13, FetchTailInv
    <2> QED
        BY <2>1, <2>2, <1>a, <1>b, <1>c, <1>d DEF tailRest, ExportKept, TableKept
<1>14. CASE TailAgain
    <2>1. UNCHANGED tailRest
        BY <1>14 DEF TailAgain
    <2>2. TailInv'
        BY <1>0, <1>14, AgainTailInv
    <2> QED
        BY <2>1, <2>2, <1>a, <1>b, <1>c, <1>d DEF tailRest, ExportKept, TableKept
<1>15. CASE TailDeadline
    <2>1. UNCHANGED tailRest
        BY <1>15 DEF TailDeadline
    <2>2. TailInv'
        BY <1>0, <1>15, DeadlineTailInv
    <2> QED
        BY <2>1, <2>2, <1>a, <1>b, <1>c, <1>d DEF tailRest, ExportKept, TableKept
<1>16. CASE TailFail
    <2>1. UNCHANGED tailRest
        BY <1>16 DEF TailFail
    <2>2. TailInv'
        BY <1>0, <1>16, FailTailInv
    <2> QED
        BY <2>1, <2>2, <1>a, <1>b, <1>c, <1>d DEF tailRest, ExportKept, TableKept
<1>e1. ASSUME UNCHANGED exportRest, ExportInv'
       PROVE  New
    BY <1>e1, <1>b, <1>c, <1>d, <1>e DEF exportRest, TableKept
<1>17. ASSUME NEW format \in Format, ExportOpen(format)
       PROVE  New
    BY <1>17, <1>e1, OpenStep DEF ExportOpen
<1>18. CASE ExportHeader
    BY <1>0, <1>18, <1>e1, HeaderStep DEF ExportHeader
<1>19. CASE ExportLine
    BY <1>0, <1>19, <1>e1, LineStep DEF ExportLine, Line
<1>20. CASE ExportDone
    BY <1>0, <1>20, <1>e1, DoneStep DEF ExportDone
<1>21. CASE ExportFail
    BY <1>0, <1>21, <1>e1, ExportFailStep DEF ExportFail
<1> HIDE DEF New
<1> QED
    BY <1>4, <1>5, <1>6, <1>7, <1>8, <1>9, <1>10, <1>11, <1>12, <1>13, <1>14, <1>15, <1>16, <1>17,
       <1>18, <1>19, <1>20, <1>21 DEF ToolsNext

\* The invariant holds in every reachable state.
THEOREM ToolsInvHolds == ToolsSpec => []ToolsInv
<1>1. ToolsInit => ToolsInv
    BY InitToolsInv
<1>2. ToolsInv /\ [ToolsNext]_toolsVars => ToolsInv'
    BY ToolsInvStep
<1> QED
    BY <1>1, <1>2, PTL DEF ToolsSpec

\* A walk by offsets misses no more of the rows it began with than the sweep took
\* from the pages behind it, and repeats no more rows than were committed into
\* them, for every size of page and every interleaving (query_events,
\* search_events and the rollup of the resource).
THEOREM WalksAreBounded == ToolsSpec => []WalkIsBounded
<1>1. ToolsInv => WalkIsBounded
    <2> SUFFICES ASSUME ToolsInv
                 PROVE  WalkIsBounded
        OBVIOUS
    <2>1. ToolsTypeOK /\ TableInv /\ WalkUnderWay /\ WalkOver
        BY DEF ToolsInv, WalkInv
    <2>2. walk.shifted \in Nat /\ walk.run \in BOOLEAN /\ Repeated \in Nat /\ Cardinality(Again) \in Nat
        BY <2>1, WalkSizes, FS_CardinalityType
    <2>3. Repeated <= walk.shifted
        BY <2>1, <2>2 DEF WalkUnderWay, WalkOver
    <2> QED
        BY <2>1, <2>3 DEF WalkIsBounded, WalkOver, Repeated
<1> QED
    BY <1>1, ToolsInvHolds, PTL

\* The summary resource never answers from its cache without a row that was in
\* the table Ttl ago, but for those beyond max_events and those the sweep made
\* the rollup step over.
THEOREM CachedSummariesAreFresh == ToolsSpec => []CachedSummaryIsFresh
<1>1. ToolsInv => CachedSummaryIsFresh
    <2> SUFFICES ASSUME ToolsInv, clock - cache.at < Ttl, ~cache.cut
                 PROVE  Cardinality({r \in Range(table) : rows[r].born <= clock - Ttl /\ r \notin cache.got})
                            <= cache.pruned
        BY DEF CachedSummaryIsFresh
    <2> DEFINE D == {r \in Range(table) : rows[r].born <= clock - Ttl /\ r \notin cache.got}
    <2>1. ToolsTypeOK /\ TableInv /\ CacheInv
        BY DEF ToolsInv
    <2>2. /\ clock \in Nat /\ cache.at \in Int /\ cache.at <= clock /\ cache.pruned \in Nat /\ Ttl \in Nat
        BY <2>1, CacheClock
    <2>3. \A r \in Range(table) : rows[r].born \in Nat
        BY <2>1, Types DEF Time
    <2>4. \A r \in Range(table) : rows[r].born <= clock - Ttl => rows[r].born < cache.at
        <3> SUFFICES ASSUME NEW r \in Range(table), rows[r].born <= clock - Ttl
                     PROVE  rows[r].born < cache.at
            OBVIOUS
        <3> DEFINE x == rows[r].born
        <3>1. x \in Nat /\ x <= clock - Ttl
            BY <2>3
        <3> HIDE DEF x
        <3>2. x < cache.at
            BY <2>2, <3>1
        <3> QED
            BY <3>2 DEF x
    <2>5. D \subseteq CacheMissed
        BY <2>4 DEF CacheMissed
    <2>6. IsFiniteSet(CacheMissed)
        <3>1. CacheMissed \subseteq Range(table)
            BY DEF CacheMissed
        <3> QED
            BY <2>1, <3>1, WalkSizes, FS_Subset
    <2> HIDE DEF D
    <2>7. /\ Cardinality(D) <= Cardinality(CacheMissed)
          /\ Cardinality(CacheMissed) \in Nat /\ Cardinality(D) \in Nat
        BY <2>5, <2>6, NoMore
    <2>8. Cardinality(CacheMissed) <= cache.pruned
        BY <2>1 DEF CacheInv
    <2>9. Cardinality(D) <= cache.pruned
        BY <2>2, <2>7, <2>8
    <2> QED
        BY <2>9 DEF D
<1> QED
    BY <1>1, ToolsInvHolds, PTL

\* Whoever passes latest_timestamp back to tail_events has been given every row
\* before it, but for those committed late.
THEOREM TailsMissOnlyLate == ToolsSpec => []TailMissesOnlyLate
<1>1. ToolsInv => TailMissesOnlyLate
    <2> SUFFICES ASSUME ToolsInv, NEW r \in Range(table), Ts(r) < follow.since
                 PROVE  r \in follow.seen \union late
        BY DEF TailMissesOnlyLate
    <2>1. ToolsTypeOK /\ TailInv
        BY DEF ToolsInv
    <2>2. follow.since \in Nat /\ follow.latest \in Nat /\ follow.since <= follow.latest
        BY <2>1 DEF ToolsTypeOK, Time, TailInv
    <2>3. Ts(r) \in Nat
        BY <2>1, Types DEF Time
    <2>4. client = "tail"
        <3> SUFFICES ASSUME client # "tail"
                     PROVE  FALSE
            OBVIOUS
        <3>1. follow.latest = 0
            BY <2>1 DEF TailInv
        <3>2. follow.since = 0
            BY <2>2, <3>1
        <3> QED
            BY <2>3, <3>2
    <2> QED
        BY <2>1, <2>4 DEF TailInv
<1> QED
    BY <1>1, ToolsInvHolds, PTL

\* An export that succeeds is a snapshot of the session, each row once and in
\* order after the header, and it reports their number.
THEOREM ExportsAreOneMoment == ToolsSpec => []ExportIsOneMoment
<1>1. ToolsInv => ExportIsOneMoment
    BY DEF ToolsInv, ExportInv
<1> QED
    BY <1>1, ToolsInvHolds, PTL

-----------------------------------------------------------------------------
(***************************************************************************)
(* The connections of the store, for any number of sessions and request    *)
(* threads and whichever background transactions are slow.                 *)
(***************************************************************************)

\* Between Enter and Return a request thread is inside `with self._lock`.
InLock(r) == pc[r] \in {"execute", "commit"}

\* A create or purge inside the lock has changed memory and not yet the disk.
Working(s) ==
    \E r \in Request : InLock(r) /\ op[r] \in {"create", "purge"} /\ sid[r] = s

MutexInv == \A r \in Request : InLock(r) => lock = r

HolderInv == holder = "shared" => \E r \in Request : pc[r] = "commit"

MemoryAhead ==
    \A r \in Request : InLock(r) =>
        /\ op[r] = "create" => sid[r] \in memory
        /\ op[r] = "purge" => sid[r] \notin memory

Agree == \A s \in Session : s \in raised \/ Working(s) \/ (s \in memory <=> s \in disk)

\* A transaction is open between two requests only after a statement raised.
OpenInv == open => raised # {} \/ \E r \in Request : pc[r] = "commit"

SnapshotInv == snapshot # "none" => raised # {}

MissedInv == \A r \in Request : missed[r] => raised # {}

ConnectionsInv == /\ ConnectionsTypeOK
        /\ MutexInv
        /\ HolderInv
        /\ MemoryAhead
        /\ Agree
        /\ OpenInv
        /\ SnapshotInv
        /\ MissedInv

-----------------------------------------------------------------------------
(* The initial states and the steps of one request thread.                 *)

\* At the start nobody is inside the lock, and memory and disk are empty.
LEMMA InitIInv == ConnectionsInit => ConnectionsInv
<1> SUFFICES ASSUME ConnectionsInit
             PROVE  ConnectionsInv
    OBVIOUS
<1>1. ConnectionsTypeOK
    BY DEF ConnectionsInit, ConnectionsTypeOK, Op
<1>2. \A r \in Request : ~InLock(r) /\ ~missed[r]
    BY DEF ConnectionsInit, InLock
<1>3. MutexInv /\ MemoryAhead /\ MissedInv
    BY <1>2 DEF MutexInv, MemoryAhead, MissedInv
<1>4. HolderInv /\ OpenInv /\ SnapshotInv
    BY ConnectionAssumption DEF ConnectionsInit, HolderInv, OpenInv, SnapshotInv, Connection
<1>5. Agree
    BY DEF ConnectionsInit, Agree
<1> QED
    BY <1>1, <1>3, <1>4, <1>5 DEF ConnectionsInv

\* One thread at a time is inside the lock.
LEMMA Alone ==
    ASSUME ConnectionsInv, NEW r \in Request, NEW q \in Request, InLock(r), InLock(q)
    PROVE  q = r
BY DEF ConnectionsInv, MutexInv

\* A call changes neither memory nor disk, and no thread inside the lock.
LEMMA CallStep ==
    ASSUME ConnectionsInv, NEW r \in Request, NEW o \in Op, NEW s \in Session, Call(r, o, s)
    PROVE  ConnectionsInv'
<1> USE DEF ConnectionsInv, Call, ConnectionsTypeOK
<1>1. ConnectionsTypeOK'
    OBVIOUS
<1>2. \A q \in Request : /\ InLock(q)' <=> InLock(q)
                         /\ InLock(q) => op'[q] = op[q] /\ sid'[q] = sid[q]
                         /\ pc'[q] = "commit" <=> pc[q] = "commit"
    BY DEF InLock
<1>3. MutexInv' /\ HolderInv' /\ OpenInv' /\ SnapshotInv'
    BY <1>2 DEF MutexInv, HolderInv, OpenInv, SnapshotInv
<1>4. MemoryAhead'
    BY <1>2 DEF MemoryAhead
<1>5. Agree'
    BY <1>2 DEF Agree, Working
<1>6. MissedInv'
    BY DEF MissedInv
<1> QED
    BY <1>1, <1>3, <1>4, <1>5, <1>6

\* The thread that enters is the only one inside, and its change of memory is
\* of its own session.
LEMMA EnterStep ==
    ASSUME ConnectionsInv, NEW r \in Request, Enter(r)
    PROVE  ConnectionsInv'
<1> USE DEF ConnectionsInv, Enter
<1>1. ConnectionsTypeOK'
    BY DEF ConnectionsTypeOK, Applied, content, queried
<1>2. \A q \in Request : ~InLock(q)
    BY ConnectionAssumption DEF MutexInv
<1>3. /\ InLock(r)'
      /\ \A q \in Request : q # r => ~InLock(q)'
      /\ \A q \in Request : pc'[q] = "commit" <=> pc[q] = "commit"
    BY <1>2 DEF InLock, ConnectionsTypeOK
<1>4. MutexInv'
    BY <1>3 DEF MutexInv
<1>5. HolderInv' /\ OpenInv'
    BY <1>3 DEF HolderInv, OpenInv
<1>6. MemoryAhead'
    BY <1>3 DEF MemoryAhead, Applied
<1>7. Agree'
    <2> SUFFICES ASSUME NEW s \in Session, s \notin raised, s \in memory' <=> s \notin disk
                 PROVE  Working(s)'
        BY DEF Agree
    <2>1. s \in memory <=> s \in disk
        BY <1>2 DEF Agree, Working
    <2>2. sid[r] = s /\ op[r] \in {"create", "purge"}
        BY <2>1 DEF Applied
    <2> QED
        BY <1>3, <2>2 DEF Working
<1>8. SnapshotInv' /\ MissedInv'
    BY DEF SnapshotInv, MissedInv, queried
<1> QED
    BY <1>1, <1>4, <1>5, <1>6, <1>7, <1>8

\* The thread that gets SQLite's write lock is the one that is about to commit.
LEMMA ExecuteWriteStep ==
    ASSUME ConnectionsInv, NEW r \in Request, ExecuteWrite(r)
    PROVE  ConnectionsInv'
<1> USE DEF ConnectionsInv, ExecuteWrite, content, queried
<1>1. ConnectionsTypeOK'
    BY DEF ConnectionsTypeOK, Connection
<1>2. \A q \in Request : InLock(q)' <=> InLock(q)
    BY DEF InLock, ConnectionsTypeOK
<1>3. pc'[r] = "commit"
    BY DEF ConnectionsTypeOK
<1>4. MutexInv' /\ MemoryAhead'
    BY <1>2 DEF MutexInv, MemoryAhead
<1>5. HolderInv' /\ OpenInv'
    BY <1>3 DEF HolderInv, OpenInv
<1>6. Agree'
    BY <1>2 DEF Agree, Working
<1>7. SnapshotInv' /\ MissedInv'
    BY DEF SnapshotInv, MissedInv
<1> QED
    BY <1>1, <1>4, <1>5, <1>6, <1>7

\* What is left behind, the transaction and the change of memory, is what the
\* answer reports.
LEMMA ExecuteFailStep ==
    ASSUME ConnectionsInv, NEW r \in Request, ExecuteFail(r)
    PROVE  ConnectionsInv'
<1> USE DEF ConnectionsInv, ExecuteFail, Return, content, queried
<1>1. ConnectionsTypeOK'
    BY DEF ConnectionsTypeOK
<1>2. InLock(r) /\ sid[r] \in raised' /\ raised \subseteq raised'
    BY DEF InLock
<1>3. \A q \in Request : ~InLock(q)'
    BY <1>2, Alone DEF InLock, ConnectionsTypeOK
<1>4. MutexInv' /\ MemoryAhead'
    BY <1>3 DEF MutexInv, MemoryAhead
<1>5. HolderInv'
    BY DEF HolderInv, ConnectionsTypeOK
<1>6. Agree'
    <2> SUFFICES ASSUME NEW s \in Session, s \notin raised'
                 PROVE  s \in memory <=> s \in disk
        BY DEF Agree
    <2>1. ~Working(s)
        BY <1>2, Alone DEF Working
    <2> QED
        BY <1>2, <2>1 DEF Agree
<1>7. OpenInv' /\ SnapshotInv' /\ MissedInv'
    BY <1>2 DEF OpenInv, SnapshotInv, MissedInv
<1> QED
    BY <1>1, <1>4, <1>5, <1>6, <1>7

\* The commit brings disk up to memory for the session the thread works on.
LEMMA CommitStep ==
    ASSUME ConnectionsInv, NEW r \in Request, Commit(r)
    PROVE  ConnectionsInv'
<1> USE DEF ConnectionsInv, Commit, Return, queried
<1>1. ConnectionsTypeOK'
    BY DEF ConnectionsTypeOK, Applied
<1>2. InLock(r)
    BY DEF InLock
<1>3. \A q \in Request : ~InLock(q)'
    BY <1>2, Alone DEF InLock, ConnectionsTypeOK
<1>4. MutexInv' /\ MemoryAhead'
    BY <1>3 DEF MutexInv, MemoryAhead
<1>5. HolderInv' /\ OpenInv' /\ SnapshotInv' /\ MissedInv'
    BY ConnectionAssumption DEF HolderInv, OpenInv, SnapshotInv, MissedInv, Connection
<1>6. Agree'
    <2> SUFFICES ASSUME NEW s \in Session, s \notin raised
                 PROVE  s \in memory <=> s \in disk'
        BY DEF Agree
    <2>1. CASE op[r] = "create" /\ s = sid[r]
        BY <1>2, <2>1 DEF MemoryAhead, Applied
    <2>2. CASE op[r] = "purge" /\ s = sid[r]
        BY <1>2, <2>2 DEF MemoryAhead, Applied
    <2>3. CASE op[r] \notin {"create", "purge"} \/ s # sid[r]
        <3>1. ~Working(s)
            BY <1>2, <2>3, Alone DEF Working
        <3>2. s \in disk' <=> s \in disk
            BY <2>3 DEF Applied
        <3> QED
            BY <3>1, <3>2 DEF Agree
    <2> QED
        BY <2>1, <2>2, <2>3
<1> QED
    BY <1>1, <1>4, <1>5, <1>6

\* A query pins a snapshot only in a transaction that a failed statement left.
LEMMA QueryStep ==
    ASSUME ConnectionsInv, NEW r \in Request, Query(r)
    PROVE  ConnectionsInv'
<1> USE DEF ConnectionsInv, Query, Return, content
<1>1. ConnectionsTypeOK'
    BY DEF ConnectionsTypeOK
<1>2. InLock(r) /\ pc[r] # "commit"
    BY DEF InLock
<1>3. \A q \in Request : ~InLock(q)' /\ pc[q] # "commit"
    BY <1>2, Alone DEF InLock, ConnectionsTypeOK
<1>4. MutexInv' /\ MemoryAhead'
    BY <1>3 DEF MutexInv, MemoryAhead
<1>5. HolderInv' /\ OpenInv'
    BY <1>3 DEF HolderInv, OpenInv
<1>6. Agree'
    <2> SUFFICES ASSUME NEW s \in Session, s \notin raised
                 PROVE  s \in memory <=> s \in disk
        BY DEF Agree
    <2>1. ~Working(s)
        BY <1>2, Alone DEF Working
    <2> QED
        BY <2>1 DEF Agree
<1>7. SnapshotInv' /\ MissedInv'
    BY <1>3 DEF SnapshotInv, MissedInv, OpenInv, ConnectionsTypeOK
<1> QED
    BY <1>1, <1>4, <1>5, <1>6, <1>7

\* The writer and the sweeps change the write lock and the age of a snapshot.
LEMMA BackgroundStep ==
    ASSUME ConnectionsInv, NEW c \in Background, Acquire(c) \/ Release(c)
    PROVE  ConnectionsInv'
<1> USE ConnectionAssumption DEF ConnectionsInv, Acquire, Release, request, content, queried, Background,
        Connection
<1>1. ConnectionsTypeOK'
    BY DEF ConnectionsTypeOK
<1>2. \A q \in Request : InLock(q)' <=> InLock(q)
    BY DEF InLock
<1>3. MutexInv' /\ MemoryAhead' /\ HolderInv'
    BY <1>2 DEF MutexInv, MemoryAhead, HolderInv
<1>4. Agree'
    BY <1>2 DEF Agree, Working
<1>5. OpenInv' /\ SnapshotInv' /\ MissedInv'
    BY DEF OpenInv, SnapshotInv, MissedInv
<1> QED
    BY <1>1, <1>3, <1>4, <1>5

\* Every step keeps the invariant.
LEMMA StepIInv == ConnectionsInv /\ [ConnectionsNext]_connectionVars => ConnectionsInv'
<1> SUFFICES ASSUME ConnectionsInv, [ConnectionsNext]_connectionVars
             PROVE  ConnectionsInv'
    OBVIOUS
<1>1. CASE UNCHANGED connectionVars
    BY <1>1 DEF connectionVars, ConnectionsInv, ConnectionsTypeOK, MutexInv, InLock, HolderInv, MemoryAhead, Agree, Working,
       OpenInv, SnapshotInv, MissedInv
<1>2. CASE ConnectionsNext
    BY <1>2, CallStep, EnterStep, ExecuteWriteStep, ExecuteFailStep, CommitStep, QueryStep,
       BackgroundStep DEF ConnectionsNext, Answer
<1> QED
    BY <1>1, <1>2

\* The invariant the theorems rest on.
LEMMA IInvHolds == ConnectionsSpec => []ConnectionsInv
BY InitIInv, StepIInv, PTL DEF ConnectionsSpec

-----------------------------------------------------------------------------
(* Theorems.                                                               *)

\* Every variable keeps its type, and a snapshot is pinned only inside an open
\* transaction of `_conn`.
THEOREM TypeCorrect == ConnectionsSpec => []ConnectionsTypeOK
<1>1. ConnectionsInv => ConnectionsTypeOK
    BY DEF ConnectionsInv
<1> QED
    BY <1>1, IInvHolds, PTL

\* Between two methods of the store `_conn` never holds SQLite's write lock,
\* whichever statements raised.
THEOREM WriteLockIsReturnedHolds == ConnectionsSpec => []WriteLockIsReturned
<1>1. ConnectionsInv => WriteLockIsReturned
    BY DEF ConnectionsInv, HolderInv, WriteLockIsReturned
<1> QED
    BY <1>1, IInvHolds, PTL

\* `_lock` is held by the one thread that is between Enter and Return.
THEOREM MutualExclusion ==
    ConnectionsSpec => [](\A q, r \in Request : InLock(q) /\ InLock(r) => q = r)
<1>1. ConnectionsInv => \A q, r \in Request : InLock(q) /\ InLock(r) => q = r
    BY Alone
<1> QED
    BY <1>1, IInvHolds, PTL

\* Memory, disk and the answers of query_events part only where a request was
\* answered with an error.
THEOREM DivergenceIsReportedHolds == ConnectionsSpec => []DivergenceIsReported
<1>1. ConnectionsInv => DivergenceIsReported
    BY DEF ConnectionsInv, Agree, Working, InLock, MissedInv, DivergenceIsReported
<1> QED
    BY <1>1, IInvHolds, PTL
=============================================================================
