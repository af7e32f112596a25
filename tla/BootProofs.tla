------------------------------ MODULE BootProofs ------------------------------
(***************************************************************************)
(* From any two ELF files to a mounted file system: the kernel that is     *)
(* started is the one that was linked, and a file system is found again    *)
(* whole where the kernel before has left it.                              *)
(***************************************************************************)
EXTENDS Boot, QueueLemmas

-----------------------------------------------------------------------------
(* Induction and recursion over a position *)

\* What holds of 0 and goes on from each position to the next holds of all.
LEMMA Positions ==
  ASSUME NEW n \in Nat, NEW P, 0 \in P, \A i \in 1..n : i - 1 \in P => i \in P
  PROVE  0..n \subseteq P
  <1> SUFFICES ASSUME (0..n) \ P # {} PROVE FALSE
    OBVIOUS
  <1>1. (0..n) \ P \in SUBSET Nat
    OBVIOUS
  <1>2. PICK m \in (0..n) \ P : \A k \in (0..n) \ P : m <= k
    BY <1>1, LeastElement
  <1>3. m \in 1..n /\ m - 1 \in 0..n /\ ~ (m <= m - 1)
    BY <1>2
  <1>4. m - 1 \in P
    BY <1>2, <1>3
  <1>5. QED
    BY <1>2, <1>3, <1>4

\* A loop of n turns over values of S, the i-th of which takes y to F[i][y]; and
\* the values it goes through from x on
IsLoop(F, n, S) == F \in [1..n -> [S -> S]]

IsRun(g, x, F, n, S) ==
  g \in [0..n -> S] /\ g[0] = x /\ \A i \in 1..n : g[i] = F[i][g[i - 1]]

\* Every loop has a run from every value.
LEMMA Turns ==
  ASSUME NEW S, NEW x \in S, NEW n \in Nat, NEW F, IsLoop(F, n, S)
  PROVE  \E g : IsRun(g, x, F, n, S)
  <1> USE DEF IsLoop
  <1> DEFINE Upto(m, g) == g \in [0..m -> S] /\ g[0] = x /\ \A i \in 1..m : g[i] = F[i][g[i - 1]]
             P == {m \in 0..n : \E g : Upto(m, g)}
  <1>1. 0 \in P
    <2>1. Upto(0, [i \in 0..0 |-> x])
      OBVIOUS
    <2> HIDE DEF Upto
    <2>2. 0 \in 0..n /\ \E g : Upto(0, g)
      BY <2>1
    <2>3. QED
      BY <2>2
  <1>2. ASSUME NEW m \in 1..n, m - 1 \in P PROVE m \in P
    <2>1. PICK g : Upto(m - 1, g)
      BY <1>2
    <2>2. g[m - 1] \in S /\ F[m][g[m - 1]] \in S /\ m \in Nat
      BY <2>1
    <2> DEFINE h == [i \in 0..m |-> IF i = m THEN F[m][g[m - 1]] ELSE g[i]]
    <2>3. h[m] = F[m][g[m - 1]] /\ \A i \in 0..(m - 1) : h[i] = g[i]
      OBVIOUS
    <2>4. h \in [0..m -> S]
      BY <2>1, <2>2
    <2> HIDE DEF h
    <2>5. h[0] = x
      BY <2>1, <2>3
    <2>6. ASSUME NEW i \in 1..m PROVE h[i] = F[i][h[i - 1]]
      <3>1. CASE i = m
        BY <2>3, <3>1
      <3>2. CASE i # m
        <4>1. i \in 1..(m - 1) /\ i \in 0..(m - 1) /\ i - 1 \in 0..(m - 1)
          BY <3>2
        <4>2. QED
          BY <2>1, <2>3, <4>1
      <3>3. QED
        BY <3>1, <3>2
    <2>7. Upto(m, h)
      BY <2>4, <2>5, <2>6
    <2> HIDE DEF Upto
    <2>8. QED
      BY <2>7
  <1> HIDE DEF P
  <1>3. 0..n \subseteq P
    BY <1>1, <1>2, Positions
  <1>4. n \in P
    BY <1>3
  <1>5. QED
    BY <1>4 DEF P, IsRun

-----------------------------------------------------------------------------
(* Sequences put together *)

\* Two sequences one after the other, cell by cell
LEMMA Joined ==
  ASSUME NEW S, NEW s \in Seq(S), NEW t \in Seq(S)
  PROVE  /\ s \o t \in Seq(S) /\ Len(s \o t) = Len(s) + Len(t)
         /\ Len(s) \in Nat /\ Len(t) \in Nat
         /\ \A i \in 1..Len(s) : (s \o t)[i] = s[i]
         /\ \A i \in 1..Len(t) : (s \o t)[Len(s) + i] = t[i]
  OBVIOUS

\* Sequences of the same length with the same cells
LEMMA SameCells ==
  ASSUME NEW S, NEW s \in Seq(S), NEW t \in Seq(S), Len(s) = Len(t),
         \A i \in 1..Len(s) : s[i] = t[i]
  PROVE  s = t
  BY SeqEqual

\* n sequences, and what the first i of them are together
Pieces(s, n, S) == s \in [1..n -> Seq(S)]

IsFlat(g, s, n, S) ==
  g \in [0..n -> Seq(S)] /\ g[0] = <<>> /\ \A i \in 1..n : g[i] = g[i - 1] \o s[i]

\* FlattenSeq() joins one sequence after the other.
LEMMA Flattens ==
  ASSUME NEW S, NEW n \in Nat, NEW s, Pieces(s, n, S)
  PROVE  \E g : IsFlat(g, s, n, S) /\ FlattenSeq(s) = g[n]
  <1> USE DEF Pieces
  <1> DEFINE F == [i \in 1..n |-> [t \in Seq(S) |-> t \o s[i]]]
  <1>1. F \in [1..n -> [Seq(S) -> Seq(S)]] /\ <<>> \in Seq(S)
    OBVIOUS
  <1>2. PICK g \in [0..n -> Seq(S)] : g[0] = <<>> /\ \A i \in 1..n : g[i] = F[i][g[i - 1]]
    <2>1. PICK T, H, x : T = Seq(S) /\ H = F /\ x = <<>>
      OBVIOUS
    <2>2. x \in T /\ IsLoop(H, n, T)
      BY <1>1, <2>1 DEF IsLoop
    <2>3. PICK g : IsRun(g, x, H, n, T)
      BY <2>2, Turns
    <2>4. QED
      BY <2>1, <2>3 DEF IsRun
  <1>3. ASSUME NEW i \in 1..n
        PROVE  i - 1 \in 0..n /\ g[i - 1] \in Seq(S) /\ g[i] = g[i - 1] \o s[i]
    <2>1. i - 1 \in 0..n
      OBVIOUS
    <2>2. g[i - 1] \in Seq(S)
      BY <1>2, <2>1
    <2>3. F[i][g[i - 1]] = g[i - 1] \o s[i]
      BY <2>2
    <2>4. QED
      BY <1>2, <2>1, <2>2, <2>3
  <1> HIDE DEF F
  <1>4. Len(s) = n /\ s \in Seq(Seq(S))
    OBVIOUS
  <1>5. FlattenSeq(s) = g[n]
    <2>1. CASE n = 0
      <3>1. s = <<>>
        BY <1>4, <2>1
      <3>2. QED
        BY <1>2, <1>4, <2>1, <3>1 DEF FlattenSeq
    <2>2. CASE n # 0
      <3> DEFINE Is(h) == h = [i \in 1..n |-> IF i = 1 THEN s[i] ELSE h[i - 1] \o s[i]]
                 h == CHOOSE k : Is(k)
                 g1 == [i \in 1..n |-> g[i]]
      <3>1. g[1] = s[1]
        <4>1. 1 \in 1..n /\ 1 - 1 = 0
          BY <2>2
        <4>2. s[1] \in Seq(S) /\ g[1] = g[0] \o s[1]
          BY <1>3, <4>1
        <4>3. QED
          BY <1>2, <4>2
      <3>2. Is(g1)
        <4>1. ASSUME NEW i \in 1..n
              PROVE  g1[i] = IF i = 1 THEN s[i] ELSE g1[i - 1] \o s[i]
          <5>1. g1[i] = g[i]
            OBVIOUS
          <5>2. CASE i = 1
            BY <3>1, <5>1, <5>2
          <5>3. CASE i # 1
            <6>1. i - 1 \in 1..n
              BY <5>3
            <6>2. g1[i - 1] = g[i - 1]
              BY <6>1
            <6>3. QED
              BY <1>3, <5>1, <5>3, <6>2
          <5>4. QED
            BY <5>2, <5>3
        <4>2. g1 = [i \in 1..n |-> g1[i]]
          OBVIOUS
        <4> HIDE DEF g1
        <4>3. QED
          BY <4>1, <4>2
      <3>3. Is(h)
        <4> HIDE DEF Is
        <4>1. QED
          BY <3>2
      <3>4. FlattenSeq(s) = h[n]
        BY <1>4, <2>2 DEF FlattenSeq
      <3>5. h = [i \in 1..n |-> IF i = 1 THEN s[i] ELSE h[i - 1] \o s[i]]
        BY <3>3
      <3> HIDE DEF h, g1, Is
      <3> DEFINE P == {i \in 0..n : i = 0 \/ h[i] = g[i]}
      <3>6. \A i \in 1..n : i - 1 \in P => i \in P
        <4> SUFFICES ASSUME NEW i \in 1..n, i - 1 = 0 \/ h[i - 1] = g[i - 1] PROVE h[i] = g[i]
          OBVIOUS
        <4>1. h[i] = IF i = 1 THEN s[i] ELSE h[i - 1] \o s[i]
          BY <3>5
        <4>2. CASE i = 1
          BY <3>1, <4>1, <4>2
        <4>3. CASE i # 1
          <5>1. h[i - 1] = g[i - 1]
            BY <4>3
          <5>2. QED
            BY <1>3, <4>1, <4>3, <5>1
        <4>4. QED
          BY <4>2, <4>3
      <3>7. 0 \in P
        OBVIOUS
      <3> HIDE DEF P
      <3>8. 0..n \subseteq P
        BY <3>6, <3>7, Positions
      <3>9. n \in P
        BY <3>8
      <3>10. QED
        BY <2>2, <3>4, <3>9 DEF P
    <2>3. QED
      BY <2>1, <2>2
  <1>6. QED
    BY <1>2, <1>3, <1>5 DEF IsFlat

\* The i-th of them, of length m, follows on the first l cells.
At(g, s, i, l, m) ==
  /\ Len(g[i - 1]) = l /\ Len(s[i]) = m /\ Len(g[i]) = l + m
  /\ \A k \in 1..l : g[i][k] = g[i - 1][k]
  /\ \A k \in 1..m : g[i][l + k] = s[i][k]

\* Each of them follows on those before it.
LEMMA FlatPiece ==
  ASSUME NEW S, NEW n \in Nat, NEW s, Pieces(s, n, S), NEW g, IsFlat(g, s, n, S), NEW i \in 1..n
  PROVE  /\ g[i - 1] \in Seq(S) /\ g[i] \in Seq(S) /\ s[i] \in Seq(S)
         /\ \E l, m \in Nat : At(g, s, i, l, m)
  <1>1. i - 1 \in 0..n /\ i \in 0..n
    OBVIOUS
  <1>2. g[i - 1] \in Seq(S) /\ g[i] \in Seq(S) /\ s[i] \in Seq(S) /\ g[i] = g[i - 1] \o s[i]
    BY <1>1 DEF IsFlat, Pieces
  <1>3. PICK a, b : a = g[i - 1] /\ b = s[i]
    OBVIOUS
  <1>4. a \in Seq(S) /\ b \in Seq(S) /\ g[i] = a \o b
    BY <1>2, <1>3
  <1>5. /\ Len(a) \in Nat /\ Len(b) \in Nat /\ Len(g[i]) = Len(a) + Len(b)
        /\ \A k \in 1..Len(a) : g[i][k] = a[k]
        /\ \A k \in 1..Len(b) : g[i][Len(a) + k] = b[k]
    BY <1>4, Joined
  <1>6. QED
    BY <1>2, <1>3, <1>5 DEF At

\* The l cells of g[i] are the first of the m cells of g[j].
Begins(g, i, j, l, m) ==
  Len(g[i]) = l /\ Len(g[j]) = m /\ l <= m /\ \A k \in 1..l : g[j][k] = g[i][k]

\* What is together of the first i is at the start of the whole.
LEMMA FlatPrefix ==
  ASSUME NEW S, NEW n \in Nat, NEW s, Pieces(s, n, S), NEW g, IsFlat(g, s, n, S), NEW i \in 0..n
  PROVE  /\ g[i] \in Seq(S) /\ g[n] \in Seq(S)
         /\ \E l, m \in Nat : Begins(g, i, n, l, m)
  <1>1. \A j \in 0..n : g[j] \in Seq(S) /\ Len(g[j]) \in Nat
    BY DEF IsFlat
  <1>2. PICK l \in Nat : l = Len(g[i])
    BY <1>1
  <1> DEFINE Starts(j) == \E m \in Nat : Begins(g, i, j, l, m)
             P == {j \in 0..n : i <= j => Starts(j)}
  <1>3. Starts(i)
    BY <1>2 DEF Begins
  <1> HIDE DEF Starts
  <1>4. 0 \in P
    BY <1>3
  <1>5. ASSUME NEW j \in 1..n, j - 1 \in P PROVE j \in P
    <2> SUFFICES ASSUME i <= j, i # j PROVE Starts(j)
      BY <1>3
    <2>1. Starts(j - 1)
      BY <1>5
    <2>2. PICK h \in Nat : Len(g[j - 1]) = h /\ l <= h /\ \A k \in 1..l : g[j - 1][k] = g[i][k]
      BY <2>1 DEF Starts, Begins
    <2> HIDE DEF P
    <2>3. PICK a, m \in Nat : At(g, s, j, a, m)
      BY FlatPiece
    <2>4. Len(g[j]) = h + m /\ \A k \in 1..h : g[j][k] = g[j - 1][k]
      BY <2>2, <2>3 DEF At
    <2>5. l <= h + m /\ \A k \in 1..l : g[j][k] = g[i][k]
      BY <2>2, <2>4
    <2>6. QED
      BY <1>2, <2>4, <2>5 DEF Starts, Begins
  <1> HIDE DEF P
  <1>6. 0..n \subseteq P
    BY <1>4, <1>5, Positions
  <1>7. n \in P /\ i <= n /\ n \in 0..n
    BY <1>6
  <1>8. Starts(n)
    BY <1>7 DEF P
  <1>9. QED
    BY <1>1, <1>2, <1>7, <1>8 DEF Starts

-----------------------------------------------------------------------------
(* What parse_file() reads *)

ReadState == [pos : Nat \ {0}, data : Seq(Nat), error : BOOLEAN]

Start == [pos |-> 2, data |-> <<>>, error |-> FALSE]

\* The states of the loop of parse_file() over n segments of the file f
IsReading(g, f, n) ==
  g \in [0..n -> ReadState] /\ g[0] = Start /\ \A i \in 1..n : g[i] = ReadSegment(f, g[i - 1])

\* A turn of the loop keeps the types.
LEMMA ReadTyped ==
  ASSUME NEW f \in Seq(Nat), NEW r \in ReadState
  PROVE  ReadSegment(f, r) \in ReadState
  <1>1. r.pos \in Nat /\ r.pos >= 1 /\ r.data \in Seq(Nat) /\ r.error \in BOOLEAN /\ Len(f) \in Nat
    BY DEF ReadState
  <1>2. CASE r.pos > Len(f)
    BY <1>2 DEF ReadSegment, ReadState
  <1>3. CASE ~ (r.pos > Len(f))
    <2> DEFINE new == [k \in 1..f[r.pos] |-> IF r.pos + k <= Len(f) THEN f[r.pos + k] ELSE 0]
    <2>1. f[r.pos] \in Nat
      BY <1>1, <1>3
    <2>2. \A k \in 1..f[r.pos] : r.pos + k <= Len(f) => f[r.pos + k] \in Nat
      BY <1>1, <2>1
    <2>3. new \in Seq(Nat)
      <3>1. PICK m \in Nat : m = f[r.pos]
        BY <2>1
      <3>2. new \in [1..m -> Nat]
        BY <2>2, <3>1
      <3> HIDE DEF new
      <3>3. QED
        BY <3>2
    <2> HIDE DEF new
    <2>4. r.data \o new \in Seq(Nat) /\ r.pos + 1 + f[r.pos] \in Nat \ {0}
      BY <1>1, <2>1, <2>3
    <2>5. ReadSegment(f, r) = [pos |-> r.pos + 1 + f[r.pos], data |-> r.data \o new, error |-> r.error]
      BY <1>3 DEF ReadSegment, new
    <2>6. QED
      BY <1>1, <2>4, <2>5 DEF ReadState
  <1>4. QED
    BY <1>2, <1>3

\* ReadSegments() is the last state of the loop.
LEMMA Reads ==
  ASSUME NEW f \in Seq(Nat), NEW n \in Nat, f[1] = n
  PROVE  \E g : IsReading(g, f, n) /\ ReadSegments(f) = g[n]
  <1> DEFINE F == [i \in 1..n |-> [r \in ReadState |-> ReadSegment(f, r)]]
  <1>1. IsLoop(F, n, ReadState) /\ Start \in ReadState
    BY ReadTyped DEF IsLoop, ReadState, Start
  <1>2. PICK g : IsRun(g, Start, F, n, ReadState)
    <2> HIDE DEF F
    <2>1. QED
      BY <1>1, Turns
  <1>3. IsReading(g, f, n)
    <2>1. g \in [0..n -> ReadState] /\ g[0] = Start
      BY <1>2 DEF IsRun
    <2>2. ASSUME NEW i \in 1..n PROVE g[i] = ReadSegment(f, g[i - 1])
      <3>1. i - 1 \in 0..n
        OBVIOUS
      <3>2. g[i - 1] \in ReadState
        BY <2>1, <3>1
      <3>3. g[i] = F[i][g[i - 1]]
        BY <1>2 DEF IsRun
      <3>4. QED
        BY <3>2, <3>3
    <2>3. QED
      BY <2>1, <2>2 DEF IsReading
  <1> HIDE DEF F
  <1> DEFINE Is(h) == h = [i \in 0..n |-> IF i = 0 THEN Start ELSE ReadSegment(f, h[i - 1])]
             h == CHOOSE k : Is(k)
  <1>4. Is(g)
    <2>1. g = [i \in 0..n |-> g[i]]
      BY <1>3 DEF IsReading
    <2>2. \A i \in 0..n : g[i] = IF i = 0 THEN Start ELSE ReadSegment(f, g[i - 1])
      BY <1>3 DEF IsReading
    <2>3. QED
      BY <2>1, <2>2
  <1>5. ReadSegments(f) = h[n]
    BY DEF ReadSegments, Start
  <1>6. Is(h)
    <2> HIDE DEF Is
    <2>1. QED
      BY <1>4
  <1>7. h = [i \in 0..n |-> IF i = 0 THEN Start ELSE ReadSegment(f, h[i - 1])]
    BY <1>6
  <1> HIDE DEF h, Is
  <1> DEFINE P == {i \in 0..n : h[i] = g[i]}
  <1>8. 0 \in P
    <2>1. h[0] = Start /\ g[0] = Start
      BY <1>3, <1>7 DEF IsReading
    <2>2. QED
      BY <2>1
  <1>9. ASSUME NEW i \in 1..n, i - 1 \in P PROVE i \in P
    <2>1. h[i - 1] = g[i - 1]
      BY <1>9
    <2>2. h[i] = ReadSegment(f, h[i - 1])
      BY <1>7
    <2>3. g[i] = ReadSegment(f, g[i - 1])
      BY <1>3 DEF IsReading
    <2>4. QED
      BY <2>1, <2>2, <2>3
  <1> HIDE DEF P
  <1>10. 0..n \subseteq P
    BY <1>8, <1>9, Positions
  <1>11. n \in P
    BY <1>10
  <1>12. QED
    BY <1>3, <1>5, <1>11 DEF P

-----------------------------------------------------------------------------
(* Files *)

\* The program header and the data of each segment, as they are in a file
Headed(f) == [i \in 1..Len(f.segments) |-> <<f.segments[i].memsz>> \o f.segments[i].data]

\* The memory of each segment, as it was linked
Filled(f) == [i \in 1..Len(f.segments) |->
                f.segments[i].data \o Zeros(f.segments[i].memsz - Len(f.segments[i].data))]

\* Zeros
LEMMA ZeroCells ==
  ASSUME NEW n \in Nat
  PROVE  Zeros(n) \in Seq(Nat) /\ Len(Zeros(n)) = n /\ \A k \in 1..n : Zeros(n)[k] = 0
  <1>1. Zeros(n) \in [1..n -> Nat]
    BY DEF Zeros
  <1>2. QED
    BY <1>1 DEF Zeros

\* The segments of a file
LEMMA Segments ==
  ASSUME NEW f, IsFile(f), NEW n, n = Len(f.segments), NEW i \in 1..n
  PROVE  /\ n \in Nat
         /\ f.segments[i].memsz \in Nat /\ f.segments[i].data \in Seq(Nat)
         /\ Len(f.segments[i].data) \in Nat
         /\ Len(f.segments[i].data) <= f.segments[i].memsz
         /\ f.rest \in Seq(Nat)
  <1> DEFINE T == [memsz : Nat, data : Seq(Nat)]
  <1>1. f.segments \in Seq(T) /\ f.rest \in Seq(Nat)
    BY DEF IsFile
  <1>2. n \in Nat /\ f.segments[i] \in T
    <2> HIDE DEF T
    <2>1. QED
      BY <1>1
  <1>3. Len(f.segments[i].data) <= f.segments[i].memsz
    BY DEF IsFile
  <1>4. PICK t \in T : t = f.segments[i]
    BY <1>2
  <1>5. t.memsz \in Nat /\ t.data \in Seq(Nat) /\ Len(t.data) \in Nat
    OBVIOUS
  <1>6. QED
    BY <1>1, <1>2, <1>3, <1>4, <1>5

\* A segment in the file
LEMMA HeadedPiece ==
  ASSUME NEW m \in Nat, NEW d \in Seq(Nat)
  PROVE  /\ <<m>> \o d \in Seq(Nat) /\ Len(<<m>> \o d) = 1 + Len(d)
         /\ (<<m>> \o d)[1] = m /\ \A k \in 1..Len(d) : (<<m>> \o d)[1 + k] = d[k]
  OBVIOUS

\* A segment in memory
LEMMA FilledPiece ==
  ASSUME NEW m \in Nat, NEW d \in Seq(Nat), Len(d) <= m
  PROVE  /\ d \o Zeros(m - Len(d)) \in Seq(Nat) /\ Len(d \o Zeros(m - Len(d))) = m
         /\ \A k \in 1..m : (d \o Zeros(m - Len(d)))[k] = IF k <= Len(d) THEN d[k] ELSE 0
  <1> DEFINE l == Len(d)
             z == Zeros(m - l)
  <1>1. l \in Nat /\ m - l \in Nat
    OBVIOUS
  <1>2. z \in Seq(Nat) /\ Len(z) = m - l /\ \A k \in 1..(m - l) : z[k] = 0
    BY <1>1, ZeroCells
  <1> HIDE DEF z
  <1>3. /\ d \o z \in Seq(Nat) /\ Len(d \o z) = m
        /\ \A k \in 1..l : (d \o z)[k] = d[k]
        /\ \A k \in 1..(m - l) : (d \o z)[l + k] = 0
    BY <1>1, <1>2
  <1>4. ASSUME NEW k \in 1..m PROVE (d \o z)[k] = IF k <= l THEN d[k] ELSE 0
    <2>1. CASE k <= l
      BY <1>1, <1>3, <2>1
    <2>2. CASE ~ (k <= l)
      <3>1. k - l \in 1..(m - l) /\ l + (k - l) = k
        BY <1>1, <2>2
      <3>2. QED
        BY <1>3, <2>2, <3>1
    <2>3. QED
      BY <2>1, <2>2
  <1>5. QED
    BY <1>3, <1>4 DEF z

\* All segments, in the file and in memory
LEMMA FilePieces ==
  ASSUME NEW f, IsFile(f), NEW n, n = Len(f.segments)
  PROVE  n \in Nat /\ Pieces(Headed(f), n, Nat) /\ Pieces(Filled(f), n, Nat)
  <1>1. n \in Nat
    BY DEF IsFile
  <1>2. ASSUME NEW i \in 1..n
        PROVE  Headed(f)[i] \in Seq(Nat) /\ Filled(f)[i] \in Seq(Nat)
    <2>1. PICK m \in Nat, d \in Seq(Nat) :
            m = f.segments[i].memsz /\ d = f.segments[i].data /\ Len(d) <= m
      BY Segments
    <2>2. Headed(f)[i] = <<m>> \o d /\ Filled(f)[i] = d \o Zeros(m - Len(d))
      BY <2>1 DEF Headed, Filled
    <2>3. <<m>> \o d \in Seq(Nat)
      BY HeadedPiece
    <2>4. d \o Zeros(m - Len(d)) \in Seq(Nat)
      BY <2>1, FilledPiece
    <2>5. QED
      BY <2>2, <2>3, <2>4
  <1>3. Headed(f) = [i \in 1..n |-> Headed(f)[i]] /\ Filled(f) = [i \in 1..n |-> Filled(f)[i]]
    BY DEF Headed, Filled
  <1>4. QED
    BY <1>1, <1>2, <1>3 DEF Pieces

\* The file F: the number of its segments, what they are together, and the rest
InFile(F, e, n, rest) ==
  /\ F \in Seq(Nat) /\ F # <<>> /\ F[1] = n
  /\ \E l, m \in Nat : /\ Len(e[n]) = l /\ Len(rest) = m /\ Len(F) = 1 + l + m
                       /\ \A k \in 1..l : F[1 + k] = e[n][k]

\* The layout of a file
LEMMA FileCells ==
  ASSUME NEW f, IsFile(f), NEW n, n = Len(f.segments)
  PROVE  \E e : IsFlat(e, Headed(f), n, Nat) /\ InFile(ElfFile(f), e, n, f.rest)
  <1>1. n \in Nat /\ Pieces(Headed(f), n, Nat) /\ f.rest \in Seq(Nat)
    BY FilePieces DEF IsFile
  <1>2. PICK e : IsFlat(e, Headed(f), n, Nat) /\ FlattenSeq(Headed(f)) = e[n]
    BY <1>1, Flattens
  <1>3. e[n] \in Seq(Nat)
    BY <1>1, <1>2 DEF IsFlat
  <1>4. PICK a, b : a = e[n] /\ b = f.rest
    OBVIOUS
  <1>5. ElfFile(f) = (<<n>> \o a) \o b
    BY <1>2, <1>4 DEF ElfFile, Headed
  <1>6. a \in Seq(Nat) /\ b \in Seq(Nat)
    BY <1>1, <1>3, <1>4
  <1>7. PICK l, m \in Nat : l = Len(a) /\ m = Len(b)
    BY <1>6
  <1>8. /\ <<n>> \o a \in Seq(Nat) /\ Len(<<n>> \o a) = 1 + l
        /\ (<<n>> \o a)[1] = n /\ \A k \in 1..l : (<<n>> \o a)[1 + k] = a[k]
    BY <1>1, <1>6, <1>7, HeadedPiece
  <1>9. PICK c : c = <<n>> \o a
    OBVIOUS
  <1>10. /\ c \in Seq(Nat) /\ Len(c) = 1 + l /\ c[1] = n /\ \A k \in 1..l : c[1 + k] = a[k]
    BY <1>8, <1>9
  <1>11. /\ c \o b \in Seq(Nat) /\ Len(c \o b) = 1 + l + m
         /\ \A k \in 1..(1 + l) : (c \o b)[k] = c[k]
    <2>1. c \in Seq(Nat) /\ b \in Seq(Nat)
      BY <1>6, <1>10
    <2>2. Len(c \o b) = Len(c) + Len(b) /\ c \o b \in Seq(Nat)
          /\ \A k \in 1..Len(c) : (c \o b)[k] = c[k]
      BY <2>1, Joined
    <2>3. QED
      BY <1>7, <1>10, <2>2
  <1>12. PICK F : F = c \o b
    OBVIOUS
  <1>13. /\ F \in Seq(Nat) /\ Len(F) = 1 + l + m /\ F[1] = n /\ \A k \in 1..l : F[1 + k] = a[k]
    <2>1. F \in Seq(Nat) /\ Len(F) = 1 + l + m /\ \A k \in 1..(1 + l) : F[k] = c[k]
      BY <1>11, <1>12
    <2>2. 1 \in 1..(1 + l) /\ \A k \in 1..l : 1 + k \in 1..(1 + l)
      OBVIOUS
    <2>3. QED
      BY <1>10, <2>1, <2>2
  <1>14. F # <<>>
    BY <1>13
  <1>15. InFile(F, e, n, f.rest)
    BY <1>4, <1>7, <1>13, <1>14 DEF InFile
  <1>16. QED
    BY <1>2, <1>5, <1>9, <1>12, <1>15

\* What parse_file() makes of any file: cells, and a count that is zero if the file
\* has no segment
LEMMA ParsedType ==
  ASSUME NEW f, IsFile(f)
  PROVE  /\ parse_file(ElfFile(f)).count \in Nat /\ parse_file(ElfFile(f)).data \in Seq(Nat)
         /\ parse_file(ElfFile(f)).count > 0 => f # NoKernel
  <1>1. PICK n : n = Len(f.segments)
    OBVIOUS
  <1>2. n \in Nat
    BY <1>1, FilePieces
  <1>3. PICK e : InFile(ElfFile(f), e, n, f.rest)
    BY <1>1, FileCells
  <1>4. PICK F : F = ElfFile(f)
    OBVIOUS
  <1>5. F \in Seq(Nat) /\ F # <<>> /\ F[1] = n
    BY <1>3, <1>4 DEF InFile
  <1>6. PICK g : IsReading(g, F, n) /\ ReadSegments(F) = g[n]
    BY <1>2, <1>5, Reads
  <1>7. g[n] \in ReadState
    BY <1>2, <1>6 DEF IsReading
  <1>8. PICK r \in ReadState : ReadSegments(F) = r
    BY <1>6, <1>7
  <1>9. r.data \in Seq(Nat)
    BY DEF ReadState
  <1>10. parse_file(F) = IF r.error THEN Unparsed ELSE [count |-> n, data |-> r.data]
    BY <1>5, <1>8 DEF parse_file
  <1>11. parse_file(F).count \in {0, n} /\ parse_file(F).data \in Seq(Nat)
    BY <1>9, <1>10 DEF Unparsed
  <1>12. f = NoKernel => n = 0
    BY <1>1 DEF NoKernel
  <1>13. QED
    BY <1>2, <1>4, <1>11, <1>12

\* A segment at p in the file F: it has the c cells d of m, and if there are less than
\* m the file ends with it.
SegmentAt(F, p, m, d, c) ==
  /\ Len(d) = c /\ c <= m /\ p >= 1 /\ p + c <= Len(F) /\ F[p] = m
  /\ \A k \in 1..c : F[p + k] = d[k]
  /\ c < m => Len(F) = p + c

\* From r the loop comes to t: it has read x, and is behind u cells if it goes on.
Reaches(t, r, x, more, u) ==
  t.data = r.data \o x /\ t.error = r.error /\ (more => t.pos = 2 + u)

\* It is read as it is in memory.
LEMMA ReadsSegment ==
  ASSUME NEW F \in Seq(Nat), NEW p \in Nat, NEW m \in Nat, NEW d \in Seq(Nat), NEW c \in Nat,
         SegmentAt(F, p, m, d, c), NEW r \in ReadState, r.pos = p
  PROVE  Reaches(ReadSegment(F, r), r, d \o Zeros(m - c), TRUE, p + m - 1)
  <1> USE DEF SegmentAt
  <1> DEFINE new == [k \in 1..m |-> IF p + k <= Len(F) THEN F[p + k] ELSE 0]
             z == d \o Zeros(m - c)
  <1>1. PICK L \in Nat : L = Len(F)
    OBVIOUS
  <1>2. ASSUME NEW k \in 1..m PROVE new[k] = IF k <= c THEN d[k] ELSE 0
    <2>1. CASE k <= c
      <3>1. k \in 1..c /\ p + k <= L
        BY <1>1, <2>1
      <3>2. QED
        BY <1>1, <2>1, <3>1
    <2>2. CASE ~ (k <= c)
      <3>1. c < m /\ ~ (p + k <= L)
        BY <1>1, <2>2
      <3>2. QED
        BY <1>1, <2>2, <3>1
    <2>3. QED
      BY <2>1, <2>2
  <1>3. z \in Seq(Nat) /\ Len(z) = m /\ \A k \in 1..m : z[k] = IF k <= c THEN d[k] ELSE 0
    <2>1. Len(d) <= m
      OBVIOUS
    <2> HIDE DEF SegmentAt
    <2>2. /\ d \o Zeros(m - Len(d)) \in Seq(Nat) /\ Len(d \o Zeros(m - Len(d))) = m
          /\ \A k \in 1..m : (d \o Zeros(m - Len(d)))[k] = IF k <= Len(d) THEN d[k] ELSE 0
      BY <2>1, FilledPiece
    <2>3. QED
      BY <2>2 DEF SegmentAt
  <1>4. DOMAIN new = 1..m /\ DOMAIN z = 1..m /\ z = [k \in 1..m |-> z[k]]
    <2> HIDE DEF z
    <2>1. QED
      BY <1>3
  <1>5. new = z
    <2> HIDE DEF z
    <2>1. \A k \in 1..m : new[k] = z[k]
      <3> HIDE DEF new
      <3>1. QED
        BY <1>2, <1>3
    <2>2. QED
      BY <1>4, <2>1
  <1>6. ~ (p > Len(F))
    BY <1>1
  <1>7. ReadSegment(F, r) = [pos |-> p + 1 + m, data |-> r.data \o new, error |-> r.error]
    BY <1>6 DEF ReadSegment
  <1> HIDE DEF new, z
  <1>8. Reaches(ReadSegment(F, r), r, z, TRUE, p + m - 1)
    BY <1>5, <1>7 DEF Reaches
  <1>9. QED
    BY <1>8 DEF z

\* One turn of the loop finds the next segment where it begins in the file.
LEMMA NextSegment ==
  ASSUME NEW f, IsFile(f), FullSegments(f), NEW n, n = Len(f.segments),
         NEW e, IsFlat(e, Headed(f), n, Nat), NEW F, InFile(F, e, n, f.rest),
         NEW i \in 1..n, NEW h \in Nat, Len(e[i - 1]) = h,
         NEW r \in ReadState, r.pos = 2 + h
  PROVE  \E u \in Nat : Len(e[i]) = u /\ Reaches(ReadSegment(F, r), r, Filled(f)[i], i < n, u)
  <1>1. n \in Nat /\ Pieces(Headed(f), n, Nat)
    BY FilePieces
  <1>2. PICK m, c \in Nat, d \in Seq(Nat) :
          m = f.segments[i].memsz /\ d = f.segments[i].data /\ Len(d) = c /\ c <= m
    BY Segments
  <1>3. Headed(f)[i] = <<m>> \o d /\ Filled(f)[i] = d \o Zeros(m - c)
    BY <1>2 DEF Headed, Filled
  <1>4. /\ Len(<<m>> \o d) = 1 + c /\ (<<m>> \o d)[1] = m
        /\ \A k \in 1..c : (<<m>> \o d)[1 + k] = d[k]
    BY <1>2, HeadedPiece
  <1>5. PICK s : s = <<m>> \o d
    OBVIOUS
  <1>6. Len(s) = 1 + c /\ s[1] = m /\ \A k \in 1..c : s[1 + k] = d[k]
    BY <1>4, <1>5
  <1>7. PICK a, b \in Nat : At(e, Headed(f), i, a, b)
    BY <1>1, FlatPiece
  <1>8. a = h /\ b = 1 + c
    BY <1>3, <1>5, <1>6, <1>7 DEF At
  <1>9. Len(e[i]) = h + (1 + c) /\ \A k \in 1..(1 + c) : e[i][h + k] = s[k]
    BY <1>3, <1>5, <1>7, <1>8 DEF At
  <1>10. PICK u, v \in Nat : Begins(e, i, n, u, v)
    <2>1. i \in 0..n
      OBVIOUS
    <2>2. QED
      BY <1>1, <2>1, FlatPrefix
  <1>11. u = h + (1 + c) /\ u <= v /\ Len(e[n]) = v /\ \A k \in 1..u : e[n][k] = e[i][k]
    BY <1>9, <1>10 DEF Begins
  <1>12. PICK w \in Nat : /\ Len(f.rest) = w /\ Len(F) = 1 + v + w
                          /\ \A k \in 1..v : F[1 + k] = e[n][k]
    BY <1>11 DEF InFile
  <1>13. ASSUME NEW k \in 1..(1 + c) PROVE F[1 + (h + k)] = s[k]
    <2>1. u = h + (1 + c) /\ u <= v
      BY <1>11
    <2>2. h + k \in 1..u /\ h + k \in 1..v
      BY <2>1
    <2>3. QED
      BY <1>9, <1>11, <1>12, <2>2
  <1>14. F[2 + h] = m
    <2>1. 1 \in 1..(1 + c) /\ 1 + (h + 1) = 2 + h
      OBVIOUS
    <2>2. QED
      BY <1>6, <1>13, <2>1
  <1>15. ASSUME NEW k \in 1..c PROVE F[(2 + h) + k] = d[k]
    <2>1. 1 + k \in 1..(1 + c) /\ 1 + (h + (1 + k)) = (2 + h) + k
      OBVIOUS
    <2>2. QED
      BY <1>6, <1>13, <2>1
  <1>16. c < m => i = n /\ f.rest = <<>>
    <2>1. Len(f.segments[i].data) < f.segments[i].memsz => i = Len(f.segments) /\ f.rest = <<>>
      BY DEF FullSegments
    <2>2. QED
      BY <1>2, <2>1
  <1>17. c < m => Len(F) = (2 + h) + c
    <2> SUFFICES ASSUME c < m PROVE Len(F) = (2 + h) + c
      OBVIOUS
    <2>1. i = n /\ f.rest = <<>>
      BY <1>16
    <2>2. w = 0
      BY <1>12, <2>1
    <2>3. v = u
      BY <1>9, <1>11, <2>1
    <2>4. QED
      BY <1>11, <1>12, <2>2, <2>3
  <1>18. (2 + h) + c <= Len(F)
    BY <1>11, <1>12
  <1>19. PICK p \in Nat : p = 2 + h
    OBVIOUS
  <1>20. Reaches(ReadSegment(F, r), r, d \o Zeros(m - c), TRUE, p + m - 1)
    <2>1. F \in Seq(Nat) /\ p >= 1 /\ p + c <= Len(F) /\ F[p] = m /\ r.pos = p
      BY <1>14, <1>18, <1>19 DEF InFile
    <2>2. (\A k \in 1..c : F[p + k] = d[k]) /\ (c < m => Len(F) = p + c)
      BY <1>15, <1>17, <1>19
    <2>3. SegmentAt(F, p, m, d, c)
      BY <1>2, <2>1, <2>2 DEF SegmentAt
    <2>4. QED
      BY <2>1, <2>3, ReadsSegment
  <1>21. PICK x : x = d \o Zeros(m - c)
    OBVIOUS
  <1>22. i < n => 2 + (p + m - 1) = 2 + u
    <2>1. i < n => c = m
      BY <1>1, <1>2, <1>16
    <2>2. QED
      BY <1>11, <1>19, <2>1
  <1>23. Reaches(ReadSegment(F, r), r, x, i < n, u)
    BY <1>20, <1>21, <1>22 DEF Reaches
  <1>24. QED
    BY <1>3, <1>9, <1>11, <1>21, <1>23

\* A file that is as parse_file() expects is read as it was linked.
LEMMA ParsedData ==
  ASSUME NEW f, IsFile(f), FullSegments(f)
  PROVE  parse_file(ElfFile(f)).data = Linked(f)
  <1>1. PICK n : n = Len(f.segments)
    OBVIOUS
  <1>2. n \in Nat /\ Pieces(Filled(f), n, Nat)
    BY <1>1, FilePieces
  <1>3. PICK e : IsFlat(e, Headed(f), n, Nat) /\ InFile(ElfFile(f), e, n, f.rest)
    BY <1>1, FileCells
  <1>4. PICK l : IsFlat(l, Filled(f), n, Nat) /\ FlattenSeq(Filled(f)) = l[n]
    BY <1>2, Flattens
  <1>5. Linked(f) = l[n]
    BY <1>4 DEF Linked, Filled
  <1>6. PICK F : F = ElfFile(f)
    OBVIOUS
  <1>7. F \in Seq(Nat) /\ F # <<>> /\ F[1] = n /\ InFile(F, e, n, f.rest)
    BY <1>3, <1>6 DEF InFile
  <1>8. PICK g : IsReading(g, F, n) /\ ReadSegments(F) = g[n]
    BY <1>2, <1>7, Reads
  <1> DEFINE Good(i) == /\ g[i].data = l[i] /\ g[i].error = FALSE
                        /\ i < n => \E h \in Nat : Len(e[i]) = h /\ g[i].pos = 2 + h
             P == {i \in 0..n : Good(i)}
  <1>9. 0 \in P
    <2>1. g[0] = Start /\ l[0] = <<>> /\ e[0] = <<>>
      BY <1>3, <1>4, <1>8 DEF IsReading, IsFlat
    <2>2. Len(e[0]) = 0
      BY <2>1
    <2>3. Good(0)
      BY <2>1, <2>2 DEF Start
    <2> HIDE DEF Good
    <2>4. QED
      BY <1>2, <2>3
  <1>10. ASSUME NEW i \in 1..n, i - 1 \in P PROVE i \in P
    <2>1. i - 1 \in 0..n /\ i - 1 < n /\ i \in 0..n
      BY <1>2
    <2>2. Good(i - 1)
      <3> HIDE DEF Good
      <3>1. QED
        BY <1>10
    <2> HIDE DEF P
    <2>3. PICK h \in Nat : Len(e[i - 1]) = h /\ g[i - 1].pos = 2 + h
      BY <2>1, <2>2
    <2>4. g[i - 1].data = l[i - 1] /\ g[i - 1].error = FALSE
      BY <2>2
    <2>5. g[i] = ReadSegment(F, g[i - 1])
      BY <1>8 DEF IsReading
    <2>6. g[i - 1] \in ReadState
      BY <1>8, <2>1 DEF IsReading
    <2>7. l[i] = l[i - 1] \o Filled(f)[i]
      BY <1>4 DEF IsFlat
    <2> HIDE DEF Good
    <2>8. PICK r \in ReadState : r = g[i - 1]
      BY <2>6
    <2>9. r.pos = 2 + h
      BY <2>3, <2>8
    <2>10. PICK u \in Nat : Len(e[i]) = u /\ Reaches(ReadSegment(F, r), r, Filled(f)[i], i < n, u)
      BY <1>1, <1>3, <1>7, <2>3, <2>9, NextSegment
    <2>11. g[i].data = l[i] /\ g[i].error = FALSE /\ (i < n => g[i].pos = 2 + u)
      BY <2>4, <2>5, <2>7, <2>8, <2>10 DEF Reaches
    <2>12. Good(i)
      BY <2>10, <2>11 DEF Good
    <2>13. QED
      BY <2>1, <2>12 DEF P
  <1> HIDE DEF P
  <1>11. 0..n \subseteq P
    BY <1>2, <1>9, <1>10, Positions
  <1>12. n \in P
    BY <1>2, <1>11
  <1>13. g[n].data = l[n] /\ g[n].error = FALSE
    BY <1>12 DEF P
  <1>14. QED
    BY <1>5, <1>6, <1>7, <1>8, <1>13 DEF parse_file

-----------------------------------------------------------------------------
(* Sectors *)

\* The sizes that are added and multiplied
LEMMA SectorSize == SECTOR_SIZE \in Nat /\ SECTOR_SIZE > 1 /\ OS_SIZE_LOC \in 0..(SECTOR_SIZE - 1)
  BY BootAssumption

\* One sector more
LEMMA OneMore ==
  ASSUME NEW i \in Int
  PROVE  SECTOR_SIZE * (i + 1) = SECTOR_SIZE * i + SECTOR_SIZE
  BY SectorSize

Padding(n) == IF n % SECTOR_SIZE = 0 THEN 0 ELSE SECTOR_SIZE - (n % SECTOR_SIZE)

\* Padded, n cells fill their sectors.
LEMMA SectorsFilled ==
  ASSUME NEW n \in Nat
  PROVE  /\ Sectors(n) \in Nat /\ Padding(n) \in Nat
         /\ n + Padding(n) = SECTOR_SIZE * Sectors(n)
  <1> DEFINE q == n \div SECTOR_SIZE
             r == n % SECTOR_SIZE
  <1>1. q \in Int /\ r \in 0..(SECTOR_SIZE - 1) /\ n = SECTOR_SIZE * q + r
    BY SectorSize
  <1>2. q >= 0
    <2> HIDE DEF q, r
    <2> SUFFICES ASSUME q <= -1 PROVE FALSE
      BY <1>1
    <2>1. SECTOR_SIZE * q <= -SECTOR_SIZE
      BY <1>1, SectorSize
    <2>2. QED
      BY <1>1, <2>1, SectorSize
  <1>3. /\ Sectors(n) = IF r = 0 THEN q ELSE q + 1
        /\ Padding(n) = IF r = 0 THEN 0 ELSE SECTOR_SIZE - r
    BY <1>1 DEF Sectors, Padding
  <1> HIDE DEF q, r
  <1>4. CASE r = 0
    <2>1. Sectors(n) = q /\ Padding(n) = 0
      BY <1>3, <1>4
    <2>2. QED
      BY <1>1, <1>2, <1>4, <2>1, SectorSize
  <1>5. CASE r # 0
    <2>1. Sectors(n) = q + 1 /\ Padding(n) = SECTOR_SIZE - r
      BY <1>3, <1>5
    <2>2. SECTOR_SIZE * (q + 1) = SECTOR_SIZE * q + SECTOR_SIZE
      BY <1>1, OneMore
    <2>3. QED
      BY <1>1, <1>2, <2>1, <2>2, SectorSize
  <1>6. QED
    BY <1>4, <1>5

\* Whole sectors are divided into sectors.
LEMMA WholeSectors ==
  ASSUME NEW m \in Nat
  PROVE  (SECTOR_SIZE * m) \div SECTOR_SIZE = m
  <1> DEFINE n == SECTOR_SIZE * m
             q == n \div SECTOR_SIZE
             r == n % SECTOR_SIZE
  <1>1. n \in Int
    BY SectorSize
  <1>2. q \in Int /\ r \in 0..(SECTOR_SIZE - 1) /\ n = SECTOR_SIZE * q + r
    <2> HIDE DEF n
    <2>1. QED
      BY <1>1, SectorSize
  <1> HIDE DEF q, r
  <1>3. SECTOR_SIZE * (m - q) = r
    BY <1>2, SectorSize
  <1>4. PICK d \in Int : d = m - q
    BY <1>2
  <1>5. SECTOR_SIZE * d = r
    BY <1>3, <1>4
  <1>6. d >= 1 => SECTOR_SIZE * d >= SECTOR_SIZE
    BY SectorSize
  <1>7. d <= -1 => SECTOR_SIZE * d <= -SECTOR_SIZE
    BY SectorSize
  <1>8. d = 0
    BY <1>2, <1>5, <1>6, <1>7, SectorSize
  <1>9. QED
    BY <1>2, <1>4, <1>8 DEF q, n

\* Cell j of the kernel k in whole sectors
PaddedCell(k, j) == IF j <= Len(k) THEN k[j] ELSE 0

\* An image of a boot block and a kernel of z sectors
IsImage(im, k, z) ==
  /\ im \in Seq(Nat) /\ Len(im) = SECTOR_SIZE * (z + 1)
  /\ im[OS_SIZE_LOC + 1] = z
  /\ \A j \in 1..(SECTOR_SIZE * z) : im[SECTOR_SIZE + j] = PaddedCell(k, j)

\* What main() writes
LEMMA ImageCells ==
  ASSUME NEW b \in Seq(Nat), Len(b) = SECTOR_SIZE, NEW k \in Seq(Nat)
  PROVE  Sectors(Len(k)) \in Nat /\ IsImage(Image(b, k), k, Sectors(Len(k)))
  <1>1. PICK n \in Nat : n = Len(k)
    OBVIOUS
  <1>2. PICK z, a \in Nat : z = Sectors(n) /\ a = Padding(n) /\ n + a = SECTOR_SIZE * z
    BY SectorsFilled
  <1>3. PICK y : y = Zeros(a)
    OBVIOUS
  <1>4. y \in Seq(Nat) /\ Len(y) = a /\ \A i \in 1..a : y[i] = 0
    BY <1>3, ZeroCells
  <1>5. PICK x : x = b \o k
    OBVIOUS
  <1>6. /\ x \in Seq(Nat) /\ Len(x) = SECTOR_SIZE + n
        /\ \A i \in 1..n : x[SECTOR_SIZE + i] = k[i]
    <2>1. /\ b \o k \in Seq(Nat) /\ Len(b \o k) = Len(b) + Len(k)
          /\ \A i \in 1..Len(k) : (b \o k)[Len(b) + i] = k[i]
      BY Joined
    <2>2. QED
      BY <1>1, <1>5, <2>1
  <1>7. PICK w : w = x \o y
    OBVIOUS
  <1>8. /\ w \in Seq(Nat) /\ Len(w) = (SECTOR_SIZE + n) + a
        /\ \A i \in 1..(SECTOR_SIZE + n) : w[i] = x[i]
        /\ \A i \in 1..a : w[(SECTOR_SIZE + n) + i] = 0
    <2>1. x \in Seq(Nat) /\ y \in Seq(Nat)
      BY <1>4, <1>6
    <2>2. /\ x \o y \in Seq(Nat) /\ Len(x \o y) = Len(x) + Len(y)
          /\ \A i \in 1..Len(x) : (x \o y)[i] = x[i]
          /\ \A i \in 1..Len(y) : (x \o y)[Len(x) + i] = y[i]
      BY <2>1, Joined
    <2>3. QED
      BY <1>4, <1>6, <1>7, <2>2
  <1>9. Image(b, k) = [w EXCEPT ![OS_SIZE_LOC + 1] = z]
    BY <1>1, <1>2, <1>3, <1>5, <1>7 DEF Image, Padding
  <1>10. PICK im : im = [w EXCEPT ![OS_SIZE_LOC + 1] = z]
    OBVIOUS
  <1>11. PICK m \in Nat : m = (SECTOR_SIZE + n) + a
    BY SectorSize
  <1>12. w \in [1..m -> Nat] /\ OS_SIZE_LOC + 1 \in 1..m /\ OS_SIZE_LOC + 1 \in 1..SECTOR_SIZE
    <2>1. w \in Seq(Nat) /\ Len(w) = m
      BY <1>8, <1>11
    <2>2. w \in [1..m -> Nat]
      BY <2>1
    <2>3. QED
      BY <1>11, <2>2, SectorSize
  <1>13. /\ im \in [1..m -> Nat] /\ im[OS_SIZE_LOC + 1] = z
         /\ \A i \in 1..m : i > SECTOR_SIZE => im[i] = w[i]
    BY <1>10, <1>12, SectorSize
  <1>14. im \in Seq(Nat) /\ Len(im) = m
    BY <1>13
  <1>15. m = SECTOR_SIZE * (z + 1)
    <2>1. SECTOR_SIZE * (z + 1) = SECTOR_SIZE * z + SECTOR_SIZE
      BY OneMore
    <2>2. PICK t \in Int : t = SECTOR_SIZE * z
      BY SectorSize
    <2>3. QED
      BY <1>2, <1>11, <2>1, <2>2, SectorSize
  <1>16. ASSUME NEW j \in 1..(n + a) PROVE im[SECTOR_SIZE + j] = IF j <= n THEN k[j] ELSE 0
    <2>1. SECTOR_SIZE + j \in 1..m /\ SECTOR_SIZE + j > SECTOR_SIZE
      BY <1>11, SectorSize
    <2>2. im[SECTOR_SIZE + j] = w[SECTOR_SIZE + j]
      BY <1>13, <2>1
    <2>3. CASE j <= n
      <3>1. j \in 1..n /\ SECTOR_SIZE + j \in 1..(SECTOR_SIZE + n)
        BY <2>3, SectorSize
      <3>2. QED
        BY <1>6, <1>8, <2>2, <2>3, <3>1
    <2>4. CASE ~ (j <= n)
      <3>1. j - n \in 1..a /\ (SECTOR_SIZE + n) + (j - n) = SECTOR_SIZE + j
        BY <2>4, SectorSize
      <3>2. QED
        BY <1>8, <2>2, <2>4, <3>1
    <2>5. QED
      BY <2>3, <2>4
  <1>17. IsImage(im, k, z)
    BY <1>1, <1>2, <1>13, <1>14, <1>15, <1>16 DEF IsImage, PaddedCell
  <1>18. QED
    BY <1>1, <1>2, <1>9, <1>10, <1>17

\* The drive d has a kernel of z sectors behind the boot block, which knows z.
HasKernel(d, k, z) ==
  /\ 0..z \subseteq DOMAIN d /\ d[0][OS_SIZE_LOC + 1] = z
  /\ \A i \in 1..z : /\ d[i] \in Seq(Nat) /\ Len(d[i]) = SECTOR_SIZE
                     /\ \A j \in 1..SECTOR_SIZE :
                          d[i][j] = PaddedCell(k, SECTOR_SIZE * (i - 1) + j)

\* The image as sectors
LEMMA SectorCells ==
  ASSUME NEW im, NEW k, NEW z \in Nat, IsImage(im, k, z)
  PROVE  /\ DOMAIN InSectors(im) = 0..z
         /\ \A i \in 0..z : InSectors(im)[i] \in Seq(Nat) /\ Len(InSectors(im)[i]) = SECTOR_SIZE
         /\ HasKernel(InSectors(im), k, z)
  <1> DEFINE Cut(i) == SubSeq(im, i * SECTOR_SIZE + 1, (i + 1) * SECTOR_SIZE)
  <1>1. PICK L \in Nat : L = Len(im) /\ L = SECTOR_SIZE * (z + 1) /\ im \in Seq(Nat)
    BY DEF IsImage
  <1>2. L \div SECTOR_SIZE = z + 1
    BY <1>1, WholeSectors
  <1>3. InSectors(im) = [i \in 0..z |-> Cut(i)]
    <2>1. (L \div SECTOR_SIZE) - 1 = z
      BY <1>2
    <2>2. QED
      BY <1>1, <2>1 DEF InSectors
  <1>4. ASSUME NEW i \in 0..z
        PROVE  /\ Cut(i) \in Seq(Nat) /\ Len(Cut(i)) = SECTOR_SIZE
               /\ \A j \in 1..SECTOR_SIZE : Cut(i)[j] = im[SECTOR_SIZE * i + j]
    <2>1. PICK u \in Nat : u = i * SECTOR_SIZE /\ u = SECTOR_SIZE * i
      BY SectorSize
    <2>2. PICK v \in Nat : v = (i + 1) * SECTOR_SIZE /\ v = SECTOR_SIZE * (i + 1)
      BY SectorSize
    <2>3. v = u + SECTOR_SIZE
      BY <2>1, <2>2, OneMore
    <2>4. v <= L
      <3>1. PICK w \in Nat : w = z - i
        OBVIOUS
      <3>2. SECTOR_SIZE * w >= 0 /\ SECTOR_SIZE * w \in Nat
        BY SectorSize
      <3>3. SECTOR_SIZE * (z + 1) = SECTOR_SIZE * (i + 1) + SECTOR_SIZE * w
        BY <3>1, SectorSize
      <3>4. QED
        BY <1>1, <2>2, <3>2, <3>3
    <2>5. Cut(i) = SubSeq(im, u + 1, v)
      BY <2>1, <2>2
    <2>6. /\ SubSeq(im, u + 1, v) \in Seq(Nat) /\ Len(SubSeq(im, u + 1, v)) = SECTOR_SIZE
          /\ \A j \in 1..SECTOR_SIZE : SubSeq(im, u + 1, v)[j] = im[u + j]
      <3>1. v <= Len(im) /\ im \in Seq(Nat)
        BY <1>1, <2>4
      <3>2. QED
        BY <2>3, <3>1, SectorSize
    <2>7. QED
      BY <2>1, <2>5, <2>6
  <1> HIDE DEF Cut
  <1>5. PICK d : d = InSectors(im)
    OBVIOUS
  <1>6. DOMAIN d = 0..z /\ \A i \in 0..z : d[i] = Cut(i)
    BY <1>3, <1>5
  <1>7. d[0][OS_SIZE_LOC + 1] = z
    <2>1. OS_SIZE_LOC + 1 \in 1..SECTOR_SIZE /\ 0 \in 0..z /\ SECTOR_SIZE * 0 = 0
      BY SectorSize
    <2>2. Cut(0)[OS_SIZE_LOC + 1] = im[0 + (OS_SIZE_LOC + 1)]
      BY <1>4, <2>1
    <2>3. 0 + (OS_SIZE_LOC + 1) = OS_SIZE_LOC + 1
      BY SectorSize
    <2>4. QED
      BY <1>6, <2>1, <2>2, <2>3 DEF IsImage
  <1>8. ASSUME NEW i \in 1..z, NEW j \in 1..SECTOR_SIZE
        PROVE  d[i][j] = PaddedCell(k, SECTOR_SIZE * (i - 1) + j)
    <2>1. i \in 0..z
      OBVIOUS
    <2>2. PICK u \in Nat : u = SECTOR_SIZE * (i - 1)
      BY SectorSize
    <2>3. SECTOR_SIZE * i = SECTOR_SIZE + u
      <3>1. PICK h \in Nat : h = i - 1
        OBVIOUS
      <3>2. SECTOR_SIZE * (h + 1) = SECTOR_SIZE * h + SECTOR_SIZE
        BY OneMore
      <3>3. h + 1 = i
        BY <3>1
      <3>4. QED
        BY <2>2, <3>1, <3>2, <3>3, SectorSize
    <2>4. u + SECTOR_SIZE <= SECTOR_SIZE * z
      <3>1. PICK w \in Nat : w = z - i
        OBVIOUS
      <3>2. SECTOR_SIZE * w >= 0 /\ SECTOR_SIZE * w \in Nat
        BY SectorSize
      <3>3. SECTOR_SIZE * z = SECTOR_SIZE * i + SECTOR_SIZE * w
        BY <3>1, SectorSize
      <3>4. QED
        BY <2>3, <3>2, <3>3, SectorSize
    <2>5. u + j \in 1..(SECTOR_SIZE * z) /\ SECTOR_SIZE * i + j = SECTOR_SIZE + (u + j)
      <3>1. PICK y \in Int : y = SECTOR_SIZE * z
        BY SectorSize
      <3>2. u + j \in 1..y
        BY <2>4, <3>1, SectorSize
      <3>3. QED
        BY <2>3, <3>1, <3>2, SectorSize
    <2>6. d[i][j] = im[SECTOR_SIZE + (u + j)]
      BY <1>4, <1>6, <2>1, <2>5
    <2>7. im[SECTOR_SIZE + (u + j)] = PaddedCell(k, u + j)
      BY <2>5 DEF IsImage
    <2>8. QED
      BY <2>2, <2>6, <2>7
  <1>9. \A i \in 0..z : d[i] \in Seq(Nat) /\ Len(d[i]) = SECTOR_SIZE
    BY <1>4, <1>6
  <1>10. \A i \in 1..z : i \in 0..z
    OBVIOUS
  <1>11. HasKernel(d, k, z)
    BY <1>6, <1>7, <1>8, <1>9, <1>10 DEF HasKernel
  <1>12. QED
    BY <1>5, <1>6, <1>9, <1>11

\* The first i sectors, one after the other
Read(g, k, i) ==
  /\ Len(g[i]) = SECTOR_SIZE * i
  /\ \A j \in 1..(SECTOR_SIZE * i) : g[i][j] = PaddedCell(k, j)

\* A kernel has no more cells than its sectors.
LEMMA InItsSectors ==
  ASSUME NEW k \in Seq(Nat), NEW z, z = Sectors(Len(k))
  PROVE  z \in Nat /\ SECTOR_SIZE * z \in Nat /\ Len(k) <= SECTOR_SIZE * z
  <1>1. PICK n \in Nat : n = Len(k)
    OBVIOUS
  <1>2. PICK a \in Nat : a = Padding(n) /\ n + a = SECTOR_SIZE * z /\ z \in Nat
    BY <1>1, SectorsFilled
  <1>3. QED
    BY <1>1, <1>2

\* What the boot block loads, if it loads all sectors: the kernel and zeros
LEMMA Loaded ==
  ASSUME NEW d, NEW k \in Seq(Nat), NEW z, z = Sectors(Len(k)), HasKernel(d, k, z)
  PROVE  FlattenSeq([i \in 1..z |-> d[i]]) =
           k \o Zeros(Len(FlattenSeq([i \in 1..z |-> d[i]])) - Len(k))
  <1>1. PICK y, n \in Nat : y = SECTOR_SIZE * z /\ n = Len(k) /\ n <= y /\ z \in Nat
    BY InItsSectors
  <1>2. PICK s : s = [i \in 1..z |-> d[i]]
    OBVIOUS
  <1>3. Pieces(s, z, Nat) /\ \A i \in 1..z : s[i] = d[i]
    BY <1>2 DEF Pieces, HasKernel
  <1>4. PICK g : IsFlat(g, s, z, Nat) /\ FlattenSeq(s) = g[z]
    BY <1>1, <1>3, Flattens
  <1> DEFINE P == {i \in 0..z : Read(g, k, i)}
  <1>5. 0 \in P
    <2>1. g[0] = <<>> /\ SECTOR_SIZE * 0 = 0
      BY <1>4, SectorSize DEF IsFlat
    <2>2. Read(g, k, 0)
      BY <2>1 DEF Read
    <2>3. QED
      BY <1>1, <2>2
  <1>6. ASSUME NEW i \in 1..z, i - 1 \in P PROVE i \in P
    <2>1. PICK u \in Nat : u = SECTOR_SIZE * (i - 1)
      BY SectorSize
    <2>2. SECTOR_SIZE * i = u + SECTOR_SIZE
      <3>1. PICK h \in Nat : h = i - 1
        BY <1>1
      <3>2. SECTOR_SIZE * (h + 1) = SECTOR_SIZE * h + SECTOR_SIZE
        BY OneMore
      <3>3. h + 1 = i
        BY <1>1, <3>1
      <3>4. QED
        BY <2>1, <3>1, <3>2, <3>3, SectorSize
    <2>3. Len(g[i - 1]) = u /\ \A j \in 1..u : g[i - 1][j] = PaddedCell(k, j)
      BY <1>6, <2>1 DEF Read
    <2> HIDE DEF P
    <2>4. PICK a, b \in Nat : At(g, s, i, a, b)
      BY <1>1, <1>3, <1>4, FlatPiece
    <2>5. a = u /\ b = SECTOR_SIZE
      BY <1>3, <2>3, <2>4 DEF At, HasKernel
    <2>6. /\ Len(g[i]) = u + SECTOR_SIZE
          /\ \A j \in 1..u : g[i][j] = g[i - 1][j]
          /\ \A j \in 1..SECTOR_SIZE : g[i][u + j] = d[i][j]
      BY <1>3, <2>4, <2>5 DEF At
    <2>7. ASSUME NEW j \in 1..SECTOR_SIZE PROVE d[i][j] = PaddedCell(k, u + j)
      BY <2>1 DEF HasKernel
    <2>8. ASSUME NEW j \in 1..(u + SECTOR_SIZE) PROVE g[i][j] = PaddedCell(k, j)
      <3>1. CASE j <= u
        <4>1. j \in 1..u
          BY <3>1
        <4>2. QED
          BY <2>3, <2>6, <4>1
      <3>2. CASE ~ (j <= u)
        <4>1. j - u \in 1..SECTOR_SIZE /\ u + (j - u) = j
          BY <3>2, SectorSize
        <4>2. QED
          BY <2>6, <2>7, <4>1
      <3>3. QED
        BY <3>1, <3>2
    <2>9. Read(g, k, i)
      BY <2>2, <2>6, <2>8 DEF Read
    <2>10. QED
      BY <1>1, <2>9 DEF P
  <1> HIDE DEF P
  <1>7. 0..z \subseteq P
    BY <1>1, <1>5, <1>6, Positions
  <1>8. z \in P
    BY <1>1, <1>7
  <1>9. Len(g[z]) = y /\ \A j \in 1..y : g[z][j] = IF j <= n THEN k[j] ELSE 0
    BY <1>1, <1>8 DEF P, Read, PaddedCell
  <1>10. g[z] \in Seq(Nat)
    BY <1>1, <1>4 DEF IsFlat
  <1>11. PICK x : x = k \o Zeros(y - n)
    OBVIOUS
  <1>12. x \in Seq(Nat) /\ Len(x) = y /\ \A j \in 1..y : x[j] = IF j <= n THEN k[j] ELSE 0
    <2>1. Len(k) <= y
      BY <1>1
    <2>2. /\ k \o Zeros(y - Len(k)) \in Seq(Nat) /\ Len(k \o Zeros(y - Len(k))) = y
          /\ \A j \in 1..y : (k \o Zeros(y - Len(k)))[j] = IF j <= Len(k) THEN k[j] ELSE 0
      BY <2>1, FilledPiece
    <2>3. QED
      BY <1>1, <1>11, <2>2
  <1>13. g[z] = x
    <2>1. \A j \in 1..Len(g[z]) : g[z][j] = x[j]
      BY <1>9, <1>12
    <2>2. QED
      BY <1>9, <1>10, <1>12, <2>1, SameCells
  <1>14. QED
    BY <1>1, <1>2, <1>4, <1>9, <1>11, <1>13

-----------------------------------------------------------------------------
(* The drive *)

\* What fs_mkfs() writes is from the super block on, and only the super block looks
\* like one.
LEMMA MadeCells ==
  ASSUME NEW s \in Nat
  PROVE  /\ s \in DOMAIN Made(s) /\ Made(s)[s] = <<"super">>
         /\ \A b \in DOMAIN Made(s) : /\ b \in Nat /\ b >= s
                                      /\ Made(s)[b] = <<"super">> => b = s
  <1>1. /\ ino2blk(s, 0) \in Nat /\ ino2blk(s, 0) > s + 2
        /\ idx2blk(s, 0) \in Nat /\ idx2blk(s, 0) > ino2blk(s, 0)
    <2>1. 0 \div InodesPerBlock = 0
      BY LayoutAssumption
    <2>2. QED
      BY <2>1, LayoutAssumption DEF ino2blk, idx2blk
  <1>2. PICK i, j \in Nat : i = ino2blk(s, 0) /\ j = idx2blk(s, 0) /\ i > s + 2 /\ j > i
    BY <1>1
  <1>3. Made(s) = [b \in {s, s + 1, s + 2, i, j} |->
                     IF b = s THEN <<"super">> ELSE IF b = s + 1 THEN <<"inode_bmap">>
                     ELSE IF b = s + 2 THEN <<"dblk_bmap">>
                     ELSE IF b = i THEN <<"inodes">> ELSE <<"directory">>]
    BY <1>2 DEF Made
  <1>4. <<"super">> \notin {<<"inode_bmap">>, <<"dblk_bmap">>, <<"inodes">>, <<"directory">>}
    OBVIOUS
  <1>5. QED
    BY <1>2, <1>3, <1>4

\* The kernel stays on the drive if its sectors do.
LEMMA KernelStays ==
  ASSUME NEW d, NEW k, NEW z \in Nat, HasKernel(d, k, z), NEW e,
         \A i \in 0..z : i \in DOMAIN e /\ e[i] = d[i]
  PROVE  HasKernel(e, k, z)
  <1>1. \A i \in 1..z : i \in 0..z
    OBVIOUS
  <1>2. 0 \in 0..z
    OBVIOUS
  <1>3. QED
    BY <1>1, <1>2 DEF HasKernel

-----------------------------------------------------------------------------
(* The invariant *)

\* The cells of a kernel, as parse_file() reads its file, and its sectors
Data(f) == parse_file(ElfFile(f)).data

Size(f) == Sectors(Len(Data(f)))

TypeInv ==
  /\ pc \in {"build", "parsed", "off", "forever", "kernel", "mounted"}
  /\ files \in BootFiles \X Kernels
  /\ returned \in BOOLEAN
  /\ sizes \subseteq Nat

ParsedInv ==
  pc = "parsed" =>
    boot = parse_file(ElfFile(files[1])) /\ kernel = parse_file(ElfFile(files[2]))

\* Before there is a kernel there is nothing.
EmptyInv ==
  installed = NoKernel =>
    /\ DOMAIN drive = {} /\ SUPER_BLOCK_START = 0 /\ returned = FALSE
    /\ pc \notin {"kernel", "mounted"}

KernelInv ==
  installed # NoKernel => installed \in Kernels /\ HasKernel(drive, Data(installed), Size(installed))

MemoryInv == pc = "kernel" => memory = FlattenSeq([s \in 1..al |-> drive[s]])

\* Where a kernel that is or was on the drive has its super block
Places == {2 + z : z \in sizes \cup {os_size}}

IsSuper(s) == s \in DOMAIN drive /\ drive[s] = <<"super">>

Whole(s) == \A b \in DOMAIN Made(s) : b \in DOMAIN drive /\ drive[b] = Made(s)[b]

\* Super blocks are nowhere else.  As long as no size has come back, that of the
\* kernel on the drive has its file system behind it, and it is there if this
\* file system was the last to be mounted.
SuperInv ==
  installed # NoKernel =>
    /\ \A s \in DOMAIN drive : IsSuper(s) => s \in Places
    /\ ~returned /\ IsSuper(SuperBlock) => Whole(SuperBlock)
    /\ SUPER_BLOCK_START # 0 => SUPER_BLOCK_START \in Places
    /\ ~returned /\ SUPER_BLOCK_START = SuperBlock => IsSuper(SuperBlock)

MountInv == pc = "mounted" => SUPER_BLOCK_START = SuperBlock /\ IsSuper(SuperBlock)

IInv == TypeInv /\ ParsedInv /\ EmptyInv /\ KernelInv /\ MemoryInv /\ SuperInv /\ MountInv

\* The initial state
LEMMA InitIInv == Init => IInv
  BY DEF Init, IInv, TypeInv, ParsedInv, EmptyInv, KernelInv, MemoryInv, SuperInv, MountInv

\* The size of the kernel on the drive
LEMMA KernelSize ==
  ASSUME IInv, installed # NoKernel
  PROVE  /\ IsFile(installed) /\ Data(installed) \in Seq(Nat)
         /\ os_size = Size(installed) /\ os_size \in Nat /\ SuperBlock \in Nat
  <1>1. IsFile(installed)
    BY BootAssumption DEF IInv, KernelInv
  <1>2. Data(installed) \in Seq(Nat)
    BY <1>1, ParsedType DEF Data
  <1>3. os_size = Size(installed)
    BY DEF IInv, KernelInv, HasKernel, os_size
  <1>4. os_size \in Nat
    BY <1>2, <1>3, InItsSectors DEF Size
  <1>5. QED
    BY <1>1, <1>2, <1>3, <1>4 DEF SuperBlock

\* Steps that leave the drive alone
LEMMA QuietStep ==
  ASSUME IInv,
         UNCHANGED <<drive, SUPER_BLOCK_START, installed, sizes, returned>>,
         pc' \notin {"parsed", "kernel", "mounted"} \/ (pc' = pc /\ UNCHANGED <<files, boot, kernel, memory>>),
         TypeInv'
  PROVE  IInv'
  <1>1. ParsedInv' /\ EmptyInv' /\ MountInv'
    BY DEF IInv, ParsedInv, EmptyInv, MountInv, IsSuper, SuperBlock, os_size
  <1>2. KernelInv'
    BY DEF IInv, KernelInv
  <1>3. MemoryInv'
    BY DEF IInv, MemoryInv, al, os_size
  <1>4. SuperInv'
    BY DEF IInv, SuperInv, Places, IsSuper, Whole, SuperBlock, os_size
  <1>5. QED
    BY <1>1, <1>2, <1>3, <1>4 DEF IInv

LEMMA ParseIInv ==
  ASSUME IInv, Parse
  PROVE  IInv'
  <1>1. TypeInv' /\ ParsedInv'
    BY DEF IInv, TypeInv, ParsedInv, Parse
  <1>2. EmptyInv' /\ MountInv' /\ MemoryInv'
    BY DEF IInv, EmptyInv, MountInv, MemoryInv, Parse
  <1>3. KernelInv'
    BY DEF IInv, KernelInv, Parse
  <1>4. SuperInv'
    BY DEF IInv, SuperInv, Places, IsSuper, Whole, SuperBlock, os_size, Parse
  <1>5. QED
    BY <1>1, <1>2, <1>3, <1>4 DEF IInv

LEMMA QuietActions ==
  ASSUME IInv, Reject \/ Rebuild \/ LoadFails
  PROVE  IInv'
  <1>1. UNCHANGED <<drive, SUPER_BLOCK_START, installed, sizes, returned>>
    BY DEF Reject, Rebuild, LoadFails
  <1>2. pc' \notin {"parsed", "kernel", "mounted"}
    BY DEF Reject, Rebuild, LoadFails
  <1>3. TypeInv'
    BY DEF IInv, TypeInv, Reject, Rebuild, LoadFails
  <1>4. QED
    BY <1>1, <1>2, <1>3, QuietStep

LEMMA StutterIInv ==
  ASSUME IInv, UNCHANGED vars
  PROVE  IInv'
  <1>1. TypeInv'
    BY DEF IInv, TypeInv, vars
  <1>2. QED
    BY <1>1, QuietStep DEF vars

LEMMA LoadIInv ==
  ASSUME IInv, Load
  PROVE  IInv'
  <1>1. TypeInv' /\ ParsedInv' /\ EmptyInv' /\ MountInv'
    BY DEF IInv, TypeInv, ParsedInv, EmptyInv, MountInv, Load
  <1>2. MemoryInv'
    BY DEF MemoryInv, al, os_size, Load
  <1>3. KernelInv'
    BY DEF IInv, KernelInv, Load
  <1>4. SuperInv'
    BY DEF IInv, SuperInv, Places, IsSuper, Whole, SuperBlock, os_size, Load
  <1>5. QED
    BY <1>1, <1>2, <1>3, <1>4 DEF IInv

\* fs_init() writes behind the kernel, and only where there is no super block.
LEMMA MountIInv ==
  ASSUME IInv, fs_init
  PROVE  IInv'
  <1>1. /\ installed # NoKernel /\ pc' = "mounted"
        /\ UNCHANGED <<files, installed, sizes, returned>>
    BY DEF IInv, EmptyInv, fs_init
  <1>2. PICK z \in Nat : z = os_size /\ z = Size(installed)
    BY <1>1, KernelSize
  <1>3. PICK s \in Nat : s = 2 + z
    OBVIOUS
  <1>4. SuperBlock = s /\ SUPER_BLOCK_START' = s
    BY <1>2, <1>3 DEF SuperBlock, fs_init
  <1>5. HasKernel(drive, Data(installed), z) /\ installed \in Kernels
    BY <1>1, <1>2 DEF IInv, KernelInv
  <1>6. \/ IsSuper(s) /\ drive' = drive
        \/ ~ IsSuper(s) /\ drive' = Written(Made(s), drive)
    BY <1>4 DEF fs_init, IsSuper
  <1> DEFINE m == Made(s)
  <1> HIDE DEF m
  <1>7. ~ IsSuper(s) =>
           /\ DOMAIN drive' = DOMAIN m \cup DOMAIN drive
           /\ \A b \in DOMAIN m : drive'[b] = m[b]
           /\ \A b \in DOMAIN drive \ DOMAIN m : drive'[b] = drive[b]
    <2>1. ~ IsSuper(s) => drive' = Written(m, drive)
      BY <1>6 DEF m
    <2>2. QED
      BY <2>1 DEF Written
  <1>8. /\ s \in DOMAIN m /\ m[s] = <<"super">>
         /\ \A b \in DOMAIN m : b \in Nat /\ b >= s /\ (m[b] = <<"super">> => b = s)
    BY MadeCells DEF m
  <1>9. ASSUME NEW i \in 0..z PROVE i \in DOMAIN drive' /\ drive'[i] = drive[i]
    <2>1. i \in DOMAIN drive
      BY <1>5 DEF HasKernel
    <2>2. i \notin DOMAIN m
      BY <1>3, <1>8
    <2>3. QED
      BY <1>6, <1>7, <2>1, <2>2
  <1>10. HasKernel(drive', Data(installed), z)
    BY <1>5, <1>9, KernelStays
  <1>11. os_size' = z /\ SuperBlock' = s
    BY <1>3, <1>10 DEF HasKernel, os_size, SuperBlock
  <1>12. KernelInv'
    BY <1>1, <1>2, <1>5, <1>10 DEF KernelInv
  <1>13. Places' = Places /\ s \in Places
    BY <1>1, <1>2, <1>3, <1>11 DEF Places
  <1>14. IsSuper(s)' /\ \A b \in DOMAIN drive' : IsSuper(b)' => b = s \/ IsSuper(b)
    <2>1. CASE IsSuper(s)
      BY <1>6, <2>1 DEF IsSuper
    <2>2. CASE ~ IsSuper(s)
      BY <1>7, <1>8, <2>2 DEF IsSuper
    <2>3. QED
      BY <2>1, <2>2
  <1>15. ~ returned => Whole(s)'
    <2>1. CASE IsSuper(s)
      BY <1>1, <1>4, <1>6, <2>1 DEF IInv, SuperInv, Whole
    <2>2. CASE ~ IsSuper(s)
      BY <1>7, <2>2 DEF Whole, m
    <2>3. QED
      BY <2>1, <2>2
  <1>16. \A b \in DOMAIN drive' : IsSuper(b)' => b \in Places'
    BY <1>1, <1>13, <1>14 DEF IInv, SuperInv, IsSuper
  <1>17. SuperInv'
    <2>1. IsSuper(SuperBlock)' /\ (SUPER_BLOCK_START \in Places)'
      BY <1>4, <1>11, <1>13, <1>14 DEF IsSuper
    <2>2. ~ returned' => Whole(SuperBlock)'
      BY <1>1, <1>11, <1>15 DEF Whole
    <2>3. QED
      BY <1>16, <2>1, <2>2 DEF SuperInv
  <1>18. TypeInv' /\ ParsedInv' /\ EmptyInv' /\ MemoryInv'
    BY <1>1 DEF IInv, TypeInv, ParsedInv, EmptyInv, MemoryInv
  <1>19. MountInv'
    BY <1>4, <1>11, <1>14 DEF MountInv, IsSuper
  <1>20. QED
    BY <1>12, <1>17, <1>18, <1>19 DEF IInv

\* What Install does to the drive
LEMMA InstallsKernel ==
  ASSUME IInv, Install
  PROVE  /\ installed' \in Kernels /\ installed' # NoKernel
         /\ HasKernel(drive', Data(installed'), Size(installed'))
         /\ os_size' = Size(installed') /\ os_size' \in Nat
         /\ \A i \in 0..os_size' : i \in DOMAIN drive' /\ ~ IsSuper(i)'
         /\ DOMAIN drive' = 0..os_size' \cup DOMAIN drive
         /\ \A i \in DOMAIN drive \ 0..os_size' : drive'[i] = drive[i]
  <1>1. PICK f, h : /\ f = files[2] /\ h = files[1]
                    /\ f \in Kernels /\ h \in BootFiles /\ IsFile(f) /\ IsFile(h)
    BY BootAssumption DEF IInv, TypeInv
  <1>2. boot = parse_file(ElfFile(h)) /\ kernel = parse_file(ElfFile(f))
    BY <1>1 DEF IInv, ParsedInv, Install
  <1>3. /\ boot.data \in Seq(Nat) /\ Len(boot.data) = SECTOR_SIZE
        /\ kernel.data = Data(f) /\ Data(f) \in Seq(Nat)
    BY <1>1, <1>2, ParsedType DEF Install, Correct, Data
  <1>4. f # NoKernel
    <2>1. kernel.count > 0
      BY DEF Install, Correct
    <2>2. QED
      BY <1>1, <1>2, <2>1, ParsedType DEF NoKernel
  <1>5. PICK k, im, z : /\ k = Data(f) /\ im = Image(boot.data, k) /\ z = Size(f)
    OBVIOUS
  <1>6. z \in Nat /\ IsImage(im, k, z)
    BY <1>3, <1>5, ImageCells DEF Size
  <1>7. drive' = Written(InSectors(im), drive) /\ installed' = f
    BY <1>1, <1>3, <1>5 DEF Install
  <1>8. PICK e : e = InSectors(im)
    OBVIOUS
  <1>9. /\ DOMAIN e = 0..z /\ HasKernel(e, k, z)
        /\ \A i \in 0..z : e[i] \in Seq(Nat) /\ Len(e[i]) = SECTOR_SIZE
    BY <1>6, <1>8, SectorCells
  <1>10. /\ DOMAIN drive' = 0..z \cup DOMAIN drive
         /\ \A i \in 0..z : drive'[i] = e[i]
         /\ \A i \in DOMAIN drive \ 0..z : drive'[i] = drive[i]
    <2>1. drive' = Written(e, drive)
      BY <1>7, <1>8
    <2>2. /\ DOMAIN drive' = DOMAIN e \cup DOMAIN drive
          /\ \A i \in DOMAIN e : drive'[i] = e[i]
          /\ \A i \in DOMAIN drive \ DOMAIN e : drive'[i] = drive[i]
      BY <2>1 DEF Written
    <2>3. QED
      BY <1>9, <2>2
  <1>11. HasKernel(drive', k, z)
    BY <1>6, <1>9, <1>10, KernelStays
  <1>12. os_size' = z
    BY <1>11 DEF HasKernel, os_size
  <1>13. ASSUME NEW i \in 0..z PROVE ~ IsSuper(i)'
    <2>1. Len(e[i]) # 1
      <3>1. Len(e[i]) = SECTOR_SIZE
        BY <1>9
      <3>2. SECTOR_SIZE # 1
        BY SectorSize
      <3>3. QED
        BY <3>1, <3>2
    <2>2. e[i] # <<"super">>
      BY <2>1
    <2>3. QED
      BY <1>10, <2>2 DEF IsSuper
  <1>14. QED
    BY <1>1, <1>4, <1>5, <1>6, <1>7, <1>10, <1>11, <1>12, <1>13

LEMMA InstallIInv ==
  ASSUME IInv, Install
  PROVE  IInv'
  <1>1. PICK z \in Nat : z = os_size'
    BY InstallsKernel
  <1>2. /\ installed' # NoKernel
        /\ \A i \in 0..z : i \in DOMAIN drive' /\ ~ IsSuper(i)'
        /\ DOMAIN drive' = 0..z \cup DOMAIN drive
        /\ \A i \in DOMAIN drive \ 0..z : drive'[i] = drive[i]
    BY <1>1, InstallsKernel
  <1>3. PICK s \in Nat : s = 2 + z /\ s > z
    OBVIOUS
  <1>4. SuperBlock' = s
    BY <1>1, <1>3 DEF SuperBlock
  <1>5. KernelInv'
    BY InstallsKernel DEF KernelInv
  <1>6. sizes' \subseteq Nat
    BY KernelSize DEF Install, IInv, TypeInv
  <1>7. TypeInv' /\ ParsedInv' /\ EmptyInv' /\ MemoryInv' /\ MountInv'
    BY <1>2, <1>6 DEF IInv, TypeInv, ParsedInv, EmptyInv, MemoryInv, MountInv, Install
  <1>8. Places' = {2 + y : y \in sizes' \cup {z}}
    BY <1>1 DEF Places
  <1>9. installed # NoKernel => Places = {2 + y : y \in sizes'}
    BY DEF Places, Install
  <1>10. installed # NoKernel => Places \subseteq Places'
    BY <1>8, <1>9
  <1>11. ASSUME NEW b \in DOMAIN drive', IsSuper(b)'
         PROVE  installed # NoKernel /\ IsSuper(b) /\ b \in Places
    <2>1. b \in DOMAIN drive \ 0..z
      BY <1>2, <1>11
    <2>2. IsSuper(b)
      BY <1>2, <1>11, <2>1 DEF IsSuper
    <2>3. installed # NoKernel
      BY <2>1 DEF IInv, EmptyInv
    <2>4. QED
      BY <2>1, <2>2, <2>3 DEF IInv, SuperInv
  <1>12. ASSUME installed # NoKernel, ~ returned', s \in Places
         PROVE  s = SuperBlock /\ ~ returned
    <2>1. PICK y \in sizes' : s = 2 + y
      BY <1>9, <1>12
    <2>2. y = z
      BY <1>3, <1>6, <2>1
    <2>3. os_size' = os_size /\ ~ returned
      BY <1>1, <1>12, <2>1, <2>2 DEF Install
    <2>4. QED
      BY <1>1, <1>3, <2>3 DEF SuperBlock
  <1>13. ASSUME NEW b \in Nat, b >= s, b \in DOMAIN drive
         PROVE  b \in DOMAIN drive' /\ drive'[b] = drive[b]
    <2>1. b \notin 0..z
      BY <1>3, <1>13
    <2>2. QED
      BY <1>2, <1>13, <2>1
  <1>14. ~ returned' /\ IsSuper(s)' => Whole(s)'
    <2>1. SUFFICES ASSUME ~ returned', IsSuper(s)' PROVE Whole(s)'
      OBVIOUS
    <2>2. installed # NoKernel /\ IsSuper(s) /\ s \in Places
      BY <1>11, <2>1 DEF IsSuper
    <2>3. s = SuperBlock /\ ~ returned
      BY <1>12, <2>1, <2>2
    <2>4. Whole(s)
      BY <2>2, <2>3 DEF IInv, SuperInv
    <2>5. QED
      BY <1>13, <2>4, MadeCells DEF Whole
  <1>15. SUPER_BLOCK_START' = SUPER_BLOCK_START
    BY DEF Install
  <1>16. SUPER_BLOCK_START # 0 => installed # NoKernel /\ SUPER_BLOCK_START \in Places
    BY DEF IInv, EmptyInv, SuperInv
  <1>17. ~ returned' /\ SUPER_BLOCK_START = s => IsSuper(s)'
    <2>1. SUFFICES ASSUME ~ returned', SUPER_BLOCK_START = s PROVE IsSuper(s)'
      OBVIOUS
    <2>2. installed # NoKernel /\ s \in Places
      BY <1>3, <1>16, <2>1
    <2>3. s = SuperBlock /\ ~ returned
      BY <1>12, <2>1, <2>2
    <2>4. IsSuper(s)
      BY <2>1, <2>2, <2>3 DEF IInv, SuperInv
    <2>5. QED
      BY <1>13, <2>4 DEF IsSuper
  <1>18. SuperInv'
    <2>1. \A b \in DOMAIN drive' : IsSuper(b)' => b \in Places'
      BY <1>10, <1>11
    <2>2. SUPER_BLOCK_START' # 0 => SUPER_BLOCK_START' \in Places'
      BY <1>10, <1>15, <1>16
    <2>3. ~ returned' /\ IsSuper(SuperBlock)' => Whole(SuperBlock)'
      BY <1>4, <1>14 DEF IsSuper, Whole
    <2>4. ~ returned' /\ SUPER_BLOCK_START' = SuperBlock' => IsSuper(SuperBlock)'
      BY <1>4, <1>15, <1>17 DEF IsSuper
    <2>5. QED
      BY <2>1, <2>2, <2>3, <2>4 DEF SuperInv
  <1>19. QED
    BY <1>5, <1>7, <1>18 DEF IInv

\* The invariant holds for any files, sizes and number of builds.
THEOREM BootIInv == Spec => []IInv
  <1>1. IInv /\ [Next]_vars => IInv'
    BY ParseIInv, QuietActions, StutterIInv, LoadIInv, MountIInv, InstallIInv DEF Next
  <1>2. QED
    BY InitIInv, <1>1, PTL DEF Spec

-----------------------------------------------------------------------------
(* The results *)

\* What the boot block loads is the kernel that was linked, and zeros.
THEOREM KernelIsComplete == Spec => []KernelComplete
  <1>1. IInv => KernelComplete
    <2>1. SUFFICES ASSUME IInv, pc = "kernel", FullSegments(installed), os_size < AL
                   PROVE  memory = Linked(installed) \o Zeros(Len(memory) - Len(Linked(installed)))
      BY DEF KernelComplete
    <2>2. installed # NoKernel
      BY <2>1 DEF IInv, EmptyInv
    <2>3. PICK z \in Nat : z = os_size /\ z = Size(installed)
      BY <2>1, <2>2, KernelSize
    <2>4. al = z
      BY <2>1, <2>3, BootAssumption DEF al
    <2>5. memory = FlattenSeq([s \in 1..z |-> drive[s]])
      BY <2>1, <2>4 DEF IInv, MemoryInv
    <2>6. PICK k : k = Data(installed)
      OBVIOUS
    <2>7. k \in Seq(Nat) /\ z = Sectors(Len(k)) /\ HasKernel(drive, k, z)
      BY <2>1, <2>2, <2>3, <2>6, KernelSize DEF IInv, KernelInv, Size
    <2>8. memory = k \o Zeros(Len(memory) - Len(k))
      BY <2>5, <2>7, Loaded
    <2>9. k = Linked(installed)
      BY <2>1, <2>2, <2>6, KernelSize, ParsedData DEF Data
    <2>10. QED
      BY <2>8, <2>9
  <1>2. QED
    BY BootIInv, <1>1, PTL

\* The file system fs_init() has made or found is whole, unless a size has returned.
THEOREM FileSystemIsWhole == Spec => []FileSystemWhole
  <1>1. IInv => FileSystemWhole
    BY DEF IInv, FileSystemWhole, EmptyInv, SuperInv, MountInv, Whole
  <1>2. QED
    BY BootIInv, <1>1, PTL

\* A kernel of the size of the one it replaces mounts the file system it finds.
THEOREM FilesAreKept == Spec => UpdateKeepsFiles
  <1>1. IInv /\ [Next]_vars =>
          [pc = "kernel" /\ SUPER_BLOCK_START = SuperBlock /\ ~returned => drive' = drive]_vars
    <2>1. SUFFICES ASSUME IInv, Next, pc = "kernel", SUPER_BLOCK_START = SuperBlock, ~returned
                   PROVE  drive' = drive
      OBVIOUS
    <2>2. installed # NoKernel
      BY <2>1 DEF IInv, EmptyInv
    <2>3. IsSuper(SuperBlock)
      BY <2>1, <2>2 DEF IInv, SuperInv
    <2>4. fs_init
      BY <2>1 DEF Next, Parse, Reject, Install, Rebuild, Load, LoadFails
    <2>5. QED
      BY <2>3, <2>4 DEF fs_init, IsSuper
  <1>2. QED
    BY BootIInv, <1>1, PTL DEF UpdateKeepsFiles, Spec

\* An inode get_free_entry() can return is not in the last block of inodes.
LEMMA InodeBlock ==
  ASSUME NEW i \in Entries
  PROVE  i \in Nat /\ i \div InodesPerBlock \in 0..(INODE_BLOCKS - 2)
  <1>1. PICK n, p, t \in Nat : /\ n = 8 * (BITMAP_ENTRIES \div 8) /\ p = InodesPerBlock
                               /\ t = INODE_BLOCKS - 1 /\ p > 0 /\ t > 0 /\ n <= p * t
    BY LayoutAssumption
  <1>2. i \in 0..(n - 1)
    BY <1>1 DEF Entries
  <1>3. i \in Nat /\ i < p * t
    <2>1. p * t \in Nat
      OBVIOUS
    <2>2. QED
      BY <1>1, <1>2, <2>1
  <1>4. PICK q \in Int, r \in 0..(p - 1) : q = i \div p /\ i = p * q + r
    BY <1>1, <1>3
  <1>5. q >= t => p * q >= p * t
    BY <1>1
  <1>6. q <= -1 => p * q <= -p
    BY <1>1
  <1>7. p * q \in Int /\ p * t \in Int
    BY <1>1
  <1>8. q >= 0 /\ q < t
    BY <1>1, <1>3, <1>4, <1>5, <1>6, <1>7
  <1>9. QED
    BY <1>1, <1>3, <1>4, <1>8, LayoutAssumption

\* Kernel, super block, bitmaps, inodes and data blocks never overlap.
THEOREM AreasAreDisjoint == Spec => []DriveDisjoint
  <1>1. IInv => DriveDisjoint
    <2>1. SUFFICES ASSUME IInv, pc = "mounted" PROVE DriveDisjoint
      BY DEF DriveDisjoint
    <2>2. PICK s \in Nat : s = SUPER_BLOCK_START /\ s >= 2
      BY <2>1, KernelSize DEF IInv, EmptyInv, MountInv, SuperBlock
    <2>3. PICK B, I, F, n \in Nat : /\ B = BITMAP_BLOCKS /\ I = INODE_BLOCKS /\ F = FS_BLOCKS
                                    /\ n = 8 * (BITMAP_ENTRIES \div 8)
                                    /\ B > 1 /\ I > 1 /\ B + I + n <= F
      BY LayoutAssumption
    <2>4. PICK a1, a2, a3, a4, a5 :
            /\ a1 = 0..(s - 2) /\ a2 = {s} /\ a3 = (s + 1)..(s + BITMAP_BLOCKS)
            /\ a4 = {ino2blk(s, i) : i \in Entries} /\ a5 = {idx2blk(s, i) : i \in Entries}
      OBVIOUS
    <2>5. Areas(s) = <<a1, a2, a3, a4, a5>>
      BY <2>4 DEF Areas
    <2>6. \A b \in a1 : b \in Int /\ b < s
      BY <2>4
    <2>7. \A b \in a2 : b = s
      BY <2>4
    <2>8. \A b \in a3 : b \in Int /\ b > s /\ b <= s + B
      BY <2>3, <2>4
    <2>9. \A b \in a4 : b \in Int /\ b > s + B /\ b < s + B + I
      <3>1. ASSUME NEW i \in Entries
            PROVE  ino2blk(s, i) \in Int /\ ino2blk(s, i) > s + B /\ ino2blk(s, i) < s + B + I
        <4>1. PICK q \in Int : q = i \div InodesPerBlock /\ q >= 0 /\ q <= I - 2
          BY <2>3, InodeBlock
        <4>2. ino2blk(s, i) = s + B + q + 1
          BY <2>3, <4>1 DEF ino2blk
        <4>3. QED
          BY <4>1, <4>2
      <3>2. QED
        BY <2>4, <3>1
    <2>10. \A b \in a5 : b \in Int /\ b >= s + B + I /\ b <= s + F - 1
      <3>1. ASSUME NEW i \in Entries
            PROVE  /\ idx2blk(s, i) \in Int /\ idx2blk(s, i) >= s + B + I
                   /\ idx2blk(s, i) <= s + F - 1
        <4>1. i \in 0..(n - 1)
          BY <2>3 DEF Entries
        <4>2. idx2blk(s, i) = s + B + I + i
          BY <2>3 DEF idx2blk
        <4>3. QED
          BY <2>3, <4>1, <4>2
      <3>2. QED
        BY <2>4, <3>1
    <2>11. /\ a1 \cap a2 = {} /\ a1 \cap a3 = {} /\ a1 \cap a4 = {} /\ a1 \cap a5 = {}
           /\ a2 \cap a3 = {} /\ a2 \cap a4 = {} /\ a2 \cap a5 = {}
           /\ a3 \cap a4 = {} /\ a3 \cap a5 = {} /\ a4 \cap a5 = {}
      BY <2>3, <2>6, <2>7, <2>8, <2>9, <2>10
    <2>12. PICK L : L = s..(s + FS_BLOCKS - 1)
      OBVIOUS
    <2>13. a2 \subseteq L /\ a3 \subseteq L /\ a4 \subseteq L /\ a5 \subseteq L
      BY <2>3, <2>7, <2>8, <2>9, <2>10, <2>12
    <2>14. PICK a : a = <<a1, a2, a3, a4, a5>>
      OBVIOUS
    <2>15. /\ Len(a) = 5 /\ a[1] = a1 /\ a[2] = a2 /\ a[3] = a3 /\ a[4] = a4 /\ a[5] = a5
      BY <2>14
    <2>16. \A i, j \in 1..5 : i # j => a[i] \cap a[j] = {}
      BY <2>11, <2>15
    <2>17. \A i \in 2..5 : a[i] \subseteq L
      BY <2>13, <2>15
    <2>18. QED
      BY <2>2, <2>5, <2>12, <2>14, <2>15, <2>16, <2>17 DEF DriveDisjoint
  <1>2. QED
    BY BootIInv, <1>1, PTL
=============================================================================
