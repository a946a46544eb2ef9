------------------------ MODULE SplitContractionProofs ------------------------
(***************************************************************************)
(* For all problems and controls of the catalog: a column of the           *)
(* contraction lies in one slice, and in one stage of it, so the gradient  *)
(* is exact whatever the order of the workgroups.                          *)
(***************************************************************************)
EXTENDS SplitContraction, TLAPS

-----------------------------------------------------------------------------
(* Arithmetic of multiples.                                                *)

(* A larger factor makes a larger multiple, by at least one period.        *)
LEMMA MultipleMonotone ==
    ASSUME NEW a \in Int, NEW b \in Int, NEW d \in Nat, a < b
    PROVE  a * d + d <= b * d
<1>1. a + 1 <= b
  OBVIOUS
<1>2. PICK e \in Nat : b = a + 1 + e
  <2>1. b - a - 1 \in Nat /\ b = a + 1 + (b - a - 1)
    BY <1>1
  <2> QED BY <2>1
<1>3. b * d = a * d + d + e * d
  BY <1>2
<1>4. e * d \in Nat
  OBVIOUS
<1> QED BY <1>3, <1>4

(* Multiples in order have factors in order.                               *)
LEMMA FactorMonotone ==
    ASSUME NEW a \in Int, NEW b \in Int, NEW d \in Nat, a * d < b * d
    PROVE  a < b
<1> SUFFICES ASSUME b <= a PROVE FALSE
  OBVIOUS
<1>1. CASE b = a
  BY <1>1
<1>2. CASE b < a
  <2>1. b * d + d <= a * d
    BY <1>2, MultipleMonotone
  <2> QED BY <2>1
<1> QED BY <1>1, <1>2

(* Division with remainder, for any divisor.                               *)
LEMMA DivFacts ==
    ASSUME NEW n \in Nat, NEW d \in Nat, d > 0
    PROVE  /\ n \div d \in Nat
           /\ n % d \in 0 .. d - 1
           /\ n = (n \div d) * d + (n % d)
  BY SMT

(* The rounded-up quotient covers the dividend, and no more than needed.   *)
LEMMA CeilDivFacts ==
    ASSUME NEW n \in Nat, NEW d \in Nat, d > 0
    PROVE  /\ CeilDiv(n, d) \in Nat
           /\ n <= CeilDiv(n, d) * d
           /\ CeilDiv(n, d) * d < n + d
<1>1. n + d - 1 \in Nat
  OBVIOUS
<1> DEFINE q == (n + d - 1) \div d
<1> DEFINE r == (n + d - 1) % d
<1>2. q \in Nat /\ r \in 0 .. d - 1 /\ n + d - 1 = q * d + r
  BY <1>1, DivFacts
<1>3. q * d \in Nat
  BY <1>2
<1>4. CeilDiv(n, d) = q
  BY DEF CeilDiv
<1> QED BY <1>2, <1>3, <1>4

-----------------------------------------------------------------------------
(* The slices of a control of the catalog.                                 *)

(* A control that is built and launched has a slice width that is a whole  *)
(* number of stages, enough slices, and whole stages in the contraction.   *)
LEMMA ControlFacts ==
    ASSUME NEW c \in Launchable
    PROVE  /\ c.rows \in Nat /\ c.rows > 0
           /\ c.out_features \in Nat /\ c.out_features > 0
           /\ c.slices \in Nat /\ c.slices > 0
           /\ c.k_iteration \in Nat /\ c.k_iteration > 0
           /\ c.full_tiles \in BOOLEAN /\ c.pipelined \in BOOLEAN
           /\ Chunk(c) \in Nat /\ Chunk(c) > 0
           /\ c.out_features <= c.slices * Chunk(c)
           /\ \E b \in Nat : Chunk(c) = b * c.k_iteration
           /\ \E n \in Nat : c.out_features = n * c.k_iteration
           /\ c.full_tiles => c.rows % RowTile = 0
           /\ c.pipelined => c.full_tiles
<1> DEFINE K == c.k_iteration
<1> DEFINE N == c.out_features
<1> DEFINE S == c.slices
<1> DEFINE Q == Step(c)
<1> DEFINE W == CeilDiv(N, S)
<1>1. /\ c.rows \in Nat /\ c.rows > 0 /\ N \in Nat /\ N > 0 /\ S \in Nat /\ S > 0
      /\ K \in Nat /\ K > 0 /\ K \in StageWidths
      /\ c.full_tiles \in BOOLEAN /\ c.pipelined \in BOOLEAN
  BY SplitAssumption DEF Launchable, Controls, Positive
<1>2. /\ c.exact_out_features = N
      /\ c.full_tiles => c.rows % RowTile = 0
      /\ c.pipelined => c.full_tiles
      /\ N % Q = 0
  <2>1. c \in Controls /\ Admitted(c) /\ Rendered(c)
    BY DEF Launchable
  <2>2. c.exact_out_features > 0 /\ (c.pipelined => c.full_tiles)
    BY <2>1 DEF Rendered
  <2>3. c.exact_out_features = N
    BY <2>1, <2>2 DEF Controls
  <2> QED BY <2>1, <2>2, <2>3 DEF Admitted
<1>3. /\ Q \in Nat /\ Q > 0
      /\ \E m \in Nat : Q = m * K
  <2>1. DecodeStep \in Nat /\ DecodeStep > 0
    BY SplitAssumption DEF Positive
  <2>2. CASE DecodeStep > K
    <3>1. Q = DecodeStep
      BY <2>2, <2>1, <1>1 DEF Step, LargerOf
    <3>2. PICK m \in 1 .. DecodeStep : DecodeStep = m * K
      BY <2>2, <2>1, <1>1, StageAssumption
    <3> QED BY <3>1, <3>2, <2>1
  <2>3. CASE ~(DecodeStep > K)
    <3>1. Q = K
      BY <2>3, <2>1, <1>1 DEF Step, LargerOf
    <3>2. K = 1 * K
      BY <1>1
    <3> QED BY <3>1, <3>2, <1>1
  <2> QED BY <2>2, <2>3
<1>4. PICK m \in Nat : Q = m * K
  BY <1>3
<1>5. /\ W \in Nat
      /\ N <= W * S
  BY <1>1, CeilDivFacts
<1>6. W > 0
  <2> SUFFICES ASSUME W = 0 PROVE FALSE
    BY <1>5
  <2>1. W * S = 0
    BY <1>1
  <2> QED BY <2>1, <1>5, <1>1
<1> DEFINE B == CeilDiv(W, Q)
<1>7. B \in Nat /\ W <= B * Q
  BY <1>5, <1>3, CeilDivFacts
<1>8. Chunk(c) = B * Q
  BY <1>2 DEF Chunk
<1>9. Chunk(c) \in Nat /\ Chunk(c) > 0 /\ W <= Chunk(c)
  BY <1>3, <1>5, <1>6, <1>7, <1>8
<1> HIDE DEF W, B
<1>10. N <= S * Chunk(c)
  <2>1. W * S <= Chunk(c) * S
    <3>1. CASE W = Chunk(c)
      BY <3>1, <1>1, <1>5
    <3>2. CASE W < Chunk(c)
      <4>1. W * S + S <= Chunk(c) * S
        BY <3>2, <1>1, <1>5, <1>9, MultipleMonotone
      <4>2. W * S \in Nat /\ Chunk(c) * S \in Nat
        BY <1>1, <1>5, <1>9
      <4> QED BY <4>1, <4>2, <1>1
    <3> QED BY <3>1, <3>2, <1>5, <1>9
  <2>2. Chunk(c) * S = S * Chunk(c) /\ W * S \in Nat /\ Chunk(c) * S \in Nat
    BY <1>1, <1>5, <1>9
  <2> QED BY <2>1, <2>2, <1>1, <1>5
<1>11. \E b \in Nat : Chunk(c) = b * K
  <2>1. B * m \in Nat
    BY <1>7
  <2>2. Chunk(c) = (B * m) * K
    BY <1>8, <1>4, <1>7, <1>1
  <2> QED BY <2>1, <2>2
<1>12. \E n \in Nat : N = n * K
  <2> DEFINE t == N \div Q
  <2>1. t \in Nat /\ N = t * Q + (N % Q)
    BY <1>1, <1>3, DivFacts
  <2> HIDE DEF t
  <2>2. N = (t * m) * K
    BY <2>1, <1>2, <1>4, <1>1
  <2>3. t * m \in Nat
    BY <2>1
  <2> QED BY <2>2, <2>3
<1> QED BY <1>1, <1>2, <1>9, <1>10, <1>11, <1>12

(* Each column of the contraction lies in one slice: the slices neither    *)
(* overlap nor leave a gap, the empty ones at the end included.            *)
LEMMA ColumnInOneSlice ==
    ASSUME NEW c \in Launchable, NEW column \in 0 .. c.out_features - 1
    PROVE  \E s \in Slices(c) :
             /\ column \in SliceBegin(c, s) .. SliceEnd(c, s) - 1
             /\ \A u \in Slices(c) :
                  column \in SliceBegin(c, u) .. SliceEnd(c, u) - 1 => u = s
<1> DEFINE C == Chunk(c)
<1> DEFINE s == column \div C
<1>1. /\ C \in Nat /\ C > 0 /\ c.slices \in Nat /\ c.out_features \in Nat
      /\ c.out_features <= c.slices * C
      /\ column \in Nat /\ column < c.out_features
  BY ControlFacts
<1> HIDE DEF C
<1>2. s \in Nat /\ s * C <= column /\ column < s * C + C
  <2>1. s \in Nat /\ column % C \in 0 .. C - 1 /\ column = s * C + (column % C)
    BY <1>1, DivFacts
  <2> HIDE DEF s
  <2>2. s * C \in Nat
    BY <2>1, <1>1
  <2> QED BY <2>1, <2>2, <1>1
<1> HIDE DEF s
<1>3. s * C < c.slices * C
  <2>1. s * C \in Nat /\ c.slices * C \in Nat
    BY <1>1, <1>2
  <2> QED BY <2>1, <1>1, <1>2
<1>4. s \in Slices(c)
  BY <1>1, <1>2, <1>3, FactorMonotone DEF Slices
<1>5. ASSUME NEW u \in Slices(c)
      PROVE  /\ SliceBegin(c, u) = u * C /\ u * C \in Nat /\ u \in Nat
             /\ SliceEnd(c, u) = SmallerOf(u * C + C, c.out_features)
             /\ column \in SliceBegin(c, u) .. SliceEnd(c, u) - 1
                  <=> u * C <= column /\ column < u * C + C
  <2>1. u \in Nat
    BY <1>1 DEF Slices
  <2>2. u * C \in Nat
    BY <2>1, <1>1
  <2> DEFINE b == u * C
  <2>3. SliceBegin(c, u) = b /\ SliceEnd(c, u) = SmallerOf(b + C, c.out_features)
    BY DEF SliceBegin, SliceEnd, C
  <2> HIDE DEF b
  <2>4. column \in b .. SmallerOf(b + C, c.out_features) - 1
          <=> b <= column /\ column < b + C
    BY <2>2, <1>1 DEF SmallerOf, b
  <2>5. b = u * C
    BY DEF b
  <2> QED BY <2>1, <2>2, <2>3, <2>4, <2>5
<1>6. column \in SliceBegin(c, s) .. SliceEnd(c, s) - 1
  BY <1>2, <1>4, <1>5
<1>7. ASSUME NEW u \in Slices(c), column \in SliceBegin(c, u) .. SliceEnd(c, u) - 1
      PROVE  u = s
  <2>1. u \in Nat /\ u * C \in Nat /\ u * C <= column /\ column < u * C + C
    BY <1>5, <1>7
  <2>2. s * C \in Nat
    BY <1>1, <1>2
  <2>3. ~(u < s)
    <3> SUFFICES ASSUME u < s PROVE FALSE
      OBVIOUS
    <3>1. u * C + C <= s * C
      BY <2>1, <1>1, <1>2, MultipleMonotone
    <3> QED BY <3>1, <2>1, <2>2, <1>1, <1>2
  <2>4. ~(s < u)
    <3> SUFFICES ASSUME s < u PROVE FALSE
      OBVIOUS
    <3>1. s * C + C <= u * C
      BY <2>1, <1>1, <1>2, MultipleMonotone
    <3> QED BY <3>1, <2>1, <2>2, <1>1, <1>2
  <2> QED BY <2>1, <2>3, <2>4, <1>2
<1> QED BY <1>4, <1>6, <1>7

(* A multiple leaves no remainder.                                         *)
LEMMA MultipleMod ==
    ASSUME NEW i \in Nat, NEW d \in Nat, d > 0
    PROVE  (i * d) % d = 0
<1> DEFINE n == i * d
<1> DEFINE q == n \div d
<1> DEFINE r == n % d
<1>1. n \in Nat
  OBVIOUS
<1>2. q \in Nat /\ r \in 0 .. d - 1 /\ n = q * d + r
  BY <1>1, DivFacts
<1>3. i * d = q * d + r
  BY <1>2
<1> HIDE DEF n, q
<1>4. r \in Nat /\ r < d
  BY <1>2
<1> HIDE DEF r
<1>5. q * d \in Nat
  BY <1>2
<1>6. ~(i < q)
  <2> SUFFICES ASSUME i < q PROVE FALSE
    OBVIOUS
  <2>1. i * d + d <= q * d
    BY <1>2, MultipleMonotone
  <2> QED BY <2>1, <1>3, <1>4, <1>5
<1>7. ~(q < i)
  <2> SUFFICES ASSUME q < i PROVE FALSE
    OBVIOUS
  <2>1. q * d + d <= i * d
    BY <1>2, MultipleMonotone
  <2> QED BY <2>1, <1>3, <1>4, <1>5
<1>8. i = q
  BY <1>2, <1>6, <1>7
<1>9. r = 0
  BY <1>3, <1>4, <1>5, <1>8
<1> QED BY <1>9 DEF r, n

(* No stage of a slice is truncated: it ends in the slice it starts in.    *)
LEMMA WholeStage ==
    ASSUME NEW c \in Launchable,
           NEW s \in Slices(c), NEW o \in StageStarts(c, s)
    PROVE  /\ o \in Nat
           /\ SliceBegin(c, s) \in Nat /\ SliceEnd(c, s) \in Nat
           /\ SliceEnd(c, s) <= c.out_features
           /\ SliceBegin(c, s) <= o
           /\ o + c.k_iteration <= SliceEnd(c, s)
           /\ \E i \in Nat : o = SliceBegin(c, s) + i * c.k_iteration
<1> DEFINE K == c.k_iteration
<1> DEFINE N == c.out_features
<1> DEFINE C == Chunk(c)
<1> DEFINE b == SliceBegin(c, s)
<1> DEFINE e == SliceEnd(c, s)
<1>1. /\ C \in Nat /\ c.slices \in Nat /\ N \in Nat /\ K \in Nat /\ K > 0
      /\ \E w \in Nat : C = w * K
      /\ \E n \in Nat : N = n * K
  BY ControlFacts
<1>2. s \in Nat
  BY <1>1 DEF Slices
<1> HIDE DEF C
<1>3. b \in Nat /\ b = s * C
  <2>1. b = s * C
    BY DEF SliceBegin, C
  <2> QED BY <2>1, <1>1, <1>2
<1>4. e = SmallerOf(b + C, N)
  BY DEF SliceEnd, C
<1>5. o \in b .. e - 1 /\ (o - b) % K = 0
  BY DEF StageStarts
<1> HIDE DEF K, N, b, e
<1>6. e \in Nat /\ e <= N
  BY <1>1, <1>3, <1>4 DEF SmallerOf
<1>7. o \in Nat /\ b <= o /\ o < e
  BY <1>5, <1>3, <1>6
<1>8. PICK i \in Nat : o - b = i * K
  <2>1. o - b \in Nat
    BY <1>7, <1>3
  <2> DEFINE q == (o - b) \div K
  <2>2. q \in Nat /\ o - b = q * K + ((o - b) % K)
    BY <2>1, <1>1, DivFacts
  <2> HIDE DEF q
  <2>3. q * K \in Nat
    BY <2>2, <1>1
  <2>4. o - b = q * K
    BY <2>2, <2>3, <1>5
  <2> QED BY <2>2, <2>4
<1>9. PICK w \in Nat : C = w * K
  BY <1>1
<1>10. PICK n \in Nat : N = n * K
  BY <1>1
<1>11. \E m \in Int : e - b = m * K
  <2>1. CASE e = b + C
    <3>1. e - b = C
      BY <2>1, <1>1, <1>3
    <3>2. e - b = w * K
      BY <3>1, <1>9
    <3> QED BY <3>2
  <2>2. CASE e = N
    <3>1. b = (s * w) * K
      BY <1>3, <1>9, <1>1, <1>2
    <3>2. n - s * w \in Int
      BY <1>2
    <3>3. (n - s * w) * K = n * K - (s * w) * K
      BY <1>1, <1>2
    <3>4. e - b = (n - s * w) * K
      BY <2>2, <1>10, <3>1, <3>3
    <3> QED BY <3>2, <3>4
  <2> QED BY <2>1, <2>2, <1>4 DEF SmallerOf
<1>12. PICK m \in Int : e - b = m * K
  BY <1>11
<1>13. i * K \in Nat /\ m * K \in Int /\ i * K < m * K
  BY <1>1, <1>3, <1>6, <1>7, <1>8, <1>12
<1>14. i * K + K <= m * K
  <2>1. i < m
    BY <1>13, <1>1, FactorMonotone
  <2> QED BY <2>1, <1>1, MultipleMonotone
<1>15. o + K <= e
  <2>1. o = b + i * K /\ e = b + m * K
    BY <1>3, <1>6, <1>7, <1>8, <1>12, <1>13
  <2> QED BY <2>1, <1>13, <1>14, <1>3, <1>1
<1>16. o = b + i * K
  BY <1>3, <1>7, <1>8, <1>13
<1> QED BY <1>3, <1>6, <1>7, <1>15, <1>16 DEF K, N, b, e

(* Within its slice, a column lies in one stage.                           *)
LEMMA ColumnInOneStage ==
    ASSUME NEW c \in Launchable, NEW s \in Slices(c),
           NEW column \in SliceBegin(c, s) .. SliceEnd(c, s) - 1
    PROVE  /\ \E o \in StageStarts(c, s) : column \in o .. o + c.k_iteration - 1
           /\ \A o, p \in StageStarts(c, s) :
                /\ column \in o .. o + c.k_iteration - 1
                /\ column \in p .. p + c.k_iteration - 1
                => o = p
<1> DEFINE K == c.k_iteration
<1> DEFINE b == SliceBegin(c, s)
<1> DEFINE e == SliceEnd(c, s)
<1>1. K \in Nat /\ K > 0
  BY ControlFacts
<1>2. b \in Nat /\ e \in Int /\ column \in Nat /\ b <= column /\ column < e
  <2>1. Chunk(c) \in Nat /\ c.slices \in Nat /\ c.out_features \in Nat
    BY ControlFacts
  <2>2. s \in Nat
    BY <2>1 DEF Slices
  <2>3. b \in Nat
    BY <2>1, <2>2 DEF SliceBegin
  <2> HIDE DEF b
  <2>4. SliceEnd(c, s) = SmallerOf(b + Chunk(c), c.out_features)
    BY DEF SliceEnd, b
  <2>5. e \in Int
    BY <2>1, <2>3, <2>4 DEF SmallerOf
  <2>6. column \in b .. e - 1
    BY DEF b
  <2> QED BY <2>3, <2>5, <2>6
<1>3. StageStarts(c, s) = {o \in b .. e - 1 : (o - b) % K = 0}
  BY DEF StageStarts
<1> HIDE DEF K, b, e
<1>4. \E o \in StageStarts(c, s) : column \in o .. o + K - 1
  <2> DEFINE q == (column - b) \div K
  <2> DEFINE r == (column - b) % K
  <2>1. q \in Nat /\ r \in 0 .. K - 1 /\ column - b = q * K + r
    <3>1. column - b \in Nat
      BY <1>2
    <3> QED BY <3>1, <1>1, DivFacts
  <2> HIDE DEF q, r
  <2>2. q * K \in Nat
    BY <2>1, <1>1
  <2>3. (q * K) % K = 0
    BY <2>1, <1>1, MultipleMod
  <2> DEFINE o == b + q * K
  <2>4. o - b = q * K
    BY <2>2, <1>2
  <2>5. o <= column /\ column < o + K /\ o \in Nat
    BY <2>1, <2>2, <1>1, <1>2
  <2>6. (o - b) % K = 0
    BY <2>3, <2>4
  <2> HIDE DEF o
  <2>7. o \in StageStarts(c, s)
    <3>1. o \in b .. e - 1
      <4>1. o = b + q * K
        BY DEF o
      <4> QED BY <4>1, <2>2, <2>5, <1>2
    <3> QED BY <3>1, <2>6, <1>3
  <2> QED BY <2>5, <2>7, <1>1, <1>2
<1>5. ASSUME NEW o \in StageStarts(c, s), NEW p \in StageStarts(c, s),
             column \in o .. o + K - 1, column \in p .. p + K - 1, o < p
      PROVE  FALSE
  <2>1. \A x \in StageStarts(c, s) : x \in Nat /\ \E i \in Nat : x = b + i * K
    BY WholeStage DEF b, K
  <2>2. PICK i \in Nat : o = b + i * K
    BY <2>1
  <2>3. PICK j \in Nat : p = b + j * K
    BY <2>1
  <2>4. i * K \in Nat /\ j * K \in Nat
    BY <1>1
  <2>5. i * K < j * K
    BY <2>2, <2>3, <2>4, <1>2, <1>5
  <2>6. i * K + K <= j * K
    <3>1. i < j
      BY <2>5, <1>1, FactorMonotone
    <3> QED BY <3>1, <1>1, MultipleMonotone
  <2> QED BY <2>2, <2>3, <2>4, <2>6, <1>1, <1>2, <1>5
<1>6. \A o, p \in StageStarts(c, s) :
        column \in o .. o + K - 1 /\ column \in p .. p + K - 1 => o = p
  <2>1. \A x \in StageStarts(c, s) : x \in Nat
    BY WholeStage
  <2> QED BY <2>1, <1>5
<1> QED BY <1>4, <1>6 DEF K

(* A stage adds its own k_iteration columns, guarded or not.               *)
LEMMA StageIsWhole ==
    ASSUME NEW c \in Launchable,
           NEW s \in Slices(c), NEW o \in StageStarts(c, s)
    PROVE  StageColumns(c, s, o) = o .. o + c.k_iteration - 1
<1> DEFINE K == c.k_iteration
<1> DEFINE e == SliceEnd(c, s)
<1>1. K \in Nat
  BY ControlFacts
<1>2. o \in Nat /\ e \in Nat /\ o + K <= e
  BY WholeStage
<1>3. StageColumns(c, s, o) =
        IF c.full_tiles /\ ~c.pipelined
        THEN o .. o + K - 1 ELSE o .. SmallerOf(o + K, e) - 1
  BY DEF StageColumns
<1> HIDE DEF K, e
<1>4. SmallerOf(o + K, e) = o + K
  BY <1>1, <1>2 DEF SmallerOf
<1>5. StageColumns(c, s, o) = o .. o + K - 1
  <2>1. CASE c.full_tiles /\ ~c.pipelined
    BY <1>3, <2>1
  <2>2. CASE ~(c.full_tiles /\ ~c.pipelined)
    <3>1. StageColumns(c, s, o) = o .. SmallerOf(o + K, e) - 1
      BY ONLY <1>3, <2>2
    <3> QED BY <3>1, <1>1, <1>2, <1>4
  <2> QED BY <2>1, <2>2
<1> QED BY <1>5 DEF K

(* What a slice adds, term by term.                                        *)
LEMMA TermOfSlice ==
    ASSUME NEW c \in Launchable, NEW s \in Slices(c)
    PROVE  /\ \A t \in SliceTerms(c, s) :
                /\ t.stage \in StageStarts(c, s)
                /\ t.column \in t.stage .. t.stage + c.k_iteration - 1
                /\ t = Term(s, t.stage, t.column)
           /\ \A o \in StageStarts(c, s) :
                \A column \in o .. o + c.k_iteration - 1 :
                    Term(s, o, column) \in SliceTerms(c, s)
<1>1. ASSUME NEW t \in SliceTerms(c, s)
      PROVE  /\ t.stage \in StageStarts(c, s)
             /\ t.column \in t.stage .. t.stage + c.k_iteration - 1
             /\ t = Term(s, t.stage, t.column)
  <2>1. PICK o \in StageStarts(c, s) :
          t \in {Term(s, o, column) : column \in StageColumns(c, s, o)}
    BY DEF SliceTerms
  <2>2. PICK column \in StageColumns(c, s, o) : t = Term(s, o, column)
    BY <2>1
  <2>3. t.stage = o /\ t.column = column
    BY <2>2 DEF Term
  <2> QED BY <2>2, <2>3, StageIsWhole
<1>2. ASSUME NEW o \in StageStarts(c, s), NEW column \in o .. o + c.k_iteration - 1
      PROVE  Term(s, o, column) \in SliceTerms(c, s)
  <2>1. column \in StageColumns(c, s, o)
    BY StageIsWhole
  <2> QED BY <2>1 DEF SliceTerms
<1> QED BY <1>1, <1>2

(* The terms of all slices.                                                *)
AllTerms(c) == UNION {SliceTerms(c, s) : s \in Slices(c)}

(* The slices together hold every column of the contraction exactly once.  *)
LEMMA SlicesAreContraction ==
    ASSUME NEW c \in Launchable
    PROVE  IsContraction(c, AllTerms(c))
<1> DEFINE N == c.out_features
<1>1. ASSUME NEW t \in AllTerms(c)
      PROVE  \E s \in Slices(c) : t \in SliceTerms(c, s)
  BY DEF AllTerms
<1>2. ASSUME NEW s \in Slices(c), NEW t \in SliceTerms(c, s)
      PROVE  /\ t.column \in 0 .. N - 1
             /\ t.column \in SliceBegin(c, s) .. SliceEnd(c, s) - 1
  <2>1. t.stage \in StageStarts(c, s) /\ t.column \in t.stage .. t.stage + c.k_iteration - 1
    BY TermOfSlice
  <2>2. /\ t.stage \in Nat /\ SliceBegin(c, s) \in Nat /\ SliceEnd(c, s) \in Nat
        /\ SliceEnd(c, s) <= N /\ SliceBegin(c, s) <= t.stage
        /\ t.stage + c.k_iteration <= SliceEnd(c, s)
    BY <2>1, WholeStage
  <2>3. c.k_iteration \in Nat /\ N \in Nat
    BY ControlFacts
  <2> QED BY <2>1, <2>2, <2>3
<1>3. ASSUME NEW column \in 0 .. N - 1
      PROVE  \E t \in AllTerms(c) : t.column = column
  <2>1. PICK s \in Slices(c) : column \in SliceBegin(c, s) .. SliceEnd(c, s) - 1
    BY ColumnInOneSlice
  <2>2. PICK o \in StageStarts(c, s) : column \in o .. o + c.k_iteration - 1
    BY <2>1, ColumnInOneStage
  <2>3. Term(s, o, column) \in SliceTerms(c, s)
    BY <2>2, TermOfSlice
  <2>4. Term(s, o, column) \in AllTerms(c)
    BY <2>3 DEF AllTerms
  <2>5. Term(s, o, column).column = column
    BY DEF Term
  <2> QED BY <2>4, <2>5
<1>4. ASSUME NEW column \in 0 .. N - 1, NEW t \in AllTerms(c), NEW u \in AllTerms(c),
             t.column = column, u.column = column
      PROVE  t = u
  <2>1. PICK s \in Slices(c) : t \in SliceTerms(c, s)
    BY <1>1
  <2>2. PICK v \in Slices(c) : u \in SliceTerms(c, v)
    BY <1>1
  <2>3. s = v
    <3>1. /\ column \in SliceBegin(c, s) .. SliceEnd(c, s) - 1
          /\ column \in SliceBegin(c, v) .. SliceEnd(c, v) - 1
      BY <1>2, <1>4, <2>1, <2>2
    <3> QED BY <3>1, ColumnInOneSlice
  <2>4. /\ t.stage \in StageStarts(c, s) /\ column \in t.stage .. t.stage + c.k_iteration - 1
        /\ u.stage \in StageStarts(c, s) /\ column \in u.stage .. u.stage + c.k_iteration - 1
        /\ t = Term(s, t.stage, column) /\ u = Term(s, u.stage, column)
    BY <1>4, <2>1, <2>2, <2>3, TermOfSlice
  <2>5. t.stage = u.stage
    <3>1. column \in SliceBegin(c, s) .. SliceEnd(c, s) - 1
      BY <1>2, <1>4, <2>1
    <3> QED BY <3>1, <2>4, ColumnInOneStage
  <2> QED BY <2>4, <2>5
<1>5. \A t \in AllTerms(c) : t.column \in 0 .. N - 1
  BY <1>1, <1>2
<1> QED BY <1>3, <1>4, <1>5 DEF IsContraction

-----------------------------------------------------------------------------
(* The tiles of the rows and the cells of the partial buffer.              *)

(* The workgroups of a slice store every row, and nothing behind the rows. *)
LEMMA TilesCoverRows ==
    ASSUME NEW c \in Launchable
    PROVE  /\ \A row \in 0 .. c.rows - 1 : \E tile \in Tiles(c) : row \in TileRows(c, tile)
           /\ \A tile \in Tiles(c) : \A row \in TileRows(c, tile) : row \in 0 .. c.rows - 1
<1> DEFINE R == c.rows
<1> DEFINE H == RowTile
<1> DEFINE T == CeilDiv(R, H)
<1>1. /\ R \in Nat /\ R > 0 /\ H \in Nat /\ H > 0
      /\ c.full_tiles => R % H = 0
      /\ c.pipelined => c.full_tiles
  BY ControlFacts, SplitAssumption DEF Positive
<1>2. T \in Nat /\ R <= T * H /\ T * H < R + H
  BY <1>1, CeilDivFacts
<1>3. Tiles(c) = 0 .. T - 1
  BY DEF Tiles
<1>4. ASSUME NEW tile, NEW row
      PROVE  row \in TileRows(c, tile)
               <=> /\ row \in tile * H .. tile * H + H - 1
                   /\ c.full_tiles \/ c.pipelined \/ row < R
  BY DEF TileRows
<1> HIDE DEF R, H, T
<1>5. ASSUME NEW row \in 0 .. R - 1
      PROVE  \E tile \in Tiles(c) : row \in TileRows(c, tile)
  <2> DEFINE q == row \div H
  <2>1. q \in Nat /\ row % H \in 0 .. H - 1 /\ row = q * H + (row % H)
    BY <1>1, DivFacts
  <2> HIDE DEF q
  <2>2. q * H \in Nat /\ T * H \in Nat
    BY <2>1, <1>1, <1>2
  <2>3. q * H < T * H
    BY <2>1, <2>2, <1>1, <1>2
  <2>4. q \in Tiles(c)
    BY <2>1, <2>3, <1>1, <1>2, <1>3, FactorMonotone
  <2>5. row \in q * H .. q * H + H - 1
    BY <2>1, <2>2, <1>1
  <2>6. row < R
    BY <1>1
  <2> QED BY <2>4, <2>5, <2>6, <1>4
<1>6. ASSUME NEW tile \in Tiles(c), NEW row \in TileRows(c, tile)
      PROVE  row \in 0 .. R - 1
  <2>1. tile \in Nat /\ tile < T
    BY <1>2, <1>3
  <2>2. tile * H \in Nat
    BY <2>1, <1>1
  <2>3. row \in tile * H .. tile * H + H - 1
    BY <1>4
  <2>4. row \in Nat
    BY <2>2, <2>3, <1>1
  <2>5. CASE c.full_tiles
    <3> DEFINE t == R \div H
    <3>1. t \in Nat /\ R = t * H
      <4>1. t \in Nat /\ R = t * H + (R % H)
        BY <1>1, DivFacts
      <4> HIDE DEF t
      <4>2. t * H \in Nat
        BY <4>1, <1>1
      <4> QED BY <4>1, <4>2, <2>5, <1>1
    <3> HIDE DEF t
    <3>2. T * H < (t + 1) * H
      <4>1. (t + 1) * H = t * H + H
        BY <3>1, <1>1
      <4> QED BY <4>1, <3>1, <1>2
    <3>3. T < t + 1
      BY <3>1, <3>2, <1>1, <1>2, FactorMonotone
    <3>4. tile < t
      BY <3>1, <3>3, <2>1, <1>2
    <3>5. tile * H + H <= t * H
      BY <3>1, <3>4, <2>1, <1>1, MultipleMonotone
    <3> QED BY <3>1, <3>5, <2>2, <2>3, <2>4, <1>1
  <2>6. CASE ~c.full_tiles
    <3>1. row < R
      BY <2>6, <1>1, <1>4
    <3> QED BY <3>1, <2>4, <1>1
  <2> QED BY <2>5, <2>6
<1> QED BY <1>5, <1>6 DEF R

(* The cells of two slices do not meet.                                    *)
LEMMA CellFacts ==
    ASSUME NEW c \in Launchable
    PROVE  /\ \A s \in Slices(c), row \in 0 .. c.rows - 1 : Cell(c, s, row) \in PartialCells(c)
           /\ \A s, u \in Slices(c), row, other \in 0 .. c.rows - 1 :
                Cell(c, s, row) = Cell(c, u, other) => s = u /\ row = other
<1> DEFINE R == c.rows
<1> DEFINE S == c.slices
<1>1. R \in Nat /\ R > 0 /\ S \in Nat /\ S > 0
  BY ControlFacts
<1>2. Slices(c) = 0 .. S - 1 /\ PartialCells(c) = 0 .. S * R - 1
  BY DEF Slices, PartialCells
<1>3. \A s, row : Cell(c, s, row) = s * R + row
  BY DEF Cell
<1> HIDE DEF R, S
<1>4. ASSUME NEW s \in Slices(c), NEW row \in 0 .. R - 1
      PROVE  Cell(c, s, row) \in PartialCells(c)
  <2>1. s \in Nat /\ s < S
    BY <1>1, <1>2
  <2>2. s * R \in Nat /\ S * R \in Nat /\ s * R + R <= S * R
    BY <2>1, <1>1, MultipleMonotone
  <2>3. s * R + row \in 0 .. S * R - 1
    BY <2>2, <1>1
  <2> QED BY <2>3, <1>2, <1>3
<1>5. ASSUME NEW s \in Slices(c), NEW u \in Slices(c), NEW row \in 0 .. R - 1,
             NEW other \in 0 .. R - 1, s < u
      PROVE  Cell(c, s, row) < Cell(c, u, other)
  <2>1. s \in Nat /\ u \in Nat
    BY <1>1, <1>2
  <2>2. s * R \in Nat /\ u * R \in Nat /\ s * R + R <= u * R
    BY <2>1, <1>1, <1>5, MultipleMonotone
  <2>3. s * R + row < u * R + other
    BY <2>2, <1>1
  <2> QED BY <2>3, <1>3
<1>6. ASSUME NEW s \in Slices(c), NEW u \in Slices(c), NEW row \in 0 .. R - 1,
             NEW other \in 0 .. R - 1, Cell(c, s, row) = Cell(c, u, other)
      PROVE  s = u /\ row = other
  <2>1. s \in Nat /\ u \in Nat
    BY <1>1, <1>2
  <2>2. s * R \in Nat /\ u * R \in Nat
    BY <2>1, <1>1
  <2>3. Cell(c, s, row) \in Int /\ Cell(c, u, other) \in Int
    BY <2>2, <1>1, <1>3
  <2>4. ~(s < u) /\ ~(u < s)
    BY <2>3, <1>5, <1>6
  <2>5. s = u
    BY <2>1, <2>4
  <2>6. s * R + row = s * R + other
    BY <2>5, <1>3, <1>6
  <2>7. row = other
    BY <2>6, <2>2, <1>1
  <2> QED BY <2>5, <2>7
<1> QED BY <1>4, <1>6 DEF R

-----------------------------------------------------------------------------
(* The inductive invariant: what has been stored is the slice's own sum,   *)
(* and it stays until the reduction; what has been reduced is the sum of   *)
(* all slices.  ExactGradient alone is not inductive: it does not say what *)
(* the reduction is going to read.                                         *)

StoredIsOwn ==
    \A tile \in Tiles(control), s \in Slices(control) :
        <<tile, s>> \in stored =>
            \A row \in TileRows(control, tile) :
                partials[Cell(control, s, row)] = SliceTerms(control, s)

ReduceAfterSplit == phase = "reduce" => stored = WorkGroups(control)

GradientOfSlices ==
    \A row \in 0 .. control.rows - 1 :
        \/ /\ grad_input[row] = Garbage
           /\ \A thread \in summed : row \notin ReducedRows(control, thread)
        \/ grad_input[row] = AllTerms(control)

IInv == TypeOK /\ StoredIsOwn /\ ReduceAfterSplit /\ GradientOfSlices

(* Sums are over the columns of the problem.                               *)
LEMMA TermsAreTyped ==
    ASSUME NEW c \in Launchable
    PROVE  /\ Garbage \in SUBSET Terms(c)
           /\ \A s \in Slices(c) : SliceTerms(c, s) \in SUBSET Terms(c)
           /\ AllTerms(c) \in SUBSET Terms(c)
<1>1. c.slices \in Nat /\ c.slices > 0 /\ c.out_features \in Nat /\ c.out_features > 0
      /\ c.k_iteration \in Nat /\ c.k_iteration > 0
  BY ControlFacts
<1>2. Term(-1, -1, -1) \in Terms(c)
  BY <1>1 DEF Term, Terms
<1>3. ASSUME NEW s \in Slices(c), NEW t \in SliceTerms(c, s)
      PROVE  t \in Terms(c)
  <2>1. /\ t.stage \in StageStarts(c, s)
        /\ t.column \in t.stage .. t.stage + c.k_iteration - 1
        /\ t = Term(s, t.stage, t.column)
    BY TermOfSlice
  <2>2. /\ t.stage \in Nat /\ SliceEnd(c, s) \in Nat /\ SliceEnd(c, s) <= c.out_features
        /\ t.stage + c.k_iteration <= SliceEnd(c, s)
    BY <2>1, WholeStage
  <2>3. /\ t.stage \in -1 .. c.out_features - 1 /\ t.column \in -1 .. c.out_features - 1
        /\ s \in -1 .. c.slices - 1
    BY <2>1, <2>2, <1>1 DEF Slices
  <2>4. Term(s, t.stage, t.column) \in Terms(c)
    BY <2>3 DEF Term, Terms
  <2> QED BY <2>1, <2>4
<1>4. Garbage \in SUBSET Terms(c)
  BY <1>2 DEF Garbage
<1>5. \A s \in Slices(c) : SliceTerms(c, s) \in SUBSET Terms(c)
  BY <1>3
<1>6. AllTerms(c) \in SUBSET Terms(c)
  BY <1>5 DEF AllTerms
<1> QED BY <1>4, <1>5, <1>6

(* The partial cells the reduction reads, once every workgroup has stored. *)
LEMMA ReduceReadsSlices ==
    ASSUME IInv, phase = "reduce"
    PROVE  \A s \in Slices(control), row \in 0 .. control.rows - 1 :
             partials[Cell(control, s, row)] = SliceTerms(control, s)
<1> SUFFICES ASSUME NEW s \in Slices(control), NEW row \in 0 .. control.rows - 1
             PROVE  partials[Cell(control, s, row)] = SliceTerms(control, s)
  OBVIOUS
<1>1. control \in Launchable
  BY DEF IInv, TypeOK
<1>2. PICK tile \in Tiles(control) : row \in TileRows(control, tile)
  BY <1>1, TilesCoverRows
<1>3. <<tile, s>> \in stored
  BY DEF IInv, ReduceAfterSplit, WorkGroups
<1> QED BY <1>2, <1>3 DEF IInv, StoredIsOwn

(* No cell is stored and no gradient written at first.                     *)
LEMMA InitInvariant == ASSUME Init PROVE IInv
<1>1. control \in Launchable
  BY DEF Init
<1>2. Garbage \in SUBSET Terms(control)
  BY <1>1, TermsAreTyped
<1>3. TypeOK
  BY <1>2 DEF Init, TypeOK
<1>4. StoredIsOwn /\ ReduceAfterSplit
  BY DEF Init, StoredIsOwn, ReduceAfterSplit
<1>5. GradientOfSlices
  BY DEF Init, GradientOfSlices
<1> QED BY <1>3, <1>4, <1>5 DEF IInv

(* A workgroup's store leaves the cells of the others as they are.         *)
LEMMA StoreKeeps ==
    ASSUME IInv, NEW tile \in Tiles(control), NEW s \in Slices(control),
           StorePartial(tile, s)
    PROVE  IInv'
<1> DEFINE c == control
<1>1. /\ c \in Launchable /\ phase = "split" /\ c' = c /\ phase' = phase
      /\ summed' = summed /\ grad_input' = grad_input
      /\ stored' = stored \cup {<<tile, s>>}
      /\ <<tile, s>> \in WorkGroups(c)
  BY DEF IInv, TypeOK, StorePartial
<1>2. /\ partials \in [PartialCells(c) -> SUBSET Terms(c)]
      /\ stored \in SUBSET WorkGroups(c)
      /\ SliceTerms(c, s) \in SUBSET Terms(c)
  BY <1>1, TermsAreTyped DEF IInv, TypeOK
<1>3. \A cell \in PartialCells(c) :
        partials'[cell] = IF \E row \in TileRows(c, tile) : cell = Cell(c, s, row)
                          THEN SliceTerms(c, s) ELSE partials[cell]
  BY DEF StorePartial
<1>4. TypeOK'
  <2>1. partials' \in [PartialCells(c) -> SUBSET Terms(c)]
    BY <1>2 DEF StorePartial
  <2>2. stored' \in SUBSET WorkGroups(c)
    BY <1>1, <1>2
  <2>3. /\ c' \in Launchable /\ phase' \in {"split", "reduce"}
        /\ stored' \in SUBSET WorkGroups(control')
        /\ partials' \in [PartialCells(control') -> SUBSET Terms(control')]
        /\ summed' \in SUBSET (0 .. ReduceThreads(control') - 1)
        /\ grad_input' \in [0 .. control'.rows - 1 -> SUBSET Terms(control')]
    BY <1>1, <2>1, <2>2 DEF IInv, TypeOK
  <2> QED BY <2>3 DEF TypeOK
<1>5. ASSUME NEW other \in Tiles(c), NEW u \in Slices(c), <<other, u>> \in stored',
             NEW row \in TileRows(c, other)
      PROVE  partials'[Cell(c, u, row)] = SliceTerms(c, u)
  <2>1. row \in 0 .. c.rows - 1 /\ \A r \in TileRows(c, tile) : r \in 0 .. c.rows - 1
    BY <1>1, TilesCoverRows
  <2>2. Cell(c, u, row) \in PartialCells(c)
    BY <1>1, <2>1, CellFacts
  <2>3. CASE \E r \in TileRows(c, tile) : Cell(c, u, row) = Cell(c, s, r)
    <3>1. u = s
      BY <1>1, <2>1, <2>3, CellFacts
    <3> QED BY <3>1, <2>2, <2>3, <1>3
  <2>4. CASE ~ \E r \in TileRows(c, tile) : Cell(c, u, row) = Cell(c, s, r)
    <3>1. partials'[Cell(c, u, row)] = partials[Cell(c, u, row)]
      BY <2>2, <2>4, <1>3
    <3>2. <<other, u>> \in stored
      <4>1. CASE <<other, u>> = <<tile, s>>
        <5>1. other = tile /\ u = s
          BY <4>1
        <5> QED BY <5>1, <2>4
      <4>2. CASE <<other, u>> # <<tile, s>>
        BY <4>2, <1>1, <1>5
      <4> QED BY <4>1, <4>2
    <3> QED BY <3>1, <3>2 DEF IInv, StoredIsOwn
  <2> QED BY <2>3, <2>4
<1>6. StoredIsOwn'
  BY <1>1, <1>5 DEF StoredIsOwn
<1>7. ReduceAfterSplit'
  BY <1>1 DEF ReduceAfterSplit
<1>8. GradientOfSlices'
  BY <1>1 DEF IInv, GradientOfSlices
<1> QED BY <1>4, <1>6, <1>7, <1>8 DEF IInv

(* The reduction writes the sum of all slices to the rows of its thread.   *)
LEMMA ReduceKeeps ==
    ASSUME IInv, NEW thread \in 0 .. ReduceThreads(control) - 1,
           Reduce(thread)
    PROVE  IInv'
<1> DEFINE c == control
<1>1. /\ c \in Launchable /\ phase = "reduce" /\ c' = c /\ phase' = phase
      /\ stored' = stored /\ partials' = partials
      /\ summed' = summed \cup {thread}
  BY DEF IInv, TypeOK, Reduce
<1>2. \A row \in 0 .. c.rows - 1 :
        UNION {partials[Cell(c, s, row)] : s \in Slices(c)} = AllTerms(c)
  <2> SUFFICES ASSUME NEW row \in 0 .. c.rows - 1
               PROVE  UNION {partials[Cell(c, s, row)] : s \in Slices(c)} = AllTerms(c)
    OBVIOUS
  <2>1. \A s \in Slices(c) : partials[Cell(c, s, row)] = SliceTerms(c, s)
    BY <1>1, ReduceReadsSlices
  <2>2. {partials[Cell(c, s, row)] : s \in Slices(c)} = {SliceTerms(c, s) : s \in Slices(c)}
    BY <2>1
  <2> QED BY <2>2 DEF AllTerms
<1>3. \A row \in 0 .. c.rows - 1 :
        grad_input'[row] = IF row \in ReducedRows(c, thread)
                           THEN AllTerms(c) ELSE grad_input[row]
  BY <1>2 DEF Reduce
<1>4. TypeOK'
  <2>1. grad_input' = [row \in 0 .. c.rows - 1 |->
          IF row \in ReducedRows(c, thread)
          THEN UNION {partials[Cell(c, s, row)] : s \in Slices(c)} ELSE grad_input[row]]
    BY DEF Reduce
  <2>2. \A row \in 0 .. c.rows - 1 : grad_input'[row] \in SUBSET Terms(c)
    BY <1>1, <1>3, TermsAreTyped DEF IInv, TypeOK
  <2>3. grad_input' \in [0 .. c.rows - 1 -> SUBSET Terms(c)]
    BY <2>1, <2>2
  <2>4. /\ c' \in Launchable /\ phase' \in {"split", "reduce"}
        /\ stored' \in SUBSET WorkGroups(control')
        /\ partials' \in [PartialCells(control') -> SUBSET Terms(control')]
        /\ summed' \in SUBSET (0 .. ReduceThreads(control') - 1)
        /\ grad_input' \in [0 .. control'.rows - 1 -> SUBSET Terms(control')]
    BY <1>1, <2>3 DEF IInv, TypeOK
  <2> QED BY <2>4 DEF TypeOK
<1>5. StoredIsOwn'
  BY <1>1 DEF IInv, StoredIsOwn
<1>6. ReduceAfterSplit'
  BY <1>1 DEF IInv, ReduceAfterSplit
<1>7. GradientOfSlices'
  <2> SUFFICES ASSUME NEW row \in 0 .. c.rows - 1
               PROVE  \/ /\ grad_input'[row] = Garbage
                         /\ \A t \in summed' : row \notin ReducedRows(c, t)
                      \/ grad_input'[row] = AllTerms(c)
    BY <1>1 DEF GradientOfSlices
  <2>1. CASE row \in ReducedRows(c, thread)
    BY <2>1, <1>3
  <2>2. CASE row \notin ReducedRows(c, thread)
    <3>1. grad_input'[row] = grad_input[row]
      BY <2>2, <1>3
    <3> QED BY <3>1, <2>2, <1>1 DEF IInv, GradientOfSlices
  <2> QED BY <2>1, <2>2
<1> QED BY <1>4, <1>5, <1>6, <1>7 DEF IInv

(* Every step keeps the invariant.                                         *)
LEMMA NextInvariant == ASSUME IInv, [Next]_vars PROVE IInv'
<1>1. CASE UNCHANGED vars
  BY <1>1 DEF vars, IInv, TypeOK, StoredIsOwn, ReduceAfterSplit, GradientOfSlices
<1>2. CASE \E tile \in Tiles(control), s \in Slices(control) : StorePartial(tile, s)
  BY <1>2, StoreKeeps
<1>3. CASE StartReduce
  BY <1>3 DEF StartReduce, IInv, TypeOK, StoredIsOwn, ReduceAfterSplit, GradientOfSlices
<1>4. CASE \E thread \in 0 .. ReduceThreads(control) - 1 : Reduce(thread)
  BY <1>4, ReduceKeeps
<1> QED BY <1>1, <1>2, <1>3, <1>4 DEF Next

(* The invariant gives the properties of the runs.                         *)
LEMMA InvariantImplies ==
    ASSUME IInv
    PROVE  TypeOK /\ ExactGradient /\ PartialsStored /\ NoTruncatedStage
<1>1. control \in Launchable
  BY DEF IInv, TypeOK
<1>2. ExactGradient
  BY <1>1, SlicesAreContraction DEF IInv, GradientOfSlices, ExactGradient
<1>3. PartialsStored
  BY ReduceReadsSlices DEF PartialsStored
<1>4. NoTruncatedStage
  BY <1>1, WholeStage DEF NoTruncatedStage
<1> QED BY <1>2, <1>3, <1>4 DEF IInv

(* The invariant holds in every state of every launch.                     *)
LEMMA SplitInvariant == Spec => []IInv
<1>1. Init => IInv
  BY InitInvariant
<1>2. IInv /\ [Next]_vars => IInv'
  BY NextInvariant
<1> QED BY <1>1, <1>2, PTL DEF Spec

(* Sums stay over the columns of the problem, for every control.           *)
THEOREM SplitTypeCorrect == Spec => []TypeOK
<1>1. IInv => TypeOK
  BY InvariantImplies
<1> QED BY <1>1, SplitInvariant, PTL

(* For every problem, every control of the catalog and every order of the  *)
(* workgroups, a gradient cell is the whole contraction, each column once. *)
THEOREM GradientIsExact == Spec => []ExactGradient
<1>1. IInv => ExactGradient
  BY InvariantImplies
<1> QED BY <1>1, SplitInvariant, PTL

(* The reduction reads only what the split launch has stored, empty slices *)
(* included, and no tile spills into the rows of the next slice.           *)
THEOREM PartialsAreStored == Spec => []PartialsStored
<1>1. IInv => PartialsStored
  BY InvariantImplies
<1> QED BY <1>1, SplitInvariant, PTL

(* No stage of any slice is truncated, so unguarded stages are safe.       *)
THEOREM StagesAreWhole == Spec => []NoTruncatedStage
<1>1. IInv => NoTruncatedStage
  BY InvariantImplies
<1> QED BY <1>1, SplitInvariant, PTL
=============================================================================
